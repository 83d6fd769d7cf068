-------------------------- MODULE ExporterManifests --------------------------
(***************************************************************************)
(* The objects of a DcgmExporter and of a NeuronMonitor                    *)
(* (internal/manifests/dcgmexporter, internal/manifests/neuronmonitor).    *)
(* An exporter is the pair of its kind, "dcgm" or "neuron", and its name;  *)
(* its spec a record of image, ports, config (the metrics or monitor       *)
(* configuration), tls (Nil or a configuration, of dcgm alone), args (a    *)
(* set of numbers, which are the names in their order) and account.  The   *)
(* agent, a pair of "agent" and its name, has one object that can be in an *)
(* exporter's way, its DaemonSet.  Names that meet only when written out,  *)
(* as that of an exporter that ends in "-target-allocator", are left out.  *)
(***************************************************************************)
EXTENDS ManifestNames, SequencesExt

CONSTANT ExporterNamespace

WebConfigFile == 9      \* the argument web-config-file

Component(kind) ==
    CASE kind = "dcgm"   -> "dcgm-exporter"
      [] kind = "neuron" -> "neuron-monitor"
      [] kind = "agent"  -> "amazon-cloudwatch-agent"

ExporterMeta(x) == [ns |-> ExporterNamespace, name |-> x[2], labels |-> <<>>]

ExporterLabels(x, spec, name) == Labels(ExporterMeta(x), name, spec.image, Component(x[1]))

\* Agents and exporters of one name have DaemonSets of one name.
DaemonSetOf(x) == <<"DaemonSet", <<x[2], "">>>>

\* These do not depend on the name of the exporter.
ConfigMapOf(x)      == <<Component(x[1]), "config-map">>
AccountOf(x)        == <<Component(x[1]), "service-acct">>
ExporterServiceOf(x) == <<x[2], "service">>

\* The configuration's hash, in the annotations of the objects, not of the pods.
ExporterAnnotations(spec) == [hash |-> spec.config]

ExporterConfigMap(x, spec) ==
    [labels |-> ExporterLabels(x, spec, ConfigMapOf(x)), hash |-> Nil,
     body |-> IF x[1] = "neuron" THEN "monitor.json" :> spec.config
              ELSE ("dcp-metrics-included.csv" :> spec.config)
                     @@ (IF spec.tls = Nil THEN <<>> ELSE "web-config.yaml" :> spec.tls)]

\* Mutant: the arguments of dcgm-exporter in the order of the map, too.
ContainerArgsUnsorted(x, spec) ==
    SetToSeqs(spec.args \cup (IF x[1] = "dcgm" /\ spec.tls # Nil THEN {WebConfigFile} ELSE {}))

\* The orders in which the arguments may come: those of dcgm-exporter are sorted, those of
\* neuron-monitor come as the map gives them.
ContainerArgs(x, spec) ==
    IF x[1] = "dcgm"
      THEN {SetToSortSeq(spec.args \cup (IF spec.tls # Nil THEN {WebConfigFile} ELSE {}), <)}
      ELSE SetToSeqs(spec.args)

ExporterContainer(spec, args) ==
    [image |-> spec.image, args |-> args, ports |-> spec.ports]

ExporterVolumes(x) == <<[source |-> <<"ConfigMap", ConfigMapOf(x)>>]>>

ExporterAccountName(x, spec) == IF spec.account = "" THEN AccountOf(x) ELSE <<spec.account, "">>

ExporterDaemonSet(x, spec, args) ==
    [labels |-> ExporterLabels(x, spec, <<x[2], "">>), hash |-> ExporterAnnotations(spec).hash,
     body |-> [selector |-> SelectorLabels(ExporterMeta(x), Component(x[1])),
               podLabels |-> ExporterLabels(x, spec, <<x[2], "">>),
               account |-> ExporterAccountName(x, spec),
               container |-> ExporterContainer(spec, args), volumes |-> ExporterVolumes(x)]]

ExporterServiceAccount(x, spec) ==
    [labels |-> ExporterLabels(x, spec, AccountOf(x)), hash |-> ExporterAnnotations(spec).hash,
     body |-> <<>>]

\* The first port of the spec or the default.
ExporterService(x, spec) ==
    LET default == [name |-> "metrics", port |-> IF x[1] = "dcgm" THEN 9400 ELSE 8000]
    IN  [labels |-> Over([key \in {"k8s-app"} |-> <<Component(x[1]), "service">>],
                         ExporterLabels(x, spec, <<x[2], "">>)),
         hash |-> ExporterAnnotations(spec).hash,
         body |-> [selector |-> SelectorLabels(ExporterMeta(x), Component(x[1])),
                   port |-> IF spec.ports = <<>> THEN default ELSE spec.ports[1]]]

\* The agent's DaemonSet, of which only the labels matter here.
AgentDaemonSet(x) ==
    [labels |-> Labels(ExporterMeta(x), <<x[2], "">>, "agent", Component(x[1])), hash |-> Nil,
     body |-> [selector |-> SelectorLabels(ExporterMeta(x), Component(x[1])),
               podLabels |-> Labels(ExporterMeta(x), <<x[2], "">>, "agent", Component(x[1]))]]

\* In the order in which they are written and deleted.
ExporterIds(x) ==
    <<DaemonSetOf(x), <<"ConfigMap", ConfigMapOf(x)>>,
      <<"ServiceAccount", AccountOf(x)>>, <<"Service", ExporterServiceOf(x)>>>>

\* What may be built: it differs in the order of the arguments.
BuildExporter(x, spec) ==
    {[id \in ToSet(ExporterIds(x)) |->
        CASE id[1] = "DaemonSet"      -> ExporterDaemonSet(x, spec, args)
          [] id[1] = "ConfigMap"      -> ExporterConfigMap(x, spec)
          [] id[1] = "ServiceAccount" -> ExporterServiceAccount(x, spec)
          [] id[1] = "Service"        -> ExporterService(x, spec)] : args \in ContainerArgs(x, spec)}
=============================================================================
