------------------------- MODULE CollectorManifests -------------------------
(***************************************************************************)
(* The objects of an agent (internal/manifests/collector): the workload    *)
(* with its container and volumes, the services, config maps, autoscaler,  *)
(* disruption budget, ingress or routes and monitors.                      *)
(***************************************************************************)
EXTENDS TargetAllocatorManifests

AgentLabels(a, name) == Labels(Meta(a), name, a.image, AgentComponent)

AgentPorts(a) == getContainerPorts(a.config, a.otel, a.ports)

Entry == [agent |-> "cwagentconfig.json", otel |-> "cwagentotelconfig.yaml",
          prometheus |-> "prometheus.yaml"]

----------------------------------------------------------------------------
\* The pod.

Volumes(a) ==
    <<Volume(<<"otc-internal", "">>, <<"ConfigMap", ConfigMapName(a.name)>>,
             {Entry.agent} \cup (IF a.otel # Nil THEN {Entry.otel} ELSE {}))>>
      \o (IF IsEmpty(a.prom) THEN <<>>
          ELSE <<Volume(<<"prometheus-config", "">>, <<"ConfigMap", PrometheusConfigMap(a.name)>>,
                        {Entry.prometheus})>>)
      \o [k \in DOMAIN a.configMaps |->
            Volume(<<"configmap", a.configMaps[k]>>, <<"User", <<a.configMaps[k], "">>>>, {})]

getLivenessProbe(a) ==
    LET probe == IF a.otel = Nil \/ ~a.otel.parse THEN Nil ELSE ConfigToContainerProbe(a.otel)
    IN  IF probe = Nil THEN Nil
        ELSE [port |-> probe.port, period |-> IF a.probe = Nil THEN 0 ELSE a.probe]

Container(a) ==
    [mounts |-> <<<<"otc-internal", "">>>>
                  \o (IF IsEmpty(a.prom) THEN <<>> ELSE <<<<"prometheus-config", "">>>>),
     ports  |-> AgentPorts(a),
     shard  |-> a.ta,
     probe  |-> getLivenessProbe(a)]

ServiceAccountName(a) ==
    IF a.account = "" THEN ServiceAccountOf(a.name) ELSE <<a.account, "">>

\* The pods carry a hash of the agent's configuration, not of the others.
PodAnnotations(a) == [hash |-> a.config]

\* Mutant: all labels select.
WorkloadAllLabels(a) ==
    [labels |-> AgentLabels(a, Collector(a.name)),
     selector |-> AgentLabels(a, Collector(a.name)),
     podLabels |-> AgentLabels(a, Collector(a.name)),
     hash |-> PodAnnotations(a).hash, replicas |-> a.replicas,
     account |-> ServiceAccountName(a), volumes |-> Volumes(a), container |-> Container(a)]

Workload(a) ==
    [labels |-> AgentLabels(a, Collector(a.name)),
     selector |-> SelectorLabels(Meta(a), AgentComponent),
     podLabels |-> AgentLabels(a, Collector(a.name)),
     hash |-> PodAnnotations(a).hash, replicas |-> a.replicas,
     account |-> ServiceAccountName(a), volumes |-> Volumes(a), container |-> Container(a)]

Deployment(a) == Object("Deployment", Collector(a.name), Workload(a))

StatefulSet(a) ==
    Object("StatefulSet", Collector(a.name),
           Over(Workload(a), [service |-> ServiceName(a.name), claims |-> a.claims]))

DaemonSet(a) == Object("DaemonSet", Collector(a.name), [Workload(a) EXCEPT !.replicas = Nil])

PodDisruptionBudget(a) ==
    Object("PodDisruptionBudget", Collector(a.name),
           [labels |-> AgentLabels(a, Collector(a.name)),
            selector |-> AgentLabels(a, Collector(a.name)), bounds |-> a.pdb])

----------------------------------------------------------------------------
\* What is around it.

HorizontalPodAutoscaler(a) ==
    IF ~a.autoscaler
      THEN {}
      ELSE Object("HorizontalPodAutoscaler", Collector(a.name),
                  [labels |-> AgentLabels(a, Collector(a.name)),
                   max |-> Orelse(a.asMax, a.max),
                   min |-> Orelse(a.asMin, Orelse(a.min, a.replicas)),
                   metrics |-> a.asMetrics, window |-> a.asWindow])

\* The bound is dereferenced.
PanicsOnAutoscaler(a) == a.autoscaler /\ Orelse(a.asMax, a.max) = Nil

ServiceAccount(a) ==
    IF a.account # ""
      THEN {}
      ELSE Object("ServiceAccount", ServiceAccountOf(a.name),
                  [labels |-> AgentLabels(a, ServiceAccountOf(a.name))])

\* Without ports there is none.
Service(a) ==
    IF AgentPorts(a) = {}
      THEN {}
      ELSE Object("Service", ServiceName(a.name),
                  [labels |-> AgentLabels(a, ServiceName(a.name)),
                   selector |-> SelectorLabels(Meta(a), AgentComponent),
                   ports |-> AgentPorts(a), local |-> a.mode = "daemonset"])

\* The same under another name and with a label of its own.
HeadlessService(a) ==
    {<<<<"Service", HeadlessName(a.name)>>,
       [service[2] EXCEPT !.labels = Over(Label("headless", <<"Exists">>), @)]>> : service \in Service(a)}

MonitoringService(a) ==
    Object("Service", MonitoringName(a.name),
           [labels |-> AgentLabels(a, MonitoringName(a.name)),
            selector |-> SelectorLabels(Meta(a), AgentComponent),
            ports |-> {Port(<<"", "monitoring", 0>>, ConfigToMetricsPort(a.config), "")}])

\* Only the spec's ports are shown outside.
servicePortsFromCfg(a) == {a.ports[k] : k \in DOMAIN a.ports}

Backend(a, p) == [service |-> <<"Service", ServiceName(a.name)>>, port |-> p.name]

\* A rule for every port, by a path or a subdomain.
IngressRules(a) ==
    {[host |-> IF a.rule # "subdomain" THEN <<a.host>>
               ELSE <<p.name[2]>> \o (IF a.host \in {"", "*"} THEN <<>> ELSE <<a.host>>),
      backend |-> Backend(a, p)] : p \in servicePortsFromCfg(a)}

Ingress(a) ==
    IF a.ingress # "nginx" \/ servicePortsFromCfg(a) = {}
      THEN {}
      ELSE Object("Ingress", IngressName(a.name), [labels |-> <<>>, rules |-> IngressRules(a)])

Terminations == {"insecure", "edge", "passthrough", "reencrypt"}

Routes(a) ==
    IF a.ingress # "route" \/ a.mode = "sidecar" \/ a.termination \notin Terminations
      THEN {}
      ELSE UNION {Object("Route", RouteName(a.name, p.name[2]), [labels |-> <<>>, backend |-> Backend(a, p)])
                    : p \in servicePortsFromCfg(a)}

\* PodMonitor and ServiceMonitor select by the instance alone.
Monitor(a) ==
    LET kind == IF a.mode = "sidecar" THEN "PodMonitor" ELSE "ServiceMonitor"
    IN  Object(kind, Collector(a.name),
               [labels |-> <<>>,
                selector |-> [key \in {"managed-by", "instance"} |->
                                SelectorLabelsForAllOperatorManaged(Meta(a))[key]],
                port |-> <<"", "monitoring", 0>>])

----------------------------------------------------------------------------
\* The configurations.

\* The agent is told where its Prometheus configuration is.
ReplaceConfig(a) ==
    [config |-> a.config, pathsFor |-> IF IsEmpty(a.prom) THEN {} ELSE a.config.prom]

ReplacedPrometheus(a, rewrite) ==
    ReplacePrometheusConfig(a.prom, a.ta, rewrite, TAService(a.name))

ConfigMapsFail(a, rewrite) ==
    \/ a.config.parse = "bad"
    \/ a.otel # Nil /\ ~a.otel.parse
    \/ ~IsEmpty(a.prom) /\ (ReplacePrometheusFails(a.prom, a.ta, rewrite)
                              \/ (~a.ta /\ a.prom.config = Nil))

ConfigMaps(a, rewrite) ==
    Object("ConfigMap", ConfigMapName(a.name),
           [labels |-> AgentLabels(a, ConfigMapName(a.name)),
            data |-> Over(Label(Entry.agent, ReplaceConfig(a)),
                          IF a.otel = Nil THEN <<>> ELSE Label(Entry.otel, a.otel))])
      \cup (IF IsEmpty(a.prom) THEN {}
            ELSE Object("ConfigMap", PrometheusConfigMap(a.name),
                      [labels |-> Labels(Meta(a), PrometheusConfigMap(a.name), "", AgentComponent),
                       data |-> Label(Entry.prometheus,
                                      IF a.ta THEN ReplacedPrometheus(a, rewrite)
                                              ELSE ReplacedPrometheus(a, rewrite).config)]))

----------------------------------------------------------------------------
\* All of them, or why there are none.  The lists of a pipeline are visited in the
\* order of a Go map, which decides whether they make the code panic.

BuildOutcome(a, gates, unlucky) ==
    CASE PanicsOnAutoscaler(a) \/ (PanicsOnConfig(a.config, a.otel)
                                     /\ (a.config.parse = "null" \/ unlucky)) -> "panic"
      [] OTHER ->
           IF \/ MetricsPortFails(a.config)
              \/ a.config.parse = "bad"
              \/ ConfigMapsFail(a, "rewrite" \in gates)
              \/ TABuildFails(a)
             THEN "error" ELSE "built"

Build(a, gates) ==
    (CASE a.mode = "deployment"  -> Deployment(a) \cup PodDisruptionBudget(a)
       [] a.mode = "statefulset" -> StatefulSet(a) \cup PodDisruptionBudget(a)
       [] a.mode = "daemonset"   -> DaemonSet(a)
       [] a.mode = "sidecar"     -> {})
      \cup HorizontalPodAutoscaler(a) \cup ServiceAccount(a)
      \cup Service(a) \cup HeadlessService(a) \cup MonitoringService(a) \cup Ingress(a)
      \cup (IF a.metrics /\ "prometheusOperator" \in gates THEN Monitor(a) ELSE {})
      \cup ConfigMaps(a, "rewrite" \in gates) \cup Routes(a)

BuildCollector(a, gates) == Build(a, gates) \cup TABuild(a)

Ids(built) == {o[1] : o \in built}

\* What is built by kind and name.
ById(built) == [id \in Ids(built) |-> (CHOOSE o \in built : o[1] = id)[2]]
=============================================================================
