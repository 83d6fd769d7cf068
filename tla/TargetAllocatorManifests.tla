---------------------- MODULE TargetAllocatorManifests ----------------------
(***************************************************************************)
(* The objects of an agent's target allocator                              *)
(* (internal/manifests/targetallocator).  What a builder returns is a set  *)
(* of objects, pairs of <<kind, name>> and what the properties tell apart; *)
(* a volume is its name, the object it shows and the keys it takes from it.*)
(***************************************************************************)
EXTENDS AgentWebhook

Meta(a) == [ns |-> a.ns, name |-> a.name, labels |-> a.labels]

Object(kind, name, body) == {<<<<kind, name>>, body>>}

Volume(name, source, keys) == [name |-> name, source |-> source, keys |-> keys]

AgentComponent == "amazon-cloudwatch-agent"

TAComponent == "amazon-cloudwatch-agent-target-allocator"

TALabels(a, name) ==
    Over(SelectorLabels(Meta(a), TAComponent), Over(a.labels, Label("name", name)))

TAVersion(a) ==
    Label("version", IF a.taImage \in {"", "untagged"} THEN <<"latest">> ELSE <<a.taImage>>)

\* The labels of every object, the service's selector apart.
VersionedTALabels(a, name) == Over(TAVersion(a), TALabels(a, name))

TAServiceAccountName(a) ==
    IF a.taAccount = "" THEN <<"target-allocator", "service-acct">> ELSE <<a.taAccount, "">>

TAVolumes(a) ==
    <<Volume(<<"ta-internal", "">>, <<"ConfigMap", TAConfigMap(a.name)>>, {"targetallocator.yaml"}),
      Volume(<<"ta-client", "">>, <<"Secret", <<"ta-client-cert", "">>>>, {"ca.crt"}),
      Volume(<<"ta-secret", "">>, <<"Secret", <<"cert", "">>>>, {"tls.crt", "tls.key"})>>

TAContainer(a) ==
    [mounts |-> <<<<"ta-internal", "">>, <<"ta-client", "">>, <<"ta-secret", "">>>>,
     ports  |-> {TargetAllocatorContainerPort},
     args   |-> IF a.taCR THEN {"--enable-prometheus-cr-watcher"} ELSE {}]

\* Mutant: the allocator looks for itself.
TAConfigMapDataItself(a) ==
    [label_selector |-> SelectorLabels(Meta(a), TAComponent),
     config |-> a.prom.config,
     filter |-> a.taFilter]

\* Where the allocator looks for collectors and what it discovers.
TAConfigMapData(a) ==
    [label_selector |-> SelectorLabels(Meta(a), AgentComponent),
     config |-> a.prom.config,
     filter |-> a.taFilter]

TAConfigMapObject(a) ==
    Object("ConfigMap", TAConfigMap(a.name),
           [labels |-> VersionedTALabels(a, TAConfigMap(a.name)),
            data |-> Label("targetallocator.yaml", TAConfigMapData(a))])

\* The selector is all the labels; the pods carry a hash of their configuration.
TADeployment(a) ==
    LET labels == VersionedTALabels(a, TargetAllocator(a.name))
    IN  Object("Deployment", TargetAllocator(a.name),
               [labels |-> labels, selector |-> labels, podLabels |-> labels,
                hash |-> TAConfigMapData(a), replicas |-> a.taReplicas,
                account |-> TAServiceAccountName(a), volumes |-> TAVolumes(a),
                container |-> TAContainer(a)])

TAServiceAccount(a) ==
    Object("ServiceAccount", <<"target-allocator", "service-acct">>,
           [labels |-> VersionedTALabels(a, <<"target-allocator", "service-acct">>)])

TAServiceObject(a) ==
    Object("Service", TAService(a.name),
           [labels |-> VersionedTALabels(a, TAService(a.name)),
            selector |-> TALabels(a, TargetAllocator(a.name)),
            ports |-> {[name |-> <<"", "targetallocation", 0>>,
                        port |-> TargetAllocatorServicePort, protocol |-> "",
                        target |-> TargetAllocatorContainerPort]}])

TABuildFails(a) == a.ta /\ GetPromConfigFails(a.prom)

TABuild(a) ==
    IF a.ta
      THEN TAConfigMapObject(a) \cup TADeployment(a) \cup TAServiceAccount(a) \cup TAServiceObject(a)
      ELSE {}
=============================================================================
