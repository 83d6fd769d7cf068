------------------------------ MODULE Sidecar ------------------------------
(***************************************************************************)
(* The injection of a collector sidecar into a pod (pkg/sidecar): the      *)
(* first of the two mutators of the pod webhook.  A collector is an        *)
(* AmazonCloudWatchAgent; of its spec the sidecar takes the mode, the init *)
(* containers, the volumes and the environment.                            *)
(***************************************************************************)
EXTENDS PodInstrumentation

SidecarKey == <<"sidecar", "any">>

InjectedLabel == "sidecar.opentelemetry.io/injected"

existsIn(pod) == CollectorContainer \in Names(pod.containers)

\* All containers but the sidecars, in their order.
WithoutCollector(containers) ==
    Those(containers, {k \in DOMAIN containers : containers[k].name # CollectorContainer})

\* Init containers, volumes and label of the sidecar stay.
remove(pod) ==
    IF ~existsIn(pod) THEN pod ELSE [pod EXCEPT !.containers = WithoutCollector(@)]

\* Pod and, if they were found, its ReplicaSet and Deployment name the telemetry.
getResourceAttributesEnv(pod, cl) ==
    <<EnvRef(PodNameEnv), EnvRef(PodUIDEnv), EnvRef(EnvNodeName),
      Env(ResourceAttrs,
          <<"pod", "poduid", "node", "namespace">>
            \o (IF pod.owner = "replicaset" /\ cl.replicaSetFound
                  THEN <<"replicaset">> \o (IF cl.deploymentFound THEN <<"deployment">> ELSE <<>>)
                  ELSE <<>>))>>

SidecarContainerMisnamed(collector, attributes) ==
    Container(collector.name, collector.env, collector.mounts)

SidecarContainer(collector, attributes) ==
    Container(CollectorContainer,
              Append(collector.env, Env("OTEL_CONFIG", <<collector.name>>))
                \o (IF HasEnv(collector.env, ResourceAttrs) THEN <<>> ELSE attributes),
              collector.mounts)

add(collector, pod, cl) ==
    [pod EXCEPT
       !.init = @ \o collector.init,
       !.containers = Append(@, SidecarContainer(collector, getResourceAttributesEnv(pod, cl))),
       !.volumes = @ \o collector.volumes,
       !.labels = @ \cup {InjectedLabel}]

\* What an annotation other than "false" asks for: none, one or an error.
selectCollectorInstance(ns, cl) ==
    LET sidecars == {c \in cl.collectors : c.ns = ns.name /\ c.mode = "sidecar"}
    IN  Chosen(IF Cardinality(sidecars) = 1 THEN sidecars ELSE {})

getCollectorInstance(ns, value, cl) ==
    LET named == {c \in cl.collectors :
                    value \in {<<c.name>>, <<c.ns, c.name>>}
                      /\ (Len(value) = 1 => c.ns = ns.name)}
    IN  CASE value = <<"true">>                -> selectCollectorInstance(ns, cl)
          [] value # <<"true">> /\ named = {}  -> Failed
          [] OTHER -> Chosen({c \in named : c.mode = "sidecar"})

MutateSidecar(ns, pod, cl) ==
    LET value == annotationValue(ns, pod.ann, SidecarKey)
        found == getCollectorInstance(ns, value, cl)
        one   == CHOOSE c \in found.insts : TRUE
    IN  CASE value = None \/ (value # <<"false">> /\ existsIn(pod))
               -> [pod |-> pod, err |-> FALSE]
          [] value = <<"false">>
               -> [pod |-> remove(pod), err |-> FALSE]
          [] value \notin {None, <<"false">>} /\ ~existsIn(pod) /\ found.insts = {}
               -> [pod |-> pod, err |-> found.err]
          [] OTHER -> IF one.configOK
                        THEN [pod |-> add(one, pod, cl), err |-> FALSE]
                        ELSE [pod |-> pod, err |-> TRUE]
=============================================================================
