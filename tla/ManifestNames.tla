--------------------------- MODULE ManifestNames ---------------------------
(***************************************************************************)
(* Names and labels of the objects the operator builds (internal/naming,   *)
(* internal/manifests/manifestutils).  A name is the pair of what it is    *)
(* derived from and a suffix; names too long for Kubernetes, which Truncate*)
(* and DNSName shorten, are left out.  A label value is a tuple of strings,*)
(* <<namespace, name>> for the instance a custom resource is.  main.go     *)
(* configures no label filters.                                            *)
(***************************************************************************)
EXTENDS Naturals, Sequences, TLC

CONSTANT Nil    \* an absent value

Collector(agent)           == <<agent, "">>
ConfigMapName(agent)       == <<agent, "">>
ServiceName(agent)         == <<agent, "">>
ServiceAccountOf(agent)    == <<agent, "">>
HeadlessName(agent)        == <<agent, "headless">>
MonitoringName(agent)      == <<agent, "monitoring">>
IngressName(agent)         == <<agent, "ingress">>
RouteName(agent, port)     == <<agent, port>>
PrometheusConfigMap(agent) == <<agent, "prometheus-config">>
TargetAllocator(agent)     == <<agent, "target-allocator">>
TAConfigMap(agent)         == <<agent, "target-allocator">>
TAService(agent)           == <<agent, "target-allocator-service">>

TargetAllocatorServicePort   == 80
TargetAllocatorContainerPort == 8443

Operator == <<"amazon-cloudwatch-agent-operator">>

SelectorLabelsForAllOperatorManaged(meta) ==
    [key \in {"managed-by", "instance", "part-of"} |->
        CASE key = "managed-by" -> Operator
          [] key = "instance"   -> <<meta.ns, meta.name>>
          [] key = "part-of"    -> <<"amazon-cloudwatch-agent">>]

SelectorLabels(meta, component) ==
    [key \in {"managed-by", "instance", "part-of", "component"} |->
        IF key = "component" THEN <<component>> ELSE SelectorLabelsForAllOperatorManaged(meta)[key]]

\* The version is what follows the colon of the image, "latest" without one; an object
\* without an image has no version.
VersionLabel(image) == IF image = "untagged" THEN <<"latest">> ELSE <<image>>

\* The labels of the custom resource, overridden by the operator's, its own name apart.
Labels(meta, name, image, component) ==
    LET selector == SelectorLabels(meta, component)
        version  == IF image = "" THEN {} ELSE {"version"}
    IN  [key \in {"name"} \cup DOMAIN meta.labels \cup DOMAIN selector \cup version |->
           CASE key \in version             -> VersionLabel(image)
             [] key \in DOMAIN selector     -> selector[key]
             [] OTHER -> IF key \in DOMAIN meta.labels THEN meta.labels[key] ELSE name]

\* What new has, and what old has besides (merging into a map that is there).
Over(new, old) ==
    [key \in DOMAIN new \cup DOMAIN old |-> IF key \in DOMAIN new THEN new[key] ELSE old[key]]

Label(key, value) == [k \in {key} |-> value]

Selects(selector, labels) ==
    \A key \in DOMAIN selector : key \in DOMAIN labels /\ labels[key] = selector[key]
=============================================================================
