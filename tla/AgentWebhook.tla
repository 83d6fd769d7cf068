---------------------------- MODULE AgentWebhook ----------------------------
(***************************************************************************)
(* The webhook that defaults and validates an AmazonCloudWatchAgent        *)
(* (apis/v1alpha1/collector_webhook.go).  An agent is a record: ns, name   *)
(* and labels; of its spec mode, mgmt, image, account, replicas, the       *)
(* deprecated min and max, the autoscaler (autoscaler, asMax, asMin, asCPU,*)
(* asMemory, asWindow, asMetrics), pdb, ingress, rule, host, termination,  *)
(* ports, claims, podSettings (those a sidecar may not have), probe (the   *)
(* period of the liveness probe), updateStrategy, deploymentStrategy,      *)
(* configMaps, metrics, config, otel, prom and the target allocator (ta,   *)
(* taReplicas, taCR, taImage, taAccount, taFilter).  What is handed on to  *)
(* the pods as it is, such as resources and environment, is left out.      *)
(***************************************************************************)
EXTENDS CollectorPorts, PrometheusConfig

Orelse(value, default) == IF value = Nil THEN default ELSE value

Unless(value, empty, default) == IF value = empty THEN default ELSE value

\* Mutant: no budget.
defaulterNoBudget(a) == [a EXCEPT !.mode = Unless(@, "", "deployment"), !.replicas = Orelse(@, 1),
                                  !.mgmt = Unless(@, "", "managed")]

\* The mode, the bounds of the autoscaler and the rest that an agent leaves open.  The
\* deprecated fields are copied once: where the autoscaler has a bound it stays.
defaulter(a) ==
    LET replicas == Orelse(a.replicas, 1)
        scales   == a.max # Nil \/ (a.autoscaler /\ a.asMax # Nil)
    IN  [a EXCEPT
           !.mode        = Unless(@, "", "deployment"),
           !.labels      = IF "managed-by" \in DOMAIN @ THEN @ ELSE Over(Label("managed-by", Operator), @),
           !.replicas    = replicas,
           !.taReplicas  = IF a.ta THEN Orelse(@, 1) ELSE @,
           !.autoscaler  = @ \/ scales,
           !.asMax       = IF scales THEN Orelse(@, a.max) ELSE @,
           !.asMin       = IF scales THEN Orelse(@, Orelse(a.min, replicas)) ELSE @,
           !.asCPU       = IF scales /\ a.asMemory = Nil THEN Orelse(@, 90) ELSE @,
           !.pdb         = Orelse(@, [min |-> Nil, max |-> 1]),
           !.termination = IF a.ingress = "route" THEN Unless(@, "", "edge") ELSE @,
           !.rule        = IF a.ingress = "nginx" THEN Unless(@, "", "path") ELSE @,
           !.mgmt        = Unless(@, "", "managed")]

\* A metric is "average", "value" or another kind; each accepted one has a target.
checkAutoscalerSpec(a) ==
    /\ a.asWindow # Nil => a.asWindow >= 1
    /\ \A target \in {a.asCPU, a.asMemory} \ {Nil} : target \in 1 .. 99
    /\ \A k \in DOMAIN a.asMetrics : a.asMetrics[k] \in {"average", "value"}

maxReplicas(a) == IF a.autoscaler THEN Orelse(a.asMax, a.max) ELSE a.max

minReplicas(a) ==
    LET deprecated == Orelse(a.min, a.replicas)
    IN  IF a.autoscaler THEN Orelse(a.asMin, deprecated) ELSE deprecated

\* Mutant: the bounds are not compared with each other.
validateReplicasApart(a) ==
    LET max == maxReplicas(a)
    IN  max # Nil => max >= 1 /\ (minReplicas(a) # Nil => minReplicas(a) >= 1)

validateReplicas(a) ==
    LET max == maxReplicas(a)
        min == minReplicas(a)
    IN  max # Nil =>
          /\ max >= 1
          /\ a.replicas # Nil => a.replicas <= max
          /\ min # Nil => min <= max /\ min >= 1

\* A valid autoscaler ends the validation: what follows it is not looked at.
validate(a, rewrite) ==
    /\ a.claims => a.mode = "statefulset"
    /\ a.mode = "sidecar" => a.podSettings = {}
    /\ a.ta => /\ ValidatePromConfig(a.prom, a.ta, rewrite)
               /\ ValidateTargetAllocatorConfig(a.taCR, a.prom)
    /\ \A k \in DOMAIN a.ports : IsValidPortName(a.ports[k].name) /\ IsValidPortNum(a.ports[k].port)
    /\ ~(a.ingress = "nginx" /\ a.mode = "sidecar")
    /\ validateReplicas(a)
    /\ IF maxReplicas(a) # Nil /\ a.autoscaler
         THEN checkAutoscalerSpec(a)
         ELSE /\ a.rule = "subdomain" => a.host \notin {"", "*"}
              /\ a.probe # Nil => a.probe >= 1
              /\ a.updateStrategy => a.mode = "daemonset"
              /\ a.deploymentStrategy => a.mode = "deployment"
=============================================================================
