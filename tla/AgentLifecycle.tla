--------------------------- MODULE AgentLifecycle ---------------------------
(***************************************************************************)
(* One AmazonCloudWatchAgent from its submission to the objects in the     *)
(* cluster: the webhook defaults and validates what users submit, the      *)
(* operator builds the manifests of what was stored, and the API server    *)
(* accepts or rejects each of them.  How the objects are written one by    *)
(* one is the Reconciler's; here a reconciliation is one step.             *)
(***************************************************************************)
EXTENDS CollectorManifests, FiniteSets

CONSTANTS
    Submissions,    \* agents that users create
    Patches,        \* fields that users change in a stored agent
    Gates,          \* sets of feature gates the operator may be started with
    MaxOps          \* bound on changes by users and restarts

ASSUME OpsAssumption == MaxOps \in Nat

Modes == {"deployment", "statefulset", "daemonset", "sidecar"}

MgmtStates == {"managed", "unmanaged"}

Numbers == {"replicas", "min", "max", "asMax", "asMin", "asWindow", "probe", "taReplicas"}

\* How a configuration, an OpenTelemetry configuration, ports and a Prometheus section are
\* written down here.
IsConfig(c) ==
    /\ c.telemetry = Nil \/ (c.telemetry \in Seq(Int) /\ Len(c.telemetry) <= 1)
    /\ c.parse \in {"ok", "null", "bad", "mistyped"}

IsOtel(o) == o = Nil \/ o.receivers = Nil \/ o.receivers \in Seq(ToSet(o.receivers))

ArePorts(ports) == ports \in Seq(ToSet(ports))

IsPrometheus(prom) ==
    /\ DOMAIN prom = {"config", "ta", "other"}
    /\ prom.config # Nil => DOMAIN prom.config = {"scrape"}
    /\ getScrapeConfigsFromPromConfig(prom) \in Seq(STRING) \cup {Nil}

\* What the API server makes sure of by the schema, of an agent or of a part of one.
InSchema(r) ==
    /\ "mode" \in DOMAIN r => r.mode \in Modes \cup {""}
    /\ "mgmt" \in DOMAIN r => r.mgmt \in MgmtStates \cup {""}
    /\ \A f \in Numbers \cap DOMAIN r : r[f] \in Int \cup {Nil}
    /\ "configMaps" \in DOMAIN r => r.configMaps \in Seq(STRING)
    /\ "config" \in DOMAIN r => IsConfig(r.config)
    /\ "otel" \in DOMAIN r => IsOtel(r.otel)
    /\ "ports" \in DOMAIN r => ArePorts(r.ports)
    /\ "prom" \in DOMAIN r => IsPrometheus(r.prom)

Fields ==
    {"ns", "name", "mode", "mgmt", "pdb", "configMaps", "config", "otel", "ports", "prom"}
      \cup Numbers

ASSUME SubmissionsAssumption ==
    \A a \in Submissions : Fields \subseteq DOMAIN a /\ InSchema(a)

\* A change never moves an object to another namespace or name.
ASSUME PatchesAssumption ==
    \A p \in Patches : DOMAIN p \cap {"ns", "name"} = {} /\ InSchema(p)

\* Nil is no number, and not the budget that is set by default.
ASSUME NilAssumption == Nil \notin Int /\ Nil # [min |-> Nil, max |-> 1]

VARIABLES
    gates,          \* feature gates of the running operator
    stored,         \* there is an agent
    agent,          \* the agent that is stored, or Nil
    pending,        \* a request for it is in the work queue
    outcome,        \* of the last reconciliation of this agent by this operator: "none",
                    \* "built", "error" or "panic" of the builders, "rejected" by the server
    objects,        \* the objects in the cluster
    ops             \* bounded by MaxOps

vars == <<gates, stored, agent, pending, outcome, objects, ops>>

----------------------------------------------------------------------------
\* The API server.

Transport(p) == IF p.protocol = "" THEN "TCP" ELSE p.protocol

PortsClash(ports) ==
    \E p, q \in ports : p # q /\ p.port = q.port /\ Transport(p) = Transport(q)

Negative(n) == n # Nil /\ n < 0

UnknownProtocol(p) == p.protocol \notin {"", "TCP", "UDP", "SCTP"}

BadBudget(bounds) ==
    \/ bounds.min # Nil /\ bounds.max # Nil
    \/ Negative(bounds.min) \/ Negative(bounds.max)

NoProbePort(probe) == probe # Nil /\ ~IsValidPortNum(probe.port)

LongWindow(n) == n # Nil /\ n > 3600

Workloads == {"Deployment", "StatefulSet", "DaemonSet"}

\* Why the API server does not take an object.
Invalid(kind, body) ==
    CASE kind = "Service" ->
           \/ PortsClash(body.ports)
           \/ \E p \in body.ports : ~IsValidPortNum(p.port) \/ UnknownProtocol(p)
      [] kind = "HorizontalPodAutoscaler" ->
           \/ body.min < 1 \/ body.max < body.min
           \/ "value" \in ToSet(body.metrics) \/ LongWindow(body.window)
      [] kind = "PodDisruptionBudget" -> BadBudget(body.bounds)
      [] kind = "Ingress" -> \E r \in body.rules : r.host = <<"*">>
      [] kind \in Workloads ->
           \/ Negative(body.replicas)
           \/ ~IsInjective([k \in DOMAIN body.volumes |-> body.volumes[k].name])
           \/ /\ "probe" \in DOMAIN body.container
              /\ \/ NoProbePort(body.container.probe)
                 \/ body.container.probe # Nil /\ body.container.probe.period < 0
      [] OTHER -> FALSE

----------------------------------------------------------------------------

Init ==
    /\ gates \in Gates
    /\ stored = FALSE
    /\ agent = Nil
    /\ pending = FALSE
    /\ outcome = "none"
    /\ objects = <<>>
    /\ ops = 0

\* The defaulting webhook first, then the validating one.
Admit(a) ==
    LET d == defaulter(a)
    IN  IF validate(d, "rewrite" \in gates)
          THEN stored' = TRUE /\ agent' = d /\ pending' = TRUE /\ outcome' = "none"
          ELSE UNCHANGED <<stored, agent, pending, outcome>>

CreateAgent(a) ==
    /\ ops < MaxOps
    /\ ~stored
    /\ Admit(a)
    /\ ops' = ops + 1
    /\ UNCHANGED <<gates, objects>>

PatchAgent(p) ==
    /\ ops < MaxOps
    /\ stored
    /\ Admit(Over(p, agent))
    /\ ops' = ops + 1
    /\ UNCHANGED <<gates, objects>>

\* A deletion is validated as well.  The garbage collector takes what the agent owns.
DeleteAgent ==
    /\ ops < MaxOps
    /\ stored
    /\ validate(agent, "rewrite" \in gates)
    /\ stored' = FALSE
    /\ agent' = Nil
    /\ pending' = FALSE
    /\ outcome' = "none"
    /\ objects' = <<>>
    /\ ops' = ops + 1
    /\ UNCHANGED gates

\* The operator is started anew, perhaps with other gates, and sees all agents.
Restart(g) ==
    /\ ops < MaxOps
    /\ gates' = g
    /\ pending' = stored
    /\ outcome' = "none"
    /\ ops' = ops + 1
    /\ UNCHANGED <<stored, agent, objects>>

\* The kinds that are looked for when objects are pruned.
PrunedKinds == Workloads \cup {"ConfigMap", "Service", "ServiceAccount"}

\* What the API server never lets change: the selector, and the claims of a StatefulSet.
Immutable(id, desired) ==
    /\ id[1] \in Workloads
    /\ id \in DOMAIN objects
    /\ \/ objects[id].selector # desired[id].selector
       \/ id[1] = "StatefulSet" /\ objects[id].claims # desired[id].claims

\* The labels of these kinds, the labels of pods and the selectors of services are merged into
\* what is there, where a label that is no longer wanted stays.  A service keeps its traffic
\* policy.
Merged(id, want) ==
    LET old == objects[id]
    IN  CASE id \notin DOMAIN objects -> want
          [] id \in DOMAIN objects /\ id[1] \in Workloads ->
               [want EXCEPT !.labels = Over(@, old.labels), !.podLabels = Over(@, old.podLabels)]
          [] id \in DOMAIN objects /\ id[1] = "Service" ->
               [old EXCEPT !.labels = Over(want.labels, @), !.selector = Over(want.selector, @),
                           !.ports = want.ports]
          [] id \in DOMAIN objects /\ id[1] = "ConfigMap" -> [want EXCEPT !.labels = Over(@, old.labels)]
          [] id \in DOMAIN objects /\ id[1] \notin Workloads \cup {"Service", "ConfigMap"} -> want

\* Mutant: a workload that cannot be changed in place is left as it is.
ApplyInPlace(desired) ==
    LET rejected == {id \in DOMAIN desired :
                       Invalid(id[1], desired[id]) \/ Immutable(id, desired)}
        kept     == {id \in DOMAIN objects \ DOMAIN desired :
                       rejected # {} \/ id[1] \notin PrunedKinds} \cup (rejected \cap DOMAIN objects)
    IN  /\ objects' = [id \in (DOMAIN desired \ rejected) \cup kept |->
                         IF id \in kept THEN objects[id] ELSE Merged(id, desired[id])]
        /\ outcome' = IF rejected = {} THEN "built" ELSE "rejected"
        /\ pending' = (rejected # {})

\* A workload that cannot be changed in place is deleted before the API server sees the new
\* one, which brings the request back.  An object that is rejected keeps the request, and
\* nothing is pruned then.
Apply(desired) ==
    LET replaced == {id \in DOMAIN desired : Immutable(id, desired)}
        rejected == {id \in DOMAIN desired : Invalid(id[1], desired[id])} \ replaced
        written  == DOMAIN desired \ (rejected \cup replaced)
        kept     == {id \in DOMAIN objects \ DOMAIN desired :
                       rejected # {} \/ id[1] \notin PrunedKinds}
    IN  /\ objects' = [id \in written \cup kept \cup (rejected \cap DOMAIN objects) |->
                         IF id \in written THEN Merged(id, desired[id]) ELSE objects[id]]
        /\ outcome' = IF rejected = {} THEN "built" ELSE "rejected"
        /\ pending' = (rejected # {} \/ replaced # {})

\* A panic is recovered and, like an error, keeps the request.
Reconcile(unlucky) ==
    /\ pending
    /\ \/ /\ agent.mgmt = "unmanaged"
          /\ pending' = FALSE
          /\ UNCHANGED <<outcome, objects>>
       \/ /\ agent.mgmt # "unmanaged"
          /\ BuildOutcome(agent, gates, unlucky) # "built"
          /\ outcome' = BuildOutcome(agent, gates, unlucky)
          /\ UNCHANGED <<pending, objects>>
       \/ /\ agent.mgmt # "unmanaged"
          /\ BuildOutcome(agent, gates, unlucky) = "built"
          /\ \E built \in {BuildCollector(agent, gates)} :
               \E desired \in {ById(built)} : Apply(desired)
    /\ UNCHANGED <<gates, stored, agent, ops>>

Next ==
    \/ \E a \in Submissions : CreateAgent(a)
    \/ \E p \in Patches : PatchAgent(p)
    \/ DeleteAgent
    \/ \E g \in Gates : Restart(g)
    \/ \E unlucky \in BOOLEAN : Reconcile(unlucky)

\* The work queue gives every request to a worker in the end.
Fairness == WF_vars(\E unlucky \in BOOLEAN : Reconcile(unlucky))

Spec == Init /\ [][Next]_vars /\ Fairness

----------------------------------------------------------------------------
\* Properties.

\* Type invariant: the stored agent has been defaulted, the outcome is one of the five,
\* objects are there by kind and name, and the bound holds.
TypeOK ==
    /\ gates \in Gates
    /\ stored \in BOOLEAN
    /\ stored =>
         /\ agent.mode \in Modes
         /\ agent.mgmt \in MgmtStates
         /\ agent.replicas # Nil /\ agent.pdb # Nil
    /\ pending \in BOOLEAN
    /\ outcome \in {"none", "built", "error", "panic", "rejected"}
    /\ \A id \in DOMAIN objects : Len(id) = 2
    /\ ops \in 0 .. MaxOps

Settled == stored /\ ~pending /\ agent.mgmt = "managed"

\* What the webhook lets through although it cannot be built.
UnbuildableConfig(a) ==
    \/ a.config.parse \in {"bad", "null"} \/ MetricsPortFails(a.config)
    \/ a.otel # Nil /\ (~a.otel.parse \/ (a.otel.pipelines # Nil /\ {} \in a.otel.pipelines))

UnbuildablePrometheus(a) ==
    \/ ~a.ta /\ a.prom.config = Nil /\ ~IsEmpty(a.prom)
    \/ a.ta /\ getScrapeConfigsFromPromConfig(a.prom) = Nil
    \/ a.ta /\ ToSet(a.prom.config.scrape) \cap {"unnamed", "badrelabel"} # {}

UnboundedAutoscaler(a) == a.autoscaler /\ a.asMax = Nil

\* The ports beside those of the agent's own configuration.
UserPorts(a) ==
    ToSet(a.ports) \cup (IF a.otel = Nil THEN {} ELSE ToSet(ConfigToComponentPorts(a.otel)))

\* What it lets through although the API server does not take it.  The ports of the
\* agent's own configuration never clash with each other.
ClashingPorts(a) ==
    \E p \in UserPorts(a) :
       \E q \in AgentPorts(a) :
          p # q /\ p.port = q.port /\ Transport(p) = Transport(q)

Refused(a) ==
    \/ ClashingPorts(a) \/ \E p \in UserPorts(a) : UnknownProtocol(p)
    \/ ~IsValidPortNum(ConfigToMetricsPort(a.config))
    \/ Negative(a.replicas) \/ (a.ta /\ Negative(a.taReplicas))
    \/ BadBudget(a.pdb)
    \/ a.autoscaler /\ \/ "value" \in ToSet(a.asMetrics) \/ LongWindow(a.asWindow)
                       \/ Negative(a.probe)
    \/ NoProbePort(getLivenessProbe(a))
    \/ a.ingress = "nginx" /\ a.host = "*"
    \/ ~IsInjective(a.configMaps)

KnownGap(a) ==
    UnbuildableConfig(a) \/ UnbuildablePrometheus(a) \/ UnboundedAutoscaler(a) \/ Refused(a)

\* What the webhooks of collector_webhook.go have admitted is built by every builder and
\* taken by the API server, whatever it was patched from and whatever the gates: only the
\* gaps named above end in an error, a panic or a rejected object.
AdmittedIsBuilt == outcome \in {"error", "panic", "rejected"} => KnownGap(agent)

\* The objects that stand for the agent as it is now; those of other kinds may be left.
Current == Ids(BuildCollector(agent, gates))

VolumesResolve(current, w) ==
    /\ \A v \in ToSet(w.volumes) :
         v.source[1] = "ConfigMap" => /\ v.source \in current
                                      /\ v.keys \subseteq DOMAIN objects[v.source].data
    /\ ToSet(w.container.mounts) \subseteq {v.name : v \in ToSet(w.volumes)}

PodsOf(current) == {objects[id].podLabels : id \in {i \in current : i[1] \in Workloads}}

\* The allocator's service selects by all labels, and so by the version that its pods override
\* and by labels that the agent no longer has.
SelectsTooMuch(id) ==
    /\ id = <<"Service", TAService(agent.name)>>
    /\ ~(DOMAIN objects[id].selector \subseteq DOMAIN TALabels(agent, <<>>) \ {"version"})

PodsSelected(current, id) ==
    \/ agent.mode = "sidecar"
    \/ SelectsTooMuch(id)
    \/ \E labels \in PodsOf(current) : Selects(objects[id].selector, labels)

BackendResolves(current, b) ==
    \/ agent.config.parse = "mistyped"
    \/ b.service \in current /\ \E p \in objects[b.service].ports : p.name = b.port

\* What a collector is told of its allocator, and the allocator of its collectors.
AllocatorResolves(current) ==
    LET prometheus == objects[<<"ConfigMap", PrometheusConfigMap(agent.name)>>].data[Entry.prometheus]
        told       == objects[<<"ConfigMap", TAConfigMap(agent.name)>>].data["targetallocator.yaml"]
        endpoints  == IF "rewrite" \in gates
                        THEN {prometheus.ta} ELSE ToSet(prometheus.config.scrape)
    IN  /\ "rewrite" \in gates => prometheus.config.scrape = Nil
        /\ \A e \in endpoints :
             /\ <<"Service", e>> \in current
             /\ {p.target : p \in objects[<<"Service", e>>].ports}
                  \subseteq objects[<<"Deployment", TargetAllocator(agent.name)>>].container.ports
        /\ told.config = agent.prom.config
        /\ agent.mode # "sidecar" =>
             /\ \E labels \in PodsOf(current) : Selects(told.label_selector, labels)
             /\ \A labels \in PodsOf(current) : Selects(told.label_selector, labels) =>
                  labels["component"] = <<AgentComponent>>

\* What the object id refers to is there.
ObjectResolves(current, id) ==
    LET o == objects[id]
    IN  CASE id[1] \in Workloads ->
               /\ VolumesResolve(current, o)
               /\ <<"ServiceAccount", o.account>> \in current
                    \/ o.account \in {<<agent.account, "">>, <<agent.taAccount, "">>}
          [] id[1] \in {"Service", "PodDisruptionBudget"} -> PodsSelected(current, id)
          [] id[1] = "Ingress" -> \A r \in o.rules : BackendResolves(current, r.backend)
          [] id[1] = "Route" -> BackendResolves(current, o.backend)
          [] id[1] = "ServiceMonitor" ->
               \E s \in current : /\ s[1] = "Service" /\ Selects(o.selector, objects[s].labels)
                                  /\ \E p \in objects[s].ports : p.name = o.port
          [] OTHER -> TRUE

\* The objects of an agent fit together once its reconciliation is done, though each is
\* built by a function of its own from the spec: config maps have the keys that volumes
\* take, mounts have a volume, services and budgets select pods, ingress, routes and
\* monitors lead to a port of a service, accounts exist, collector and allocator find
\* each other.  The exceptions are agents of sidecar mode, whose pods are users', and the
\* two named above.
ReferencesResolve ==
    Settled => LET current == Current IN
      /\ current \subseteq DOMAIN objects
      /\ \A id \in current : ObjectResolves(current, id)
      /\ agent.ta => AllocatorResolves(current)

\* Where the agent listens for a section, by its documentation.
Listener(address, default, protocol) ==
    IF address = Unparsable
      THEN {}
      ELSE {[port |-> IF address = 0 THEN default ELSE address, protocol |-> protocol]}

AppSignals ==
    Listener(0, 4315, "TCP") \cup Listener(0, 4316, "TCP") \cup Listener(0, 4311, "TCP")

Listens(cfg, section) ==
    LET s == cfg.sections[section]
    IN  CASE section = "metrics.statsd"   -> Listener(s.address, 8125, "UDP")
          [] section = "metrics.collectd" -> Listener(s.address, 25826, "UDP")
          [] section = "metrics.jmx"      -> Listener(0, 4314, "TCP")
          [] section \in {"metrics.otlp", "logs.otlp", "traces.otlp"} ->
               Listener(s.grpc, 4317, "TCP") \cup Listener(s.http, 4318, "TCP")
          [] section = "traces.xray" ->
               Listener(s.bind, 2000, "UDP") \cup Listener(s.proxy, 2000, "TCP")
          [] section = "logs.emf" -> Listener(0, EMFPort, "TCP") \cup Listener(0, EMFPort, "UDP")
          [] section = "logs.kubernetes" -> IF s.jmx THEN Listener(0, 4314, "TCP") ELSE {}
          [] section = "logs.application_signals" -> AppSignals
          [] section = "traces.application_signals" -> AppSignals \cup Listener(0, 2000, "TCP")
          [] OTHER -> {}

\* EMF and the JMX of Container Insights are left out if another section uses their number,
\* with whichever protocol; and a port that a user adds takes the place of one of its name.
Shadowed(a, section, listener) ==
    \/ /\ section \in {"logs.emf", "logs.kubernetes"}
       /\ \E other \in DOMAIN a.config.sections \ {section} :
            \E l \in Listens(a.config, other) : l # listener /\ l.port = listener.port
    \/ \E p \in getServicePortsFromCWAgentConfig(a.config) :
         /\ p.port = listener.port /\ p.protocol = listener.protocol
         /\ \E q \in UserPorts(a) : q.name = p.name

\* Every receiver that a valid configuration of the agent turns on can be reached through
\* the agent's services, whatever other receivers, spec ports and OpenTelemetry receivers
\* use the same numbers (ports.go): nothing but what Shadowed names is dropped.
ReceiversReachable ==
    Settled /\ agent.config.parse = "ok" =>
      \A section \in DOMAIN agent.config.sections :
        \A listener \in {l \in Listens(agent.config, section) : IsValidPortNum(l.port)} :
           \/ Shadowed(agent, section, listener)
           \/ \A name \in {ServiceName(agent.name), HeadlessName(agent.name)} :
                \E p \in objects[<<"Service", name>>].ports :
                   p.port = listener.port /\ p.protocol = listener.protocol

\* The collectors are not taken down by a change of labels, image or configuration:
\* selectors, which cannot change, are built from what does not change (labels.go), so
\* that a workload only goes with its agent, its mode or its volume claims.
CollectorKept ==
    [][\A kind \in Workloads :
         LET id == <<kind, Collector(agent.name)>>
         IN  stored /\ id \in DOMAIN objects /\ id \notin DOMAIN objects' =>
               \/ ~stored'
               \/ id \notin Current
               \/ kind = "StatefulSet" /\ objects[id].claims # agent.claims]_vars

\* Every change of an agent that can be applied is applied in the end: failures of the
\* builders and of the API server last only as long as the agent has a gap.
ChangesTakeEffect == []<>(~pending \/ KnownGap(agent))
=============================================================================
