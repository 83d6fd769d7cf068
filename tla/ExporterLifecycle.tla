-------------------------- MODULE ExporterLifecycle --------------------------
(***************************************************************************)
(* The controllers of DcgmExporter and NeuronMonitor                       *)
(* (controllers/dcgmexporter_controller.go, neuronmonitor_controller.go).  *)
(* An exporter runs only while the configuration of the agent turns on     *)
(* accelerated compute metrics, yet its controller is told of changes of   *)
(* the exporter and of its objects, never of the agent's.  The controller  *)
(* of that agent is here for what the two do to each other's objects: it   *)
(* prunes by labels, and its DaemonSet bears the agent's name.  An agent   *)
(* is Nil or a record of parse, as in CollectorPorts, enhanced (Nil        *)
(* without a kubernetes section), mentioned (the flag's name is in the     *)
(* text), accelerated, managed and daemonset (its mode).                   *)
(***************************************************************************)
EXTENDS ExporterManifests, FiniteSets

CONSTANTS
    Exporters,      \* pairs of kind and name that users may create
    Specs,          \* specs that users give them
    Agents,         \* configurations that the agent may have, Nil if there is no agent
    AgentName,      \* the agent's name, amazonCloudWatchAgentName
    MaxOps          \* bound on changes by users and on failures

ASSUME ExporterOpsAssumption == MaxOps \in Nat

ASSUME ExporterKindAssumption == \A x \in Exporters : x[1] \in {"dcgm", "neuron"}

VARIABLES
    agent,          \* the agent's configuration
    exporters,      \* from the exporters to Nil or [spec, version], version being the status
    pending,        \* the exporters, and the agent, with a request in a work queue
    objects,        \* from ids to objects, each with its controller
    seen,           \* the agent as each exporter's last complete reconciliation saw it
    ops             \* bounded by MaxOps

vars == <<agent, exporters, pending, objects, seen, ops>>

AgentController == <<"agent", AgentName>>

Parties == Exporters \cup {AgentController}

Exists(x) == IF x = AgentController THEN agent # Nil ELSE exporters[x] # Nil

IdsOf(x) == IF x = AgentController THEN {DaemonSetOf(x)} ELSE ToSet(ExporterIds(x))

PanicsOn(a) == a # Nil /\ a.parse = "null"

\* A missing agent has an empty configuration, which is none.  The flag is on by default.
enabledAcceleratedComputeByAgentConfig(a) ==
    /\ a # Nil /\ a.parse = "ok"
    /\ a.enhanced = TRUE
    /\ ~a.mentioned \/ a.accelerated

Enabled(a) == enabledAcceleratedComputeByAgentConfig(a)

----------------------------------------------------------------------------

Init ==
    /\ agent \in Agents
    /\ exporters = [x \in Exporters |-> Nil]
    /\ pending = {x \in {AgentController} : Exists(x)}
    /\ objects = <<>>
    /\ seen = [x \in Exporters |-> Nil]
    /\ ops = 0

Op == ops < MaxOps /\ ops' = ops + 1

Without(ids) == [id \in DOMAIN objects \ ids |-> objects[id]]

Controllers(ids) == {objects[id].owner : id \in ids \cap DOMAIN objects}

\* The controllers of exporters do not watch agents.  The garbage collector takes the
\* DaemonSet of an agent that is deleted.
ChangeAgent(a) ==
    /\ Op
    /\ a # agent
    /\ agent' = a
    /\ objects' = IF a = Nil THEN Without({id \in DOMAIN objects : objects[id].owner = AgentController})
                            ELSE objects
    /\ pending' = pending \cup {AgentController}
    /\ UNCHANGED <<exporters, seen>>

WriteExporter(x, spec) ==
    /\ Op
    /\ exporters' = [exporters EXCEPT ![x] =
                       [spec |-> spec, version |-> Exists(x) /\ exporters[x].version]]
    /\ pending' = pending \cup {x}
    /\ UNCHANGED <<agent, objects, seen>>

\* The garbage collector takes the objects.
DeleteExporter(x) ==
    /\ Op
    /\ Exists(x)
    /\ exporters' = [exporters EXCEPT ![x] = Nil]
    /\ objects' = Without({id \in DOMAIN objects : objects[id].owner = x})
    /\ pending' = pending \cup {x}
    /\ seen' = [seen EXCEPT ![x] = Nil]
    /\ UNCHANGED agent

\* The status of a DaemonSet changes, or the cache is synchronised anew.
Resync(x) ==
    /\ Exists(x)
    /\ x \notin pending
    /\ pending' = pending \cup {x}
    /\ UNCHANGED <<agent, exporters, objects, seen, ops>>

----------------------------------------------------------------------------
\* Reconciliation.

\* Mutant: what is there wins.
MergedOldFirst(x, id, want) ==
    IF id \notin DOMAIN objects
      THEN [owner |-> x, hash |-> want.hash, labels |-> want.labels, body |-> want.body]
      ELSE [owner |-> x, hash |-> want.hash, labels |-> Over(objects[id].labels, want.labels), body |-> want.body]

\* Labels and the maps of a DaemonSet are merged into those that are there, and the
\* controller is replaced, whoever it was.  A ServiceAccount takes the new labels alone.
Merged(x, id, want) ==
    LET old == objects[id]
    IN  IF id \notin DOMAIN objects
          THEN [owner |-> x, hash |-> want.hash, labels |-> want.labels, body |-> want.body]
          ELSE [owner |-> x, hash |-> want.hash,
                labels |-> IF id[1] = "ServiceAccount" THEN want.labels ELSE Over(want.labels, old.labels),
                body |-> IF id[1] = "DaemonSet"
                           THEN [want.body EXCEPT !.podLabels = Over(@, old.body.podLabels)] ELSE want.body]

\* A DaemonSet with another selector is deleted.
Replaced(id, want) ==
    id[1] = "DaemonSet" /\ id \in DOMAIN objects /\ objects[id].body.selector # want.body.selector

\* The objects whose write succeeds.  Those that fail do not keep the others from being
\* written, except that a deletion that fails ends the reconciliation; a DaemonSet is the
\* first object.
Tried(want, failed) ==
    IF \E id \in DOMAIN want : id[1] \in failed /\ Replaced(id, want[id])
      THEN {} ELSE {id \in DOMAIN want : id[1] \notin failed}

Gone(want, failed) == {id \in Tried(want, failed) : Replaced(id, want[id])}

Written(x, want, failed) ==
    {id \in Tried(want, failed) \ Gone(want, failed) :
       id \notin DOMAIN objects \/ objects[id] # Merged(x, id, want[id])}

\* An update is an event for the controller the object had and for the one it has.
News(x, want, failed) ==
    (IF Written(x, want, failed) # {} THEN {x} ELSE {})
      \cup Controllers(Written(x, want, failed) \cup Gone(want, failed))

Apply(x, want, failed, pruned) ==
    objects' = [id \in (DOMAIN objects \ (Gone(want, failed) \cup pruned)) \cup Written(x, want, failed) |->
                  IF id \in Written(x, want, failed) THEN Merged(x, id, want[id]) ELSE objects[id]]

\* The version is set, which is an event, when all else has succeeded.
ReconcileDesired(x, want, failed) ==
    /\ Apply(x, want, failed, {})
    /\ IF failed = {}
         THEN /\ exporters' = [exporters EXCEPT ![x].version = TRUE]
              /\ pending' = (pending \ {x}) \cup News(x, want, failed)
                              \cup (IF exporters[x].version THEN {} ELSE {x})
         ELSE exporters' = exporters /\ pending' = pending \cup News(x, want, failed)

\* Mutant: nothing is taken away but the DaemonSet.
DeletedDaemonSet(x, failed) == {ExporterIds(x)[1]} \ {id \in DOMAIN objects : id[1] \in failed}

\* The objects that are deleted before the first that fails, whoever controls them.
Deleted(x, failed) ==
    {ExporterIds(x)[k] : k \in {n \in DOMAIN ExporterIds(x) :
       \A j \in 1 .. n : ExporterIds(x)[j][1] \notin failed}}

RemoveDesired(x, failed) ==
    /\ "Status" \notin failed
    /\ objects' = Without(Deleted(x, failed))
    /\ pending' = (IF failed = {} THEN pending \ {x} ELSE pending) \cup Controllers(Deleted(x, failed))
    /\ UNCHANGED exporters

\* The controller of an exporter works with the agent a it has read.  Failures are the API
\* server's; a panic is recovered and keeps the request.
ReconcileExporter(x, a, failed) ==
    /\ x \in pending
    /\ \/ /\ ~Exists(x) /\ failed = {}
          /\ pending' = pending \ {x}
          /\ UNCHANGED <<exporters, objects, seen>>
       \/ /\ Exists(x) /\ ~PanicsOn(a) /\ Enabled(a)
          /\ \E want \in BuildExporter(x, exporters[x].spec) : ReconcileDesired(x, want, failed)
          /\ seen' = IF failed = {} THEN [seen EXCEPT ![x] = a] ELSE seen
       \/ /\ Exists(x) /\ ~PanicsOn(a) /\ ~Enabled(a)
          /\ RemoveDesired(x, failed)
          /\ seen' = IF failed = {} THEN [seen EXCEPT ![x] = a] ELSE seen
    /\ UNCHANGED agent

Works(x) == ReconcileExporter(x, agent, {}) /\ UNCHANGED ops

Kinds == {"DaemonSet", "ConfigMap", "ServiceAccount", "Service"}

Fails(x, kind) == ReconcileExporter(x, agent, {kind}) /\ Op

\* The error of reading the agent is dropped: it is as if there were none.
Misreads(x) == Exists(x) /\ agent # Nil /\ ReconcileExporter(x, Nil, {}) /\ Op

\* Mutant: whatever the operator manages.
LabelledAsOperators ==
    {id \in DOMAIN objects :
       Selects([key \in {"managed-by", "part-of"} |->
                  SelectorLabelsForAllOperatorManaged(ExporterMeta(AgentController))[key]],
               objects[id].labels)}

\* What the agent's controller takes for its own.
Labelled ==
    {id \in DOMAIN objects :
       Selects(SelectorLabelsForAllOperatorManaged(ExporterMeta(AgentController)), objects[id].labels)}

AgentDesired ==
    [id \in (IF agent.daemonset THEN IdsOf(AgentController) ELSE {}) |-> AgentDaemonSet(AgentController)]

\* Nothing is pruned after a write that failed.
Pruned(failed) ==
    {id \in Labelled \ DOMAIN AgentDesired :
       id[1] \notin failed /\ \A wanted \in DOMAIN AgentDesired : wanted[1] \notin failed}

ManagedAgent == agent # Nil /\ agent.managed

\* Whether the agent's controller has something to write and to prune: a configuration
\* that is no JSON makes it fail, and the JSON null makes it panic.
Acts == ManagedAgent /\ agent.parse \in {"ok", "mistyped"}

ReconcileAgent(failed) ==
    /\ AgentController \in pending
    /\ \/ /\ ~ManagedAgent /\ failed = {}
          /\ pending' = pending \ {AgentController}
          /\ UNCHANGED objects
       \/ /\ Acts
          /\ Apply(AgentController, AgentDesired, failed, Pruned(failed))
          /\ pending' = (IF failed = {} THEN pending \ {AgentController} ELSE pending)
                          \cup News(AgentController, AgentDesired, failed) \cup Controllers(Pruned(failed))
    /\ UNCHANGED <<agent, exporters, seen>>

AgentWorks == ReconcileAgent({}) /\ UNCHANGED ops

AgentFails(kind) == ReconcileAgent({kind}) /\ Op

Next ==
    \/ \E a \in Agents : ChangeAgent(a)
    \/ \E x \in Exporters, s \in Specs : WriteExporter(x, s)
    \/ \E x \in Exporters : DeleteExporter(x) \/ Works(x) \/ Misreads(x)
    \/ \E x \in Exporters, kind \in Kinds \cup {"Status"} : Fails(x, kind)
    \/ \E x \in Parties : Resync(x)
    \/ AgentWorks
    \/ \E kind \in Kinds : AgentFails(kind)

\* The work queues hand out every request, and caches are synchronised from time to time.
Fairness ==
    /\ \A x \in Exporters : WF_vars(Works(x))
    /\ WF_vars(AgentWorks)
    /\ \A x \in Parties : WF_vars(Resync(x))

Spec == Init /\ [][Next]_vars /\ Fairness

----------------------------------------------------------------------------
\* Properties.

\* Type invariant: exporters are absent or have a spec, requests are for the agent and for
\* exporters that users may create, every object is one of its controller's, whose labels
\* it carries, and the bound holds.
TypeOK ==
    /\ agent \in Agents
    /\ exporters \in [Exporters -> {Nil} \cup [spec : Specs, version : BOOLEAN]]
    /\ seen \in [Exporters -> {Nil} \cup Agents]
    /\ pending \subseteq Parties
    /\ \A id \in DOMAIN objects : /\ objects[id].owner \in Parties
                                  /\ id \in IdsOf(objects[id].owner)
                                  /\ Selects(SelectorLabels(ExporterMeta(objects[id].owner),
                                                            Component(objects[id].owner[1])),
                                             objects[id].labels)
    /\ ops \in 0 .. MaxOps

Has(x, id, want) ==
    /\ id \in DOMAIN objects
    /\ objects[id] = Merged(x, id, want[id])

\* The exporter runs as its spec says, or not at all, as the agent's configuration a says.
RunsAs(x, a, ids) ==
    IF Enabled(a)
      THEN \E want \in BuildExporter(x, exporters[x].spec) : \A id \in ids : Has(x, id, want)
      ELSE \A id \in DOMAIN objects : objects[id].owner # x

\* Of the other kinds, and the agent if it has the name.
Namesakes(x) == {y \in Parties \ {x} : y[2] = x[2]}

\* The namesakes that write a DaemonSet of their own.
Rivals(x) ==
    {y \in Namesakes(x) : IF y = AgentController THEN Acts /\ agent.daemonset ELSE Exists(y)}

\* A DaemonSet that had the selector of a namesake of another kind: it has been deleted to
\* be created by the next reconciliation, but the request is the namesake's.
Deposed(x) ==
    {id \in {DaemonSetOf(x)} : /\ Namesakes(x) # {}
                              /\ id \in DOMAIN objects => objects[id].owner # x}

\* Two controllers that write or prune the same object, for its name is fixed or theirs
\* are the same.
Contested(x) ==
    \E y \in Parties \ {x} : /\ IF y = AgentController THEN Acts ELSE Exists(y)
                             /\ IdsOf(x) \cap IdsOf(y) # {}

\* What an exporter has is stale only if the agent's configuration has changed, or could
\* not be read, when it was last reconciled: whatever else disturbs its objects, another
\* exporter that takes one over, the agent's controller that prunes or replaces one, a
\* write that fails, a panic, brings or keeps a request.  The one exception is named above.
StaleOnlyIfAgentChanged ==
    \A x \in Exporters : Exists(x) /\ x \notin pending =>
                          RunsAs(x, seen[x], IdsOf(x) \ Deposed(x))

\* What an exporter or the agent wants is only lost to a namesake of another kind: the
\* agent's controller prunes by labels that name the agent, and a DaemonSet that is in
\* the way of another is deleted.  An exporter can lose its objects, too, when it, or one
\* of its kind that shares them, cannot read the agent.
LostOnlyToNamesake ==
    [][\A id \in DOMAIN objects \ DOMAIN objects' : \A x \in Controllers({id}) :
         \/ ~Exists(x)'
         \/ IF x = AgentController THEN ~agent.daemonset
              ELSE ~Enabled(agent) \/ \E y \in Exporters : id \in IdsOf(y) /\ Misreads(y)
         \/ \E y \in Namesakes(x) : IF y = AgentController THEN Acts ELSE Exists(y)]_vars

\* In the end exporters follow the agent's configuration, though nothing tells their
\* controllers of it: the next event or synchronisation does.  Exporters of one kind take
\* their common objects from each other for ever, and an agent that is no DaemonSet prunes
\* those of its namesake for ever, yet each has its turn; a rival for the DaemonSet may
\* keep it from being there at all.
EventuallyFollows ==
    \A x \in Exporters :
       []<>(\/ ~Exists(x) \/ PanicsOn(agent) \/ Rivals(x) # {}
            \/ RunsAs(x, agent, IdsOf(x)))

\* Arguments that have no order, as two or more of a NeuronMonitor.
Unordered(x) == x[1] = "neuron" /\ Exists(x) /\ Cardinality(exporters[x].spec.args) > 1

\* Controllers come to rest: once nobody changes anything, nothing is written any more,
\* unless controllers contend for an object or arguments come in the order of a Go map.
\* Those of dcgm-exporter are sorted so that they do not.
EventuallyStable ==
    \/ []<>(\E x \in Exporters : (Exists(x) /\ Contested(x)) \/ Unordered(x))
    \/ <>[][objects' = objects]_vars
=============================================================================
