---------------------------- MODULE ExporterProofs ----------------------------
(***************************************************************************)
(* Proofs about the controllers of DcgmExporter and NeuronMonitor and what *)
(* the agent's does to their objects, for any set of exporters, specs and  *)
(* configurations of the agent.                                            *)
(***************************************************************************)
EXTENDS ExporterLifecycle, TLAPS

\* The labels by which the DaemonSet of an exporter, or of the agent, selects its pods.
SelectorOf(x) == SelectorLabels(ExporterMeta(x), Component(x[1]))

\* The DaemonSets that are there select with the labels of their controller, as a selector
\* is never changed: one that differs is deleted.
SelectorsKept ==
    \A id \in DOMAIN objects :
       id[1] = "DaemonSet" => objects[id].body.selector = SelectorOf(objects[id].owner)

ExporterInv == TypeOK /\ SelectorsKept

----------------------------------------------------------------------------
\* What is built.

\* The agent is no exporter.
LEMMA NotAgent ==
    ASSUME NEW x \in Exporters
    PROVE  /\ x # AgentController
           /\ IdsOf(x) = ToSet(ExporterIds(x))
           /\ Exists(x) <=> exporters[x] # Nil
           /\ Exists(x)' <=> exporters'[x] # Nil
<1>1. x[1] \in {"dcgm", "neuron"} /\ AgentController[1] = "agent"
  BY ExporterKindAssumption DEF AgentController
<1>2. x # AgentController
  BY <1>1
<1> QED BY <1>2 DEF IdsOf, Exists

\* The four objects of an exporter.
LEMMA IdsOfExporter ==
    ASSUME NEW x
    PROVE  ToSet(ExporterIds(x)) =
             {DaemonSetOf(x), <<"ConfigMap", ConfigMapOf(x)>>,
              <<"ServiceAccount", AccountOf(x)>>, <<"Service", ExporterServiceOf(x)>>}
<1> DEFINE ids == ExporterIds(x)
<1>1. DOMAIN ids = {1, 2, 3, 4}
  BY DEF ExporterIds
<1>2. ToSet(ids) = {ids[1], ids[2], ids[3], ids[4]}
  BY <1>1 DEF ToSet
<1> QED BY <1>2 DEF ExporterIds

\* A DaemonSet bears the name of its exporter, or of the agent.
LEMMA DaemonSetName ==
    ASSUME NEW x, NEW id \in IdsOf(x), id[1] = "DaemonSet"
    PROVE  id = DaemonSetOf(x)
<1>1. \/ id = DaemonSetOf(x)
      \/ id = <<"ConfigMap", ConfigMapOf(x)>>
      \/ id = <<"ServiceAccount", AccountOf(x)>>
      \/ id = <<"Service", ExporterServiceOf(x)>>
  <2>1. CASE x = AgentController
    BY <2>1 DEF IdsOf
  <2>2. CASE x # AgentController
    <3>1. id \in ToSet(ExporterIds(x))
      BY <2>2 DEF IdsOf
    <3> QED BY <3>1, IdsOfExporter, Zenon
  <2> QED BY <2>1, <2>2
<1>2. CASE id = <<"ConfigMap", ConfigMapOf(x)>>
  BY <1>2
<1>3. CASE id = <<"ServiceAccount", AccountOf(x)>>
  BY <1>3
<1>4. CASE id = <<"Service", ExporterServiceOf(x)>>
  BY <1>4
<1> QED BY <1>1, <1>2, <1>3, <1>4

\* Parties with the same DaemonSet are namesakes.
LEMMA SameDaemonSet ==
    ASSUME NEW x, NEW y, NEW id, id[1] = "DaemonSet", id \in IdsOf(x), id \in IdsOf(y)
    PROVE  x[2] = y[2]
<1>1. ASSUME NEW z, id \in IdsOf(z) PROVE id[2][1] = z[2]
  <2> DEFINE name == <<z[2], "">>
  <2>1. id = <<"DaemonSet", name>>
    BY <1>1, DaemonSetName DEF DaemonSetOf
  <2>2. name[1] = z[2]
    OBVIOUS
  <2> HIDE DEF name
  <2>3. id[2] = name
    BY <2>1
  <2> QED BY <2>2, <2>3
<1> QED BY <1>1

\* An object of an exporter is of one of four kinds.
LEMMA KindsOfIds ==
    ASSUME NEW x, NEW id \in ToSet(ExporterIds(x))
    PROVE  id[1] \in {"DaemonSet", "ConfigMap", "ServiceAccount", "Service"}
<1>1. \/ id = DaemonSetOf(x)
      \/ id = <<"ConfigMap", ConfigMapOf(x)>>
      \/ id = <<"ServiceAccount", AccountOf(x)>>
      \/ id = <<"Service", ExporterServiceOf(x)>>
  BY IdsOfExporter, Zenon
<1>2. CASE id = DaemonSetOf(x)
  BY <1>2 DEF DaemonSetOf
<1>3. CASE id = <<"ConfigMap", ConfigMapOf(x)>>
  BY <1>3
<1>4. CASE id = <<"ServiceAccount", AccountOf(x)>>
  BY <1>4
<1>5. CASE id = <<"Service", ExporterServiceOf(x)>>
  BY <1>5
<1> QED BY <1>1, <1>2, <1>3, <1>4, <1>5

\* The labels of every object built for an exporter satisfy the exporter's selector.
LEMMA ExporterLabelsSelected ==
    ASSUME NEW x, NEW spec, NEW name
    PROVE  Selects(SelectorOf(x), ExporterLabels(x, spec, name))
BY DEF Selects, SelectorOf, ExporterLabels, Labels, SelectorLabels, ExporterMeta

LEMMA OverSelected ==
    ASSUME NEW sel, NEW new, NEW old, Selects(sel, new)
    PROVE  Selects(sel, Over(new, old))
BY DEF Selects, Over

LEMMA OverOthersSelected ==
    ASSUME NEW sel, NEW new, NEW old, Selects(sel, old), DOMAIN sel \cap DOMAIN new = {}
    PROVE  Selects(sel, Over(new, old))
BY DEF Selects, Over

\* What is wanted for x: objects of x, with its labels and its selector.
WantOK(x, want) ==
    \A id \in DOMAIN want :
       /\ id \in IdsOf(x)
       /\ Selects(SelectorOf(x), want[id].labels)
       /\ id[1] = "DaemonSet" => /\ "selector" \in DOMAIN want[id].body
                                 /\ want[id].body.selector = SelectorOf(x)

LEMMA BuiltFacts ==
    ASSUME NEW x, NEW spec, NEW want \in BuildExporter(x, spec)
    PROVE  /\ DOMAIN want = ToSet(ExporterIds(x))
           /\ \A id \in DOMAIN want :
                /\ Selects(SelectorOf(x), want[id].labels)
                /\ id[1] = "DaemonSet" => /\ "selector" \in DOMAIN want[id].body
                                          /\ want[id].body.selector = SelectorOf(x)
<1>1. PICK args \in ContainerArgs(x, spec) :
        want = [id \in ToSet(ExporterIds(x)) |->
                  CASE id[1] = "DaemonSet"      -> ExporterDaemonSet(x, spec, args)
                    [] id[1] = "ConfigMap"      -> ExporterConfigMap(x, spec)
                    [] id[1] = "ServiceAccount" -> ExporterServiceAccount(x, spec)
                    [] id[1] = "Service"        -> ExporterService(x, spec)]
  BY DEF BuildExporter
<1>2. DOMAIN want = ToSet(ExporterIds(x))
  BY <1>1
<1>3. ASSUME NEW id \in DOMAIN want
      PROVE  /\ Selects(SelectorOf(x), want[id].labels)
             /\ id[1] = "DaemonSet" => /\ "selector" \in DOMAIN want[id].body
                                       /\ want[id].body.selector = SelectorOf(x)
  <2>1. CASE id[1] = "DaemonSet"
    <3>1. want[id] = ExporterDaemonSet(x, spec, args)
      BY <1>1, <1>2, <2>1
    <3> DEFINE d == ExporterDaemonSet(x, spec, args)
    <3>2. d.labels = ExporterLabels(x, spec, <<x[2], "">>)
      BY DEF ExporterDaemonSet
    <3>3. "selector" \in DOMAIN d.body /\ d.body.selector = SelectorOf(x)
      BY DEF ExporterDaemonSet, SelectorOf
    <3> HIDE DEF d
    <3> QED BY <3>1, <3>2, <3>3, ExporterLabelsSelected DEF d
  <2>2. CASE id[1] = "ConfigMap"
    <3>1. want[id] = ExporterConfigMap(x, spec)
      BY <1>1, <1>2, <2>2
    <3> QED BY <3>1, <2>2, ExporterLabelsSelected DEF ExporterConfigMap
  <2>3. CASE id[1] = "ServiceAccount"
    <3>1. want[id] = ExporterServiceAccount(x, spec)
      BY <1>1, <1>2, <2>3
    <3> QED BY <3>1, <2>3, ExporterLabelsSelected DEF ExporterServiceAccount
  <2>4. CASE id[1] = "Service"
    <3>1. want[id] = ExporterService(x, spec)
      BY <1>1, <1>2, <2>4
    <3> DEFINE app == [key \in {"k8s-app"} |-> <<Component(x[1]), "service">>]
    <3>2. ExporterService(x, spec).labels = Over(app, ExporterLabels(x, spec, <<x[2], "">>))
      BY DEF ExporterService
    <3>3. DOMAIN SelectorOf(x) \cap DOMAIN app = {}
      BY DEF SelectorOf, SelectorLabels
    <3> HIDE DEF app
    <3> QED BY <3>1, <3>2, <3>3, <2>4, ExporterLabelsSelected, OverOthersSelected
  <2> QED BY <1>2, <2>1, <2>2, <2>3, <2>4, KindsOfIds
<1> QED BY <1>2, <1>3

LEMMA BuiltOK ==
    ASSUME NEW x \in Exporters, NEW spec, NEW want \in BuildExporter(x, spec)
    PROVE  WantOK(x, want)
BY BuiltFacts, NotAgent DEF WantOK

\* So is the agent's DaemonSet.
LEMMA AgentDesiredOK == WantOK(AgentController, AgentDesired)
<1> DEFINE x == AgentController
           d == AgentDaemonSet(x)
<1>1. \A id \in DOMAIN AgentDesired : id \in IdsOf(x) /\ AgentDesired[id] = d
  BY DEF AgentDesired
<1>2. d.labels = Labels(ExporterMeta(x), <<x[2], "">>, "agent", Component(x[1]))
  BY DEF AgentDaemonSet
<1>3. "selector" \in DOMAIN d.body /\ d.body.selector = SelectorOf(x)
  BY DEF AgentDaemonSet, SelectorOf
<1>4. Selects(SelectorOf(x), d.labels)
  BY <1>2 DEF Selects, SelectorOf, Labels, SelectorLabels, ExporterMeta
<1> HIDE DEF x, d
<1> QED BY <1>1, <1>3, <1>4 DEF WantOK, x

LEMMA MergedFacts ==
    ASSUME NEW x, NEW id, NEW w, Selects(SelectorOf(x), w.labels),
           id[1] = "DaemonSet" => "selector" \in DOMAIN w.body /\ w.body.selector = SelectorOf(x)
    PROVE  /\ Merged(x, id, w).owner = x
           /\ Selects(SelectorOf(x), Merged(x, id, w).labels)
           /\ id[1] = "DaemonSet" => Merged(x, id, w).body.selector = SelectorOf(x)
<1>1. CASE id \notin DOMAIN objects
  BY <1>1 DEF Merged
<1>2. CASE id \in DOMAIN objects
  <2> DEFINE b == [w.body EXCEPT !.podLabels = Over(@, objects[id].body.podLabels)]
             m == [owner |-> x, hash |-> w.hash,
                   labels |-> IF id[1] = "ServiceAccount" THEN w.labels
                              ELSE Over(w.labels, objects[id].labels),
                   body |-> IF id[1] = "DaemonSet" THEN b ELSE w.body]
  <2>1. Merged(x, id, w) = m
    BY <1>2 DEF Merged
  <2>2. Selects(SelectorOf(x), m.labels)
    BY OverSelected
  <2>3. id[1] = "DaemonSet" => b.selector = w.body.selector
    OBVIOUS
  <2> QED BY <2>1, <2>2, <2>3
<1> QED BY <1>1, <1>2

----------------------------------------------------------------------------
\* What a step does to the objects.

\* Everything that the invariant says of an object.
ObjectOK(id, o) ==
    /\ o.owner \in Parties
    /\ id \in IdsOf(o.owner)
    /\ Selects(SelectorOf(o.owner), o.labels)
    /\ id[1] = "DaemonSet" => o.body.selector = SelectorOf(o.owner)

ObjectsOK == \A id \in DOMAIN objects : ObjectOK(id, objects[id])

\* The rest of the type invariant.
OthersOK ==
    /\ agent \in Agents
    /\ exporters \in [Exporters -> {Nil} \cup [spec : Specs, version : BOOLEAN]]
    /\ seen \in [Exporters -> {Nil} \cup Agents]
    /\ pending \subseteq Parties
    /\ ops \in 0 .. MaxOps

LEMMA InvParts == ExporterInv <=> OthersOK /\ ObjectsOK
BY DEF ExporterInv, TypeOK, SelectorsKept, OthersOK, ObjectsOK, ObjectOK, SelectorOf

LEMMA InvPartsNext == ExporterInv' <=> OthersOK' /\ ObjectsOK'
BY DEF ExporterInv, TypeOK, SelectorsKept, OthersOK, ObjectsOK, ObjectOK, SelectorOf

\* What is written and what goes.
LEMMA ApplyParts ==
    ASSUME NEW x, NEW want, NEW failed, NEW pruned, Apply(x, want, failed, pruned)
    PROVE  /\ DOMAIN objects' = (DOMAIN objects \ (Gone(want, failed) \cup pruned)) \cup Written(x, want, failed)
           /\ \A id \in DOMAIN objects' :
                objects'[id] = IF id \in Written(x, want, failed) THEN Merged(x, id, want[id]) ELSE objects[id]
BY DEF Apply

\* Reconciliation, with its parts named.
LEMMA DesiredParts ==
    ASSUME NEW x, NEW want, NEW failed, ReconcileDesired(x, want, failed)
    PROVE  /\ DOMAIN objects' = (DOMAIN objects \ Gone(want, failed)) \cup Written(x, want, failed)
           /\ \A id \in DOMAIN objects' :
                objects'[id] = IF id \in Written(x, want, failed) THEN Merged(x, id, want[id]) ELSE objects[id]
           /\ failed = {} => /\ exporters' = [exporters EXCEPT ![x].version = TRUE]
                             /\ pending' = (pending \ {x}) \cup News(x, want, failed)
                                             \cup (IF exporters[x].version THEN {} ELSE {x})
           /\ failed # {} => exporters' = exporters /\ pending' = pending \cup News(x, want, failed)
<1>1. Apply(x, want, failed, {}) /\ Gone(want, failed) \cup {} = Gone(want, failed)
  BY DEF ReconcileDesired
<1>2. /\ DOMAIN objects' = (DOMAIN objects \ Gone(want, failed)) \cup Written(x, want, failed)
      /\ \A id \in DOMAIN objects' :
           objects'[id] = IF id \in Written(x, want, failed) THEN Merged(x, id, want[id]) ELSE objects[id]
  BY <1>1 DEF Apply
<1> QED BY <1>2 DEF ReconcileDesired

\* The controller of an object that is there is among the controllers of a set with it.
LEMMA ControllersHas ==
    ASSUME NEW ids, NEW id \in ids, id \in DOMAIN objects
    PROVE  objects[id].owner \in Controllers(ids)
BY DEF Controllers

LEMMA ControllersTyped ==
    ASSUME ObjectsOK, NEW ids
    PROVE  Controllers(ids) \subseteq Parties
BY DEF Controllers, ObjectsOK, ObjectOK

LEMMA WrittenOK ==
    ASSUME NEW x \in Parties, NEW want, WantOK(x, want), NEW id \in DOMAIN want
    PROVE  ObjectOK(id, Merged(x, id, want[id])) /\ Merged(x, id, want[id]).owner = x
<1>1. /\ id \in IdsOf(x)
      /\ Selects(SelectorOf(x), want[id].labels)
      /\ id[1] = "DaemonSet" => "selector" \in DOMAIN want[id].body /\ want[id].body.selector = SelectorOf(x)
  BY DEF WantOK
<1>2. /\ Merged(x, id, want[id]).owner = x
      /\ Selects(SelectorOf(x), Merged(x, id, want[id]).labels)
      /\ id[1] = "DaemonSet" => Merged(x, id, want[id]).body.selector = SelectorOf(x)
  BY <1>1, MergedFacts
<1> QED BY <1>1, <1>2 DEF ObjectOK

\* Only wanted objects are written or replaced.
LEMMA WrittenWanted ==
    ASSUME NEW x, NEW want, NEW failed
    PROVE  Written(x, want, failed) \subseteq DOMAIN want /\ Gone(want, failed) \subseteq DOMAIN want
BY DEF Written, Gone, Tried

\* What a reconciliation leaves is what was there or its own, and so are its news.
LEMMA AppliedOK ==
    ASSUME ObjectsOK, NEW x \in Parties, NEW want, WantOK(x, want), NEW failed, NEW pruned,
           Apply(x, want, failed, pruned)
    PROVE  ObjectsOK' /\ News(x, want, failed) \subseteq Parties
<1> DEFINE written == Written(x, want, failed)
<1>1. \A id \in DOMAIN objects' :
        /\ id \in written \/ id \in DOMAIN objects
        /\ objects'[id] = IF id \in written THEN Merged(x, id, want[id]) ELSE objects[id]
  BY DEF Apply
<1>2. \A id \in written : ObjectOK(id, Merged(x, id, want[id]))
  BY WrittenOK, WrittenWanted
<1>3. News(x, want, failed) \subseteq Parties
  BY ControllersTyped DEF News
<1> HIDE DEF written
<1>4. \A id \in DOMAIN objects' : ObjectOK(id, objects'[id])
  BY <1>1, <1>2 DEF ObjectsOK
<1> QED BY <1>3, <1>4 DEF ObjectsOK, ObjectOK

\* All the objects of an exporter are deleted if nothing fails.
LEMMA AllDeleted ==
    ASSUME NEW x
    PROVE  Deleted(x, {}) = ToSet(ExporterIds(x))
BY DEF Deleted, ToSet

\* Objects are only taken away: the others are as they were.
LEMMA WithoutKeeps ==
    ASSUME ObjectsOK, NEW ids, objects' = Without(ids)
    PROVE  /\ ObjectsOK'
           /\ \A id \in DOMAIN objects \ ids : id \in DOMAIN objects' /\ objects'[id] = objects[id]
           /\ \A id \in DOMAIN objects' : id \in DOMAIN objects \ ids /\ objects'[id] = objects[id]
<1>1. \A id \in DOMAIN objects' : id \in DOMAIN objects \ ids /\ objects'[id] = objects[id]
  BY DEF Without
<1>2. \A id \in DOMAIN objects \ ids : id \in DOMAIN objects' /\ objects'[id] = objects[id]
  BY DEF Without
<1>3. ObjectsOK'
  BY <1>1 DEF ObjectsOK, ObjectOK
<1> QED BY <1>1, <1>2, <1>3

----------------------------------------------------------------------------
\* The type invariant.

LEMMA ExporterInit == Init => ExporterInv
<1> SUFFICES ASSUME Init PROVE OthersOK /\ ObjectsOK
  BY InvParts
<1>1. OthersOK
  BY ExporterOpsAssumption DEF Init, OthersOK, Parties
<1>2. ObjectsOK
  BY DEF Init, ObjectsOK
<1> QED BY <1>1, <1>2

LEMMA OpTyped ==
    ASSUME OthersOK, Op
    PROVE  (ops \in 0 .. MaxOps)'
BY ExporterOpsAssumption DEF OthersOK, Op

\* A reconciliation that writes keeps the types.
LEMMA DesiredTyped ==
    ASSUME OthersOK, ObjectsOK, NEW x \in Exporters, x \in pending, Exists(x), NEW failed,
           NEW want \in BuildExporter(x, exporters[x].spec), ReconcileDesired(x, want, failed)
    PROVE  /\ ObjectsOK'
           /\ exporters' \in [Exporters -> {Nil} \cup [spec : Specs, version : BOOLEAN]]
           /\ pending' \subseteq Parties
<1> DEFINE news == News(x, want, failed)
<1>1. /\ failed = {} => /\ exporters' = [exporters EXCEPT ![x].version = TRUE]
                        /\ pending' = (pending \ {x}) \cup news
                                        \cup (IF exporters[x].version THEN {} ELSE {x})
      /\ failed # {} => exporters' = exporters /\ pending' = pending \cup news
  BY DesiredParts
<1>2. WantOK(x, want) /\ x \in Parties /\ Apply(x, want, failed, {})
  BY BuiltOK DEF Parties, ReconcileDesired
<1>3. ObjectsOK' /\ news \subseteq Parties
  BY <1>2, AppliedOK
<1>4. exporters[x] \in [spec : Specs, version : BOOLEAN]
  BY NotAgent DEF OthersOK
<1> HIDE DEF news
<1>7. exporters' \in [Exporters -> {Nil} \cup [spec : Specs, version : BOOLEAN]]
  <2>1. CASE failed # {}
    BY <1>1, <2>1 DEF OthersOK
  <2>2. CASE failed = {}
    <3>1. [exporters[x] EXCEPT !.version = TRUE] \in [spec : Specs, version : BOOLEAN]
      BY <1>4
    <3> QED BY <1>1, <2>2, <3>1 DEF OthersOK
  <2> QED BY <2>1, <2>2
<1>8. pending' \subseteq Parties
  <2>1. CASE failed # {}
    BY <1>1, <1>3, <2>1 DEF OthersOK
  <2>2. CASE failed = {}
    BY <1>1, <1>2, <1>3, <2>2 DEF OthersOK
  <2> QED BY <2>1, <2>2
<1> QED BY <1>3, <1>7, <1>8

LEMMA ReconcileTyped ==
    ASSUME OthersOK, ObjectsOK, NEW x \in Exporters, NEW a \in {Nil, agent}, NEW failed,
           ReconcileExporter(x, a, failed)
    PROVE  /\ ObjectsOK'
           /\ (agent \in Agents)'
           /\ (exporters \in [Exporters -> {Nil} \cup [spec : Specs, version : BOOLEAN]])'
           /\ (seen \in [Exporters -> {Nil} \cup Agents])'
           /\ (pending \subseteq Parties)'
<1>1. agent' = agent /\ x \in pending
  BY DEF ReconcileExporter
<1>2. CASE ~Exists(x) /\ pending' = pending \ {x} /\ UNCHANGED <<exporters, objects, seen>>
  BY <1>1, <1>2 DEF OthersOK, ObjectsOK, ObjectOK
<1> DEFINE seeing == seen' = IF failed = {} THEN [seen EXCEPT ![x] = a] ELSE seen
<1>3. ASSUME seeing PROVE (seen \in [Exporters -> {Nil} \cup Agents])'
  BY <1>3 DEF OthersOK
<1>4. CASE /\ Exists(x) /\ seeing
           /\ \E want \in BuildExporter(x, exporters[x].spec) : ReconcileDesired(x, want, failed)
  BY <1>1, <1>3, <1>4, DesiredTyped DEF OthersOK
<1>5. CASE Exists(x) /\ seeing /\ RemoveDesired(x, failed)
  <2>1. objects' = Without(Deleted(x, failed)) /\ exporters' = exporters
    BY <1>5 DEF RemoveDesired
  <2>2. ObjectsOK'
    BY <2>1, WithoutKeeps
  <2>3. (pending \subseteq Parties)'
    BY <1>5, ControllersTyped DEF RemoveDesired, OthersOK
  <2> QED BY <1>1, <1>3, <1>5, <2>1, <2>2, <2>3 DEF OthersOK
<1> QED BY <1>2, <1>4, <1>5 DEF ReconcileExporter

LEMMA AgentTyped ==
    ASSUME OthersOK, ObjectsOK, NEW failed, ReconcileAgent(failed)
    PROVE  ObjectsOK' /\ pending' \subseteq Parties /\ UNCHANGED <<agent, exporters, seen>>
<1>1. CASE UNCHANGED objects /\ pending' = pending \ {AgentController}
  BY <1>1 DEF ReconcileAgent, OthersOK, ObjectsOK, ObjectOK
<1>2. CASE /\ Apply(AgentController, AgentDesired, failed, Pruned(failed))
           /\ pending' = (IF failed = {} THEN pending \ {AgentController} ELSE pending)
                           \cup News(AgentController, AgentDesired, failed) \cup Controllers(Pruned(failed))
  <2>1. ObjectsOK' /\ News(AgentController, AgentDesired, failed) \subseteq Parties
    BY <1>2, AgentDesiredOK, AppliedOK DEF Parties
  <2>2. Controllers(Pruned(failed)) \subseteq Parties
    BY ControllersTyped
  <2> QED BY <1>2, <2>1, <2>2 DEF ReconcileAgent, OthersOK
<1> QED BY <1>1, <1>2 DEF ReconcileAgent

LEMMA ExporterStep == ExporterInv /\ [Next]_vars => ExporterInv'
<1> SUFFICES ASSUME OthersOK, ObjectsOK, [Next]_vars PROVE OthersOK' /\ ObjectsOK'
  BY InvParts, InvPartsNext
<1>1. CASE UNCHANGED vars
  BY <1>1 DEF vars, OthersOK, ObjectsOK, ObjectOK
<1>2. ASSUME NEW a \in Agents, ChangeAgent(a) PROVE OthersOK' /\ ObjectsOK'
  <2>1. ObjectsOK'
    <3>1. CASE a = Nil
      BY <1>2, <3>1, WithoutKeeps DEF ChangeAgent
    <3>2. CASE a # Nil
      BY <1>2, <3>2 DEF ChangeAgent, ObjectsOK, ObjectOK
    <3> QED BY <3>1, <3>2
  <2> QED BY <1>2, <2>1, OpTyped DEF ChangeAgent, OthersOK, Parties
<1>3. ASSUME NEW x \in Exporters, NEW s \in Specs, WriteExporter(x, s) PROVE OthersOK' /\ ObjectsOK'
  <2>1. (Exists(x) /\ exporters[x].version) \in BOOLEAN
    OBVIOUS
  <2>2. exporters' \in [Exporters -> {Nil} \cup [spec : Specs, version : BOOLEAN]]
    BY <1>3, <2>1 DEF WriteExporter, OthersOK
  <2> QED BY <1>3, <2>2, OpTyped DEF WriteExporter, OthersOK, ObjectsOK, ObjectOK, Parties
<1>4. ASSUME NEW x \in Exporters, DeleteExporter(x) PROVE OthersOK' /\ ObjectsOK'
  <2>1. ObjectsOK'
    BY <1>4, WithoutKeeps DEF DeleteExporter
  <2> QED BY <1>4, <2>1, OpTyped DEF DeleteExporter, OthersOK, Parties
<1>5. ASSUME NEW x \in Parties, Resync(x) PROVE OthersOK' /\ ObjectsOK'
  BY <1>5 DEF Resync, OthersOK, ObjectsOK, ObjectOK
<1>6. ASSUME NEW x \in Exporters, Works(x) PROVE OthersOK' /\ ObjectsOK'
  BY <1>6, ReconcileTyped DEF Works, OthersOK
<1>7. ASSUME NEW x \in Exporters, Misreads(x) PROVE OthersOK' /\ ObjectsOK'
  BY <1>7, ReconcileTyped, OpTyped DEF Misreads, OthersOK
<1>8. ASSUME NEW x \in Exporters, NEW kind, Fails(x, kind) PROVE OthersOK' /\ ObjectsOK'
  BY <1>8, ReconcileTyped, OpTyped DEF Fails, OthersOK
<1>9. ASSUME AgentWorks PROVE OthersOK' /\ ObjectsOK'
  BY <1>9, AgentTyped DEF AgentWorks, OthersOK
<1>10. ASSUME NEW kind, AgentFails(kind) PROVE OthersOK' /\ ObjectsOK'
  BY <1>10, AgentTyped, OpTyped DEF AgentFails, OthersOK
<1> QED BY <1>1, <1>2, <1>3, <1>4, <1>5, <1>6, <1>7, <1>8, <1>9, <1>10 DEF Next

\* The invariant with the selectors of the DaemonSets.
LEMMA ExporterInvariant == Spec => []ExporterInv
BY ExporterInit, ExporterStep, PTL DEF Spec

\* Type correctness of the exporters' controllers (dcgmexporter_controller.go,
\* neuronmonitor_controller.go): every object that is there is one of its controller's and
\* carries its labels, whichever exporters and the agent's controller compete for it.
THEOREM ExporterTypeCorrect == Spec => []TypeOK
<1>1. ExporterInv => TypeOK
  BY DEF ExporterInv
<1> QED BY <1>1, ExporterInvariant, PTL

----------------------------------------------------------------------------
\* Stale objects.

\* The objects that x controls are the same before and after.
Undisturbed(x) ==
    /\ \A id \in DOMAIN objects :
         objects[id].owner = x => id \in DOMAIN objects' /\ objects'[id] = objects[id]
    /\ \A id \in DOMAIN objects' :
         objects'[id].owner = x => id \in DOMAIN objects /\ objects'[id] = objects[id]

Fresh(x) == RunsAs(x, seen[x], IdsOf(x) \ Deposed(x))

\* What an exporter controls is its own, before as after.
LEMMA HasOwner ==
    ASSUME NEW x \in Exporters, NEW spec, NEW want \in BuildExporter(x, spec),
           NEW id \in ToSet(ExporterIds(x)), Has(x, id, want)
    PROVE  id \in DOMAIN objects /\ objects[id].owner = x
<1>1. id \in DOMAIN want
  BY BuiltFacts
<1>2. x \in Parties /\ WantOK(x, want)
  BY BuiltOK DEF Parties
<1> QED BY <1>1, <1>2, WrittenOK DEF Has

\* Having what is wanted depends on the object alone.
LEMMA HasKept ==
    ASSUME NEW x, NEW want, NEW id, Has(x, id, want), id \in DOMAIN objects', objects'[id] = objects[id]
    PROVE  Has(x, id, want)'
<1>1. objects[id] = Merged(x, id, want[id])
  BY DEF Has
<1>2. Merged(x, id, want[id])' = Merged(x, id, want[id])
  BY DEF Has, Merged
<1> QED BY <1>1, <1>2 DEF Has

LEMMA UndisturbedFresh ==
    ASSUME NEW x \in Exporters, Fresh(x), Undisturbed(x),
           exporters'[x] = exporters[x], seen'[x] = seen[x]
    PROVE  Fresh(x)'
<1> DEFINE ids == ToSet(ExporterIds(x))
<1>0. IdsOf(x) = ids
  BY NotAgent
<1>1. CASE Enabled(seen[x])
  <2>1. PICK want \in BuildExporter(x, exporters[x].spec) : \A id \in ids \ Deposed(x) : Has(x, id, want)
    BY <1>0, <1>1 DEF Fresh, RunsAs
  <2>2. ASSUME NEW id \in ids, id \notin Deposed(x)' PROVE Has(x, id, want)'
    <3>1. CASE id \in Deposed(x)
      BY <2>2, <3>1 DEF Deposed, Undisturbed, Namesakes
    <3>2. CASE id \notin Deposed(x)
      <4>1. Has(x, id, want)
        BY <2>1, <3>2
      <4>2. id \in DOMAIN objects /\ objects[id].owner = x
        BY <4>1, HasOwner
      <4>3. id \in DOMAIN objects' /\ objects'[id] = objects[id]
        BY <4>2 DEF Undisturbed
      <4> QED BY <4>1, <4>3, HasKept
    <3> QED BY <3>1, <3>2
  <2>3. want \in BuildExporter(x, exporters'[x].spec)
    OBVIOUS
  <2> QED BY <1>0, <1>1, <2>2, <2>3 DEF Fresh, RunsAs
<1>2. CASE ~Enabled(seen[x])
  BY <1>2 DEF Fresh, RunsAs, Undisturbed
<1> QED BY <1>1, <1>2

\* Who gets no news of what another writes, replaces or prunes is undisturbed.
LEMMA AppliedByOther ==
    ASSUME ObjectsOK, NEW x, NEW y \in Parties, x # y, NEW want, WantOK(y, want), NEW failed, NEW pruned,
           Apply(y, want, failed, pruned), x \notin News(y, want, failed), x \notin Controllers(pruned)
    PROVE  Undisturbed(x)
<1> DEFINE written == Written(y, want, failed)
           gone    == Gone(want, failed)
<1>1. /\ DOMAIN objects' = (DOMAIN objects \ (gone \cup pruned)) \cup written
      /\ \A id \in DOMAIN objects' :
           objects'[id] = IF id \in written THEN Merged(y, id, want[id]) ELSE objects[id]
  BY ApplyParts
<1>2. x \notin Controllers(written \cup gone)
  BY DEF News
<1>3. \A id \in written : Merged(y, id, want[id]).owner = y
  BY WrittenOK, WrittenWanted
<1> HIDE DEF written, gone
<1>4. \A id \in DOMAIN objects : objects[id].owner = x => id \notin written \cup gone \cup pruned
  BY <1>2, ControllersHas
<1> QED BY <1>1, <1>3, <1>4 DEF Undisturbed

\* An exporter without a request after a step of others had none before and is undisturbed.
LEMMA DesiredByOther ==
    ASSUME OthersOK, ObjectsOK, NEW x \in Exporters, NEW y \in Exporters, NEW failed,
           NEW want \in BuildExporter(y, exporters[y].spec), ReconcileDesired(y, want, failed),
           x # y, x \notin pending'
    PROVE  x \notin pending /\ Undisturbed(x) /\ exporters'[x] = exporters[x]
<1>1. /\ failed = {} => /\ exporters' = [exporters EXCEPT ![y].version = TRUE]
                        /\ pending' = (pending \ {y}) \cup News(y, want, failed)
                                        \cup (IF exporters[y].version THEN {} ELSE {y})
      /\ failed # {} => exporters' = exporters /\ pending' = pending \cup News(y, want, failed)
  BY DesiredParts
<1>2. x \notin pending /\ x \notin News(y, want, failed)
  BY <1>1
<1>3. WantOK(y, want) /\ y \in Parties /\ Apply(y, want, failed, {}) /\ x \notin Controllers({})
  BY BuiltOK DEF Parties, ReconcileDesired, Controllers
<1>4. Undisturbed(x)
  BY <1>2, <1>3, AppliedByOther
<1>5. exporters'[x] = exporters[x]
  BY <1>1 DEF OthersOK
<1> QED BY <1>2, <1>4, <1>5

\* Objects that are taken away with requests for their controllers.
LEMMA TakenByOther ==
    ASSUME ObjectsOK, NEW x, NEW ids, objects' = Without(ids),
           x \notin Controllers(ids)
    PROVE  Undisturbed(x)
<1>1. \A id \in DOMAIN objects : objects[id].owner = x => id \notin ids
  BY ControllersHas
<1> QED BY <1>1, WithoutKeeps DEF Undisturbed

\* A reconciliation that leaves the exporter without a request leaves it as it should be.
LEMMA DesiredFresh ==
    ASSUME OthersOK, ObjectsOK, NEW x \in Exporters, x \in pending, Exists(x), NEW a, Enabled(a), NEW failed,
           NEW want \in BuildExporter(x, exporters[x].spec), ReconcileDesired(x, want, failed),
           failed = {} => seen'[x] = a, x \notin pending'
    PROVE  Fresh(x)'
<1> DEFINE written == Written(x, want, failed)
           gone    == Gone(want, failed)
           ids     == ToSet(ExporterIds(x))
<1>1. /\ DOMAIN objects' = (DOMAIN objects \ gone) \cup written
      /\ \A id \in DOMAIN objects' :
           objects'[id] = IF id \in written THEN Merged(x, id, want[id]) ELSE objects[id]
      /\ failed = {} => /\ exporters' = [exporters EXCEPT ![x].version = TRUE]
                        /\ pending' = (pending \ {x}) \cup News(x, want, failed)
                                        \cup (IF exporters[x].version THEN {} ELSE {x})
      /\ failed # {} => exporters' = exporters /\ pending' = pending \cup News(x, want, failed)
  BY DesiredParts
<1>0. failed = {}
  BY <1>1
<1>2. written = {} /\ x \notin Controllers(gone)
  <2>1. x \notin News(x, want, failed)
    BY <1>0, <1>1
  <2> QED BY <2>1 DEF News, Controllers
<1>3. DOMAIN want = ids /\ Tried(want, failed) = ids /\ IdsOf(x) = ids
  BY <1>0, BuiltFacts, NotAgent DEF Tried
<1>4. exporters'[x].spec = exporters[x].spec
  <2>1. exporters[x] \in [spec : Specs, version : BOOLEAN]
    BY NotAgent DEF OthersOK
  <2> QED BY <1>0, <1>1, <2>1 DEF OthersOK
<1>5. ASSUME NEW id \in ids, id \in gone PROVE id \in Deposed(x)'
  <2>1. id[1] = "DaemonSet" /\ id \in DOMAIN objects
    BY <1>5 DEF Gone, Replaced
  <2>2. PICK o \in Parties : o = objects[id].owner /\ id \in IdsOf(o)
    BY <2>1 DEF ObjectsOK, ObjectOK
  <2>3. o # x
    BY <1>2, <1>5, <2>1, <2>2, ControllersHas
  <2>4. id = DaemonSetOf(x)
    BY <1>3, <2>1, DaemonSetName
  <2>5. o[2] = x[2]
    BY <1>3, <2>1, <2>2, SameDaemonSet
  <2>6. id \notin DOMAIN objects'
    BY <1>1, <1>2, <1>5
  <2> QED BY <2>2, <2>3, <2>4, <2>5, <2>6 DEF Deposed, Namesakes
<1>6. ASSUME NEW id \in ids, id \notin gone PROVE Has(x, id, want)'
  <2>1. Has(x, id, want)
    BY <1>2, <1>3, <1>6 DEF Written, Has
  <2>2. id \in DOMAIN objects' /\ objects'[id] = objects[id]
    BY <1>1, <1>2, <1>6, <2>1 DEF Has
  <2> QED BY <2>1, <2>2, HasKept
<1> HIDE DEF written, gone
<1>7. want \in BuildExporter(x, exporters'[x].spec)
  BY <1>4
<1> QED BY <1>0, <1>3, <1>5, <1>6, <1>7 DEF Fresh, RunsAs

\* So does one that takes everything away.
LEMMA RemovedFresh ==
    ASSUME OthersOK, ObjectsOK, NEW x \in Exporters, NEW a, ~Enabled(a), RemoveDesired(x, {}),
           seen'[x] = a
    PROVE  Fresh(x)'
<1>1. objects' = Without(ToSet(ExporterIds(x)))
  BY AllDeleted DEF RemoveDesired
<1>2. \A id \in DOMAIN objects' : objects'[id].owner # x
  BY <1>1, WithoutKeeps, NotAgent DEF ObjectsOK, ObjectOK
<1> QED BY <1>2 DEF Fresh, RunsAs

LEMMA ReconcileFresh ==
    ASSUME OthersOK, ObjectsOK, NEW x \in Exporters, NEW y \in Exporters, NEW a, NEW failed,
           ReconcileExporter(y, a, failed), Exists(x)', x \notin pending',
           Exists(x) /\ x \notin pending => Fresh(x)
    PROVE  Fresh(x)'
<1>1. y \in pending
  BY DEF ReconcileExporter
<1>2. CASE ~Exists(y) /\ pending' = pending \ {y} /\ UNCHANGED <<exporters, objects, seen>>
  <2>1. Exists(x) /\ x \notin pending
    BY <1>2, NotAgent
  <2>2. Undisturbed(x) /\ exporters'[x] = exporters[x] /\ seen'[x] = seen[x]
    BY <1>2 DEF Undisturbed
  <2> QED BY <2>1, <2>2, UndisturbedFresh
<1> DEFINE seeing == seen' = IF failed = {} THEN [seen EXCEPT ![y] = a] ELSE seen
<1>3. ASSUME NEW want \in BuildExporter(y, exporters[y].spec), ReconcileDesired(y, want, failed),
             Exists(y), Enabled(a), seeing
      PROVE  Fresh(x)'
  <2>1. CASE x = y
    <3>1. failed = {} => seen'[x] = a
      BY <1>3, <2>1 DEF OthersOK
    <3> QED BY <1>1, <1>3, <2>1, <3>1, DesiredFresh
  <2>2. CASE x # y
    <3>1. x \notin pending /\ Undisturbed(x) /\ exporters'[x] = exporters[x]
      BY <1>3, <2>2, DesiredByOther
    <3>2. seen'[x] = seen[x]
      BY <1>3, <2>2 DEF OthersOK
    <3> QED BY <3>1, <3>2, UndisturbedFresh, NotAgent
  <2> QED BY <2>1, <2>2
<1>4. CASE RemoveDesired(y, failed) /\ ~Enabled(a) /\ seeing
  <2>1. /\ objects' = Without(Deleted(y, failed)) /\ exporters' = exporters
        /\ pending' = (IF failed = {} THEN pending \ {y} ELSE pending) \cup Controllers(Deleted(y, failed))
    BY <1>4 DEF RemoveDesired
  <2>2. CASE x = y
    <3>1. failed = {}
      BY <1>1, <2>1, <2>2
    <3>2. seen'[x] = a
      BY <1>4, <2>2, <3>1 DEF OthersOK
    <3> QED BY <1>4, <2>2, <3>1, <3>2, RemovedFresh
  <2>3. CASE x # y
    <3>1. x \notin pending /\ x \notin Controllers(Deleted(y, failed))
      BY <2>1, <2>3
    <3>2. Undisturbed(x)
      BY <2>1, <3>1, TakenByOther
    <3>3. seen'[x] = seen[x] /\ exporters'[x] = exporters[x]
      BY <1>4, <2>1, <2>3 DEF OthersOK
    <3> QED BY <3>1, <3>2, <3>3, UndisturbedFresh, NotAgent
  <2> QED BY <2>2, <2>3
<1> QED BY <1>2, <1>3, <1>4 DEF ReconcileExporter

\* A step that leaves x without a request and does not reconcile it.
LEMMA StaleStep ==
    ExporterInv /\ StaleOnlyIfAgentChanged /\ [Next]_vars => StaleOnlyIfAgentChanged'
<1> SUFFICES ASSUME OthersOK, ObjectsOK, StaleOnlyIfAgentChanged, [Next]_vars,
                    NEW x \in Exporters, Exists(x)', x \notin pending'
             PROVE  Fresh(x)'
  BY InvParts DEF StaleOnlyIfAgentChanged, Fresh
<1>0. Exists(x) /\ x \notin pending => Fresh(x)
  BY DEF StaleOnlyIfAgentChanged, Fresh
<1>a. ASSUME x \notin pending, Undisturbed(x), exporters'[x] = exporters[x], seen'[x] = seen[x]
      PROVE  Fresh(x)'
  BY <1>0, <1>a, UndisturbedFresh, NotAgent
<1>1. CASE UNCHANGED vars
  BY <1>1, <1>a DEF vars, Undisturbed
<1>2. ASSUME NEW a \in Agents, ChangeAgent(a) PROVE Fresh(x)'
  <2>1. Undisturbed(x)
    <3>1. CASE a = Nil
      BY <1>2, <3>1, TakenByOther, NotAgent DEF ChangeAgent, Controllers
    <3>2. CASE a # Nil
      BY <1>2, <3>2 DEF ChangeAgent, Undisturbed
    <3> QED BY <3>1, <3>2
  <2> QED BY <1>2, <2>1, <1>a DEF ChangeAgent
<1>3. ASSUME NEW y \in Exporters, NEW s \in Specs, WriteExporter(y, s) PROVE Fresh(x)'
  <2>1. x # y /\ x \notin pending
    BY <1>3 DEF WriteExporter
  <2> QED BY <1>3, <2>1, <1>a DEF WriteExporter, Undisturbed, OthersOK
<1>4. ASSUME NEW y \in Exporters, DeleteExporter(y) PROVE Fresh(x)'
  <2> DEFINE found == {id \in DOMAIN objects : objects[id].owner = y}
  <2>1. x # y /\ x \notin pending
    BY <1>4 DEF DeleteExporter
  <2>2. Undisturbed(x)
    BY <1>4, <2>1, TakenByOther DEF DeleteExporter, Controllers
  <2> QED BY <1>4, <2>1, <2>2, <1>a DEF DeleteExporter, OthersOK
<1>5. ASSUME NEW y \in Parties, Resync(y) PROVE Fresh(x)'
  BY <1>5, <1>a DEF Resync, Undisturbed
<1>6. ASSUME NEW y \in Exporters, Works(y) PROVE Fresh(x)'
  BY <1>0, <1>6, ReconcileFresh DEF Works
<1>7. ASSUME NEW y \in Exporters, Misreads(y) PROVE Fresh(x)'
  BY <1>0, <1>7, ReconcileFresh DEF Misreads
<1>8. ASSUME NEW y \in Exporters, NEW kind, Fails(y, kind) PROVE Fresh(x)'
  BY <1>0, <1>8, ReconcileFresh DEF Fails
<1>9. ASSUME NEW failed, ReconcileAgent(failed) PROVE Fresh(x)'
  <2>1. x # AgentController
    BY NotAgent
  <2>2. x \notin pending /\ Undisturbed(x)
    <3>1. CASE UNCHANGED objects /\ pending' = pending \ {AgentController}
      BY <2>1, <3>1 DEF Undisturbed
    <3>2. CASE /\ Apply(AgentController, AgentDesired, failed, Pruned(failed))
               /\ pending' = (IF failed = {} THEN pending \ {AgentController} ELSE pending)
                               \cup News(AgentController, AgentDesired, failed) \cup Controllers(Pruned(failed))
      BY <2>1, <3>2, AgentDesiredOK, AppliedByOther DEF Parties
    <3> QED BY <1>9, <3>1, <3>2 DEF ReconcileAgent
  <2> QED BY <1>9, <2>2, <1>a DEF ReconcileAgent
<1> QED BY <1>1, <1>2, <1>3, <1>4, <1>5, <1>6, <1>7, <1>8, <1>9 DEF Next, AgentWorks, AgentFails

\* What an exporter has is stale only if the agent's configuration has changed since its
\* last reconciliation or could not be read then (Reconcile of both controllers, Owns(...)
\* of SetupWithManager): nothing that other exporters or the agent's controller, with its
\* own DaemonSet and its prune, do to its objects goes without a request.
THEOREM StaleOnlyByAgent == Spec => []StaleOnlyIfAgentChanged
<1>1. Init => StaleOnlyIfAgentChanged
  BY NotAgent DEF Init, StaleOnlyIfAgentChanged
<1> QED BY <1>1, ExporterInvariant, StaleStep, PTL DEF Spec

----------------------------------------------------------------------------
\* Lost objects.

\* An object that the agent's controller finds by its labels is of one named as the agent.
LEMMA PrunedNamed ==
    ASSUME NEW x, NEW labels, Selects(SelectorOf(x), labels),
           Selects(SelectorLabelsForAllOperatorManaged(ExporterMeta(AgentController)), labels)
    PROVE  x[2] = AgentName
<1>1. labels["instance"] = <<ExporterNamespace, x[2]>>
  BY DEF Selects, SelectorOf, SelectorLabels, SelectorLabelsForAllOperatorManaged, ExporterMeta
<1>2. labels["instance"] = <<ExporterNamespace, AgentName>>
  BY DEF Selects, SelectorLabelsForAllOperatorManaged, ExporterMeta, AgentController
<1> QED BY <1>1, <1>2

LostStep ==
    \A id \in DOMAIN objects \ DOMAIN objects' : \A x \in Controllers({id}) :
       \/ ~Exists(x)'
       \/ IF x = AgentController THEN ~agent.daemonset
            ELSE ~Enabled(agent) \/ \E y \in Exporters : id \in IdsOf(y) /\ Misreads(y)
       \/ \E y \in Namesakes(x) : IF y = AgentController THEN Acts ELSE Exists(y)

\* An object that is replaced is lost to a namesake.
LEMMA ReplacedByNamesake ==
    ASSUME ObjectsOK, NEW y \in Parties, NEW want, WantOK(y, want), NEW failed,
           NEW id \in DOMAIN objects, id \in Gone(want, failed)
    PROVE  y \in Namesakes(objects[id].owner)
<1> DEFINE x == objects[id].owner
<1>1. id \in DOMAIN want /\ id[1] = "DaemonSet" /\ objects[id].body.selector # want[id].body.selector
  BY DEF Gone, Tried, Replaced
<1>2. id \in IdsOf(y) /\ want[id].body.selector = SelectorOf(y)
  BY <1>1 DEF WantOK
<1>3. id \in IdsOf(x) /\ objects[id].body.selector = SelectorOf(x)
  BY <1>1 DEF ObjectsOK, ObjectOK
<1>4. y # x /\ y[2] = x[2]
  BY <1>1, <1>2, <1>3, SameDaemonSet
<1> QED BY <1>4 DEF Namesakes

\* An exporter takes its own objects away, with whoever controls them: one of its kind, or
\* a namesake of another.
LEMMA SharedIds ==
    ASSUME NEW y \in Exporters, NEW x \in Parties, NEW id \in IdsOf(y), id \in IdsOf(x), x = AgentController
    PROVE  y \in Namesakes(x)
<1>1. id[1] = "DaemonSet"
  <2>1. id = DaemonSetOf(x)
    BY DEF IdsOf
  <2> QED BY <2>1 DEF DaemonSetOf
<1>2. y[2] = x[2]
  BY <1>1, SameDaemonSet
<1> QED BY <1>2, NotAgent DEF Namesakes, Parties

LEMMA DeletedIds ==
    ASSUME NEW x \in Exporters, NEW failed
    PROVE  Deleted(x, failed) \subseteq IdsOf(x)
<1>1. Deleted(x, failed) \subseteq ToSet(ExporterIds(x))
  BY DEF Deleted, ToSet
<1> QED BY <1>1, NotAgent

LEMMA ReconcileLoses ==
    ASSUME OthersOK, ObjectsOK, NEW y \in Exporters, NEW a, NEW failed, ReconcileExporter(y, a, failed),
           a = agent \/ Misreads(y)
    PROVE  LostStep
<1> SUFFICES ASSUME NEW id \in DOMAIN objects, id \notin DOMAIN objects',
                    NEW x, x = objects[id].owner
             PROVE  \/ IF x = AgentController THEN ~agent.daemonset
                         ELSE ~Enabled(agent) \/ \E z \in Exporters : id \in IdsOf(z) /\ Misreads(z)
                    \/ \E z \in Namesakes(x) : IF z = AgentController THEN Acts ELSE Exists(z)
  BY DEF LostStep, Controllers
<1>0. objects' # objects
  OBVIOUS
<1>1. x \in Parties /\ id \in IdsOf(x)
  BY DEF ObjectsOK, ObjectOK
<1>2. ASSUME NEW want \in BuildExporter(y, exporters[y].spec), ReconcileDesired(y, want, failed), Exists(y)
      PROVE  \E z \in Namesakes(x) : IF z = AgentController THEN Acts ELSE Exists(z)
  <2>1. id \in Gone(want, failed)
    <3>1. DOMAIN objects' = (DOMAIN objects \ Gone(want, failed)) \cup Written(y, want, failed)
      BY <1>2, DesiredParts
    <3> QED BY <3>1
  <2>2. y \in Parties /\ WantOK(y, want)
    BY BuiltOK DEF Parties
  <2>3. y \in Namesakes(x)
    BY <2>1, <2>2, ReplacedByNamesake
  <2> QED BY <1>2, <2>3, NotAgent
<1>3. ASSUME RemoveDesired(y, failed), Exists(y), ~Enabled(a)
      PROVE  \/ IF x = AgentController THEN ~agent.daemonset
                  ELSE ~Enabled(agent) \/ \E z \in Exporters : id \in IdsOf(z) /\ Misreads(z)
             \/ \E z \in Namesakes(x) : IF z = AgentController THEN Acts ELSE Exists(z)
  <2>1. id \in IdsOf(y)
    <3>1. objects' = Without(Deleted(y, failed))
      BY <1>3 DEF RemoveDesired
    <3>2. id \in Deleted(y, failed)
      BY <3>1 DEF Without
    <3> QED BY <3>2, DeletedIds
  <2>2. CASE x = AgentController
    <3>1. y \in Namesakes(x)
      BY <1>1, <2>1, <2>2, SharedIds
    <3> QED BY <1>3, <3>1, NotAgent
  <2>3. CASE x # AgentController
    BY <1>3, <2>1, <2>3
  <2> QED BY <2>2, <2>3
<1> QED BY <1>0, <1>2, <1>3 DEF ReconcileExporter

LEMMA AgentLoses ==
    ASSUME OthersOK, ObjectsOK, NEW failed, ReconcileAgent(failed)
    PROVE  LostStep
<1> SUFFICES ASSUME NEW id \in DOMAIN objects, id \notin DOMAIN objects',
                    NEW x, x = objects[id].owner, ~(x = AgentController /\ ~agent.daemonset)
             PROVE  AgentController \in Namesakes(x) /\ Acts
  BY DEF LostStep, Controllers
<1>0. objects' # objects
  OBVIOUS
<1>1. Acts /\ Apply(AgentController, AgentDesired, failed, Pruned(failed))
  BY <1>0 DEF ReconcileAgent
<1>2. id \in Gone(AgentDesired, failed) \cup Pruned(failed)
  <2>1. DOMAIN objects' = (DOMAIN objects \ (Gone(AgentDesired, failed) \cup Pruned(failed)))
                            \cup Written(AgentController, AgentDesired, failed)
    BY <1>1, ApplyParts
  <2> QED BY <2>1
<1>3. CASE id \in Gone(AgentDesired, failed)
  BY <1>1, <1>3, AgentDesiredOK, ReplacedByNamesake DEF Parties
<1>4. CASE id \in Pruned(failed)
  <2>1. id \notin DOMAIN AgentDesired
        /\ Selects(SelectorLabelsForAllOperatorManaged(ExporterMeta(AgentController)), objects[id].labels)
    BY <1>4 DEF Pruned, Labelled
  <2>2. x \in Parties /\ id \in IdsOf(x) /\ Selects(SelectorOf(x), objects[id].labels)
    BY DEF ObjectsOK, ObjectOK
  <2>3. x # AgentController
    BY <2>1, <2>2 DEF AgentDesired
  <2>4. x[2] = AgentController[2]
    BY <2>1, <2>2, PrunedNamed DEF AgentController
  <2> QED BY <1>1, <2>3, <2>4 DEF Namesakes, Parties
<1> QED BY <1>2, <1>3, <1>4

LEMMA LostSteps == ExporterInv /\ [Next]_vars => [LostStep]_vars
<1> SUFFICES ASSUME OthersOK, ObjectsOK, Next PROVE LostStep
  BY InvParts
<1>1. ASSUME NEW a \in Agents, ChangeAgent(a) PROVE LostStep
  <2>1. CASE a = Nil
    <3>1. \A id \in DOMAIN objects \ DOMAIN objects' : objects[id].owner = AgentController
      BY <1>1, <2>1 DEF ChangeAgent, Without
    <3>2. ~Exists(AgentController)'
      BY <1>1, <2>1 DEF ChangeAgent, Exists
    <3> QED BY <3>1, <3>2 DEF LostStep, Controllers
  <2>2. CASE a # Nil
    BY <1>1, <2>2 DEF ChangeAgent, LostStep
  <2> QED BY <2>1, <2>2
<1>2. ASSUME NEW y \in Exporters, NEW s \in Specs, WriteExporter(y, s) PROVE LostStep
  BY <1>2 DEF WriteExporter, LostStep
<1>3. ASSUME NEW y \in Exporters, DeleteExporter(y) PROVE LostStep
  <2>1. \A id \in DOMAIN objects \ DOMAIN objects' : objects[id].owner = y
    BY <1>3 DEF DeleteExporter, Without
  <2>2. exporters'[y] = Nil
    BY <1>3 DEF DeleteExporter, OthersOK
  <2>3. ~Exists(y)'
    BY <2>2, NotAgent
  <2> QED BY <2>1, <2>3 DEF LostStep, Controllers
<1>4. ASSUME NEW y \in Parties, Resync(y) PROVE LostStep
  BY <1>4 DEF Resync, LostStep
<1>5. ASSUME NEW y \in Exporters, Works(y) PROVE LostStep
  BY <1>5, ReconcileLoses DEF Works
<1>6. ASSUME NEW y \in Exporters, Misreads(y) PROVE LostStep
  <2>1. ReconcileExporter(y, Nil, {})
    BY <1>6 DEF Misreads
  <2> QED BY <1>6, <2>1, ReconcileLoses
<1>7. ASSUME NEW y \in Exporters, NEW kind, Fails(y, kind) PROVE LostStep
  BY <1>7, ReconcileLoses DEF Fails
<1>8. ASSUME NEW failed, ReconcileAgent(failed) PROVE LostStep
  BY <1>8, AgentLoses
<1> QED BY <1>1, <1>2, <1>3, <1>4, <1>5, <1>6, <1>7, <1>8 DEF Next, AgentWorks, AgentFails

\* The objects an exporter or the agent wants are only lost with it, to a namesake of
\* another kind, the agent included, or because the agent could not be read
\* (findCloudWatchAgentOwnedObjects by the instance label, deletion of a DaemonSet whose
\* selector differs, getAmazonCloudWatchAgentResource).
THEOREM LossOnlyToNamesake == Spec => LostOnlyToNamesake
<1>1. Spec => [][LostStep]_vars
  BY ExporterInvariant, LostSteps, PTL DEF Spec
<1> QED BY <1>1 DEF LostOnlyToNamesake, LostStep
=============================================================================
