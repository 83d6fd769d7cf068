----------------------------- MODULE AgentProofs -----------------------------
(***************************************************************************)
(* Proofs about the life of an AmazonCloudWatchAgent, for any agents and   *)
(* patches that users submit.                                              *)
(***************************************************************************)
EXTENDS AgentLifecycle, NaturalsInduction, WellFoundedInduction, TLAPS

SelectorOf(a) == SelectorLabels(Meta(a), AgentComponent)

CollectorId(kind, a) == <<kind, Collector(a.name)>>

----------------------------------------------------------------------------
\* The webhook.

\* What the defaulting webhook keeps and what it fills in.
LEMMA Defaulted ==
    ASSUME NEW a, Fields \subseteq DOMAIN a
    PROVE  /\ DOMAIN defaulter(a) = DOMAIN a
           /\ defaulter(a).ns = a.ns /\ defaulter(a).name = a.name
           /\ defaulter(a).mode = Unless(a.mode, "", "deployment")
           /\ defaulter(a).mgmt = Unless(a.mgmt, "", "managed")
           /\ defaulter(a).replicas = Orelse(a.replicas, 1)
           /\ defaulter(a).pdb = Orelse(a.pdb, [min |-> Nil, max |-> 1])
           /\ \A f \in {"min", "max", "probe", "asWindow", "configMaps", "config", "otel", "ports", "prom"} :
                defaulter(a)[f] = a[f]
           /\ defaulter(a).asMax \in {a.asMax, a.max}
           /\ defaulter(a).asMin \in {a.asMin, a.min, a.replicas, 1}
           /\ defaulter(a).taReplicas \in {a.taReplicas, 1}
<1> DEFINE d == defaulter(a)
<1>1. DOMAIN d = DOMAIN a /\ d.ns = a.ns /\ d.name = a.name
  BY DEF defaulter, Fields, Numbers
<1>2. /\ d.mode = Unless(a.mode, "", "deployment")
      /\ d.mgmt = Unless(a.mgmt, "", "managed")
      /\ d.replicas = Orelse(a.replicas, 1)
      /\ d.pdb = Orelse(a.pdb, [min |-> Nil, max |-> 1])
  BY DEF defaulter, Fields, Numbers
<1>3. d.min = a.min /\ d.max = a.max /\ d.probe = a.probe /\ d.asWindow = a.asWindow /\ d.configMaps = a.configMaps /\ d.config = a.config
      /\ d.otel = a.otel /\ d.ports = a.ports /\ d.prom = a.prom
  BY DEF defaulter, Fields, Numbers
<1>4. d.asMax \in {a.asMax, a.max}
  BY DEF defaulter, Fields, Numbers, Orelse
<1>5. d.asMin \in {a.asMin, a.min, a.replicas, 1}
  BY DEF defaulter, Fields, Numbers, Orelse
<1>6. d.taReplicas \in {a.taReplicas, 1}
  BY DEF defaulter, Fields, Numbers, Orelse
<1> QED BY <1>1, <1>2, <1>3, <1>4, <1>5, <1>6

\* A selector is made of namespace and name alone.
LEMMA SelectorByName ==
    ASSUME NEW a, NEW b, a.ns = b.ns, a.name = b.name
    PROVE  SelectorOf(a) = SelectorOf(b)
BY DEF SelectorOf, SelectorLabels, SelectorLabelsForAllOperatorManaged, Meta

----------------------------------------------------------------------------
\* The builders.

\* What the proofs need of an object that is built: it has a kind and a name, and if it is
\* the collector's workload it selects by the agent's labels and has the agent's claims.
Sound(a, o) ==
    /\ Len(o[1]) = 2
    /\ \A kind \in Workloads :
         o[1] = CollectorId(kind, a) =>
           /\ "selector" \in DOMAIN o[2] /\ o[2].selector = SelectorOf(a)
           /\ kind = "StatefulSet" => o[2].claims = a.claims

LEMMA ObjectPair ==
    ASSUME NEW kind, NEW name, NEW body, NEW o \in Object(kind, name, body)
    PROVE  o[1] = <<kind, name>> /\ o[2] = body
BY DEF Object

LEMMA OtherKindSound ==
    ASSUME NEW a, NEW o, NEW kind, NEW name, o[1] = <<kind, name>>, kind \notin Workloads
    PROVE  Sound(a, o)
<1>1. Len(o[1]) = 2
  OBVIOUS
<1>2. ASSUME NEW k \in Workloads, o[1] = CollectorId(k, a) PROVE FALSE
  <2>1. o[1][1] = k
    BY <1>2 DEF CollectorId
  <2>2. o[1][1] = kind
    OBVIOUS
  <2> QED BY <2>1, <2>2
<1> QED BY <1>1, <1>2 DEF Sound

LEMMA OtherNameSound ==
    ASSUME NEW a, NEW o, NEW kind, NEW name, o[1] = <<kind, name>>, name # Collector(a.name)
    PROVE  Sound(a, o)
<1>1. Len(o[1]) = 2
  OBVIOUS
<1>2. ASSUME NEW k \in Workloads, o[1] = CollectorId(k, a) PROVE FALSE
  <2> DEFINE own == Collector(a.name)
  <2>0. name # own
    OBVIOUS
  <2> HIDE DEF own
  <2>1. o[1][2] = own
    BY <1>2 DEF CollectorId, own
  <2>2. o[1][2] = name
    OBVIOUS
  <2> QED BY <2>0, <2>1, <2>2
<1> QED BY <1>1, <1>2 DEF Sound

LEMMA WorkloadFacts ==
    ASSUME NEW a
    PROVE  /\ DOMAIN Workload(a) = {"labels", "selector", "podLabels", "hash", "replicas",
                                    "account", "volumes", "container"}
           /\ Workload(a).selector = SelectorOf(a)
BY DEF Workload, SelectorOf

\* The three forms of the collector's workload.
LEMMA WorkloadSound ==
    ASSUME NEW a, NEW o \in Deployment(a) \cup StatefulSet(a) \cup DaemonSet(a)
    PROVE  Sound(a, o)
<1> DEFINE w == Workload(a)
           extra == [service |-> ServiceName(a.name), claims |-> a.claims]
<1>0. /\ DOMAIN w = {"labels", "selector", "podLabels", "hash", "replicas", "account", "volumes", "container"}
      /\ w.selector = SelectorOf(a)
  BY WorkloadFacts
<1>a. DOMAIN extra = {"service", "claims"} /\ extra.claims = a.claims
  OBVIOUS
<1> HIDE DEF w, extra
<1>1. CASE o \in Deployment(a)
  <2>1. o[1] = <<"Deployment", Collector(a.name)>> /\ o[2] = w
    BY <1>1, ObjectPair DEF Deployment, w
  <2>2. o[1][1] = "Deployment" /\ Len(o[1]) = 2
    BY <2>1
  <2>3. \A kind : o[1] = CollectorId(kind, a) => kind = "Deployment"
    BY <2>2 DEF CollectorId
  <2> QED BY <1>0, <2>1, <2>2, <2>3 DEF Sound
<1>2. CASE o \in StatefulSet(a)
  <2>1. o[1] = <<"StatefulSet", Collector(a.name)>> /\ o[2] = Over(w, extra)
    BY <1>2, ObjectPair DEF StatefulSet, w, extra
  <2>2. "selector" \in DOMAIN o[2] /\ o[2].selector = w.selector /\ o[2].claims = extra.claims
    BY <1>0, <1>a, <2>1 DEF Over
  <2>3. Len(o[1]) = 2
    BY <2>1
  <2> QED BY <1>0, <1>a, <2>2, <2>3 DEF Sound
<1>3. CASE o \in DaemonSet(a)
  <2>1. o[1] = <<"DaemonSet", Collector(a.name)>> /\ o[2] = [w EXCEPT !.replicas = Nil]
    BY <1>3, ObjectPair DEF DaemonSet, w
  <2>2. o[1][1] = "DaemonSet" /\ Len(o[1]) = 2
    BY <2>1
  <2>3. \A kind : o[1] = CollectorId(kind, a) => kind = "DaemonSet"
    BY <2>2 DEF CollectorId
  <2>4. "selector" \in DOMAIN o[2] /\ o[2].selector = w.selector
    BY <1>0, <2>1
  <2> QED BY <1>0, <2>2, <2>3, <2>4 DEF Sound
<1> QED BY <1>1, <1>2, <1>3

\* An object of another kind, or none.
LEMMA ObjectSound ==
    ASSUME NEW a, NEW kind, NEW name, NEW body, NEW o \in Object(kind, name, body),
           kind \notin Workloads \/ name # Collector(a.name)
    PROVE  Sound(a, o)
BY ObjectPair, OtherKindSound, OtherNameSound

LEMMA BuildSound ==
    ASSUME NEW a, NEW g, a.mode \in Modes, NEW o \in Build(a, g)
    PROVE  Sound(a, o)
<1>1. CASE o \in Deployment(a) \cup StatefulSet(a) \cup DaemonSet(a)
  BY <1>1, WorkloadSound
<1>2. CASE o \in PodDisruptionBudget(a)
  <2>1. PICK name, body : o \in Object("PodDisruptionBudget", name, body)
    BY <1>2, Zenon DEF PodDisruptionBudget
  <2> QED BY <2>1, ObjectSound DEF Workloads
<1>3. CASE o \in HorizontalPodAutoscaler(a)
  <2>1. PICK name, body : o \in Object("HorizontalPodAutoscaler", name, body)
    BY <1>3, Zenon DEF HorizontalPodAutoscaler
  <2> QED BY <2>1, ObjectSound DEF Workloads
<1>4. CASE o \in ServiceAccount(a)
  <2>1. PICK name, body : o \in Object("ServiceAccount", name, body)
    BY <1>4, Zenon DEF ServiceAccount
  <2> QED BY <2>1, ObjectSound DEF Workloads
<1>5. CASE o \in Service(a)
  <2>1. PICK name, body : o \in Object("Service", name, body)
    BY <1>5, Zenon DEF Service
  <2> QED BY <2>1, ObjectSound DEF Workloads
<1>6. CASE o \in HeadlessService(a)
  <2>1. o[1] = <<"Service", HeadlessName(a.name)>>
    BY <1>6 DEF HeadlessService
  <2> QED BY <2>1, OtherKindSound DEF Workloads
<1>7. CASE o \in MonitoringService(a)
  <2>1. PICK name, body : o \in Object("Service", name, body)
    BY <1>7, Zenon DEF MonitoringService
  <2> QED BY <2>1, ObjectSound DEF Workloads
<1>8. CASE o \in Ingress(a)
  <2>1. PICK name, body : o \in Object("Ingress", name, body)
    BY <1>8, Zenon DEF Ingress
  <2> QED BY <2>1, ObjectSound DEF Workloads
<1>9. CASE o \in Monitor(a)
  <2> DEFINE kind == IF a.mode = "sidecar" THEN "PodMonitor" ELSE "ServiceMonitor"
  <2>1. kind \notin Workloads
    BY DEF Workloads
  <2> HIDE DEF kind
  <2> QED BY <1>9, <2>1, ObjectSound DEF Monitor, kind
<1>10. CASE o \in ConfigMaps(a, "rewrite" \in g)
  <2>1. PICK name, body : o \in Object("ConfigMap", name, body)
    BY <1>10, Zenon DEF ConfigMaps
  <2> QED BY <2>1, ObjectSound DEF Workloads
<1>11. CASE o \in Routes(a)
  <2>1. PICK name, body : o \in Object("Route", name, body)
    BY <1>11, Zenon DEF Routes
  <2> QED BY <2>1, ObjectSound DEF Workloads
<1> QED BY <1>1, <1>2, <1>3, <1>4, <1>5, <1>6, <1>7, <1>8, <1>9, <1>10, <1>11 DEF Build, Modes

LEMMA AllocatorSound ==
    ASSUME NEW a, NEW o \in TABuild(a)
    PROVE  Sound(a, o)
<1>1. CASE o \in TAConfigMapObject(a)
  <2>1. PICK name, body : o \in Object("ConfigMap", name, body)
    BY <1>1, Zenon DEF TAConfigMapObject
  <2> QED BY <2>1, ObjectSound DEF Workloads
<1>2. CASE o \in TADeployment(a)
  <2>1. TargetAllocator(a.name) # Collector(a.name)
    BY DEF TargetAllocator, Collector
  <2> QED BY <1>2, <2>1, ObjectSound DEF TADeployment
<1>3. CASE o \in TAServiceAccount(a)
  <2>1. PICK name, body : o \in Object("ServiceAccount", name, body)
    BY <1>3, Zenon DEF TAServiceAccount
  <2> QED BY <2>1, ObjectSound DEF Workloads
<1>4. CASE o \in TAServiceObject(a)
  <2>1. PICK body : o \in Object("Service", TAService(a.name), body)
    BY <1>4, Zenon DEF TAServiceObject
  <2> QED BY <2>1, ObjectSound DEF Workloads
<1> QED BY <1>1, <1>2, <1>3, <1>4 DEF TABuild

\* What is applied for an id is one of the objects that were built for it.
LEMMA ByIdObject ==
    ASSUME NEW built, NEW id \in DOMAIN ById(built)
    PROVE  \E o \in built : o[1] = id /\ ById(built)[id] = o[2]
<1> DEFINE o == CHOOSE p \in built : p[1] = id
<1>1. \E p \in built : p[1] = id
  BY DEF ById, Ids
<1>2. o \in built /\ o[1] = id
  BY <1>1
<1>3. ById(built)[id] = o[2]
  BY <1>1 DEF ById, Ids
<1> HIDE DEF o
<1> QED BY <1>2, <1>3

\* What is wanted of every object the builders return.
LEMMA DesiredSound ==
    ASSUME NEW a, NEW g, a.mode \in Modes, NEW id \in DOMAIN ById(BuildCollector(a, g))
    PROVE  Sound(a, <<id, ById(BuildCollector(a, g))[id]>>)
<1>1. \A p \in BuildCollector(a, g) : Sound(a, p)
  BY BuildSound, AllocatorSound DEF BuildCollector
<1>2. PICK o \in BuildCollector(a, g) : o[1] = id /\ ById(BuildCollector(a, g))[id] = o[2]
  BY ByIdObject
<1>3. <<id, o[2]>>[1] = o[1] /\ <<id, o[2]>>[2] = o[2]
  BY <1>2
<1>4. Sound(a, <<id, o[2]>>)
  BY <1>1, <1>2, <1>3 DEF Sound
<1> QED BY <1>2, <1>4

----------------------------------------------------------------------------
\* The invariant: what is stored is defaulted, nothing is there or requested without an
\* agent, and the collector's workload selects by the agent's labels.

CollectorsSelect ==
    \A kind \in Workloads :
       CollectorId(kind, agent) \in DOMAIN objects =>
         objects[CollectorId(kind, agent)].selector = SelectorOf(agent)

\* Agents that the defaulting webhook turns into well-formed ones.
Submittable(a) == Fields \subseteq DOMAIN a /\ InSchema(a)

\* Gates may have changed since.
Validated(a) == \E rewrite \in BOOLEAN : validate(a, rewrite)

WellFormed(a) ==
    /\ Submittable(a)
    /\ a.mode \in Modes /\ a.mgmt \in MgmtStates
    /\ a.replicas # Nil /\ a.pdb # Nil

AgentInv ==
    /\ TypeOK
    /\ stored => WellFormed(agent) /\ Validated(agent)
    /\ ~stored => ~pending /\ DOMAIN objects = {}
    /\ CollectorsSelect

LEMMA DefaultedWellFormed ==
    ASSUME NEW a, Submittable(a)
    PROVE  WellFormed(defaulter(a)) /\ defaulter(a).ns = a.ns /\ defaulter(a).name = a.name
<1> DEFINE d == defaulter(a)
<1>1. /\ DOMAIN d = DOMAIN a
      /\ d.ns = a.ns /\ d.name = a.name
      /\ d.mode = Unless(a.mode, "", "deployment")
      /\ d.mgmt = Unless(a.mgmt, "", "managed")
      /\ d.replicas = Orelse(a.replicas, 1)
      /\ d.pdb = Orelse(a.pdb, [min |-> Nil, max |-> 1])
      /\ \A f \in {"min", "max", "probe", "asWindow", "configMaps", "config", "otel", "ports", "prom"} : d[f] = a[f]
      /\ d.asMax \in {a.asMax, a.max}
      /\ d.asMin \in {a.asMin, a.min, a.replicas, 1}
      /\ d.taReplicas \in {a.taReplicas, 1}
  BY Defaulted DEF Submittable
<1> HIDE DEF d
<1>2. Fields \subseteq DOMAIN a /\ Fields \subseteq DOMAIN d
  BY <1>1 DEF Submittable
<1>3. d.mode \in Modes /\ d.mgmt \in MgmtStates
  BY <1>1, <1>2 DEF Submittable, InSchema, Fields, Unless, Modes, MgmtStates
<1>4. d.replicas # Nil /\ d.pdb # Nil
  <2>1. d.replicas # Nil
    <3>1. 1 # Nil
      BY NilAssumption
    <3> QED BY <1>1, <3>1 DEF Orelse
  <2>2. d.pdb # Nil
    <3> DEFINE budget == [min |-> Nil, max |-> 1]
    <3>1. Nil # budget
      BY NilAssumption
    <3>2. d.pdb = Orelse(a.pdb, budget)
      BY <1>1
    <3> HIDE DEF budget
    <3> QED BY <3>1, <3>2 DEF Orelse
  <2> QED BY <2>1, <2>2
<1>5. \A f \in Numbers : a[f] \in Int \cup {Nil}
  BY <1>2 DEF Submittable, InSchema, Fields
<1>6. \A f \in Numbers : d[f] \in Int \cup {Nil}
  <2> DEFINE I == Int \cup {Nil}
  <2>1. 1 \in I
    OBVIOUS
  <2>2. /\ a.replicas \in I /\ a.min \in I /\ a.max \in I /\ a.asMax \in I /\ a.asMin \in I
        /\ a.probe \in I /\ a.asWindow \in I /\ a.taReplicas \in I
    BY <1>5 DEF Numbers
  <2> HIDE DEF I
  <2>3. d.replicas \in I /\ d.asMax \in I /\ d.asMin \in I /\ d.taReplicas \in I
    BY <1>1, <2>1, <2>2 DEF Orelse
  <2>4. d.min \in I /\ d.max \in I /\ d.probe \in I /\ d.asWindow \in I
    BY <1>1, <2>2
  <2> QED BY <2>3, <2>4 DEF Numbers, I
<1>7. /\ a.configMaps \in Seq(STRING) /\ IsConfig(a.config) /\ IsOtel(a.otel)
      /\ ArePorts(a.ports) /\ IsPrometheus(a.prom)
  BY <1>2 DEF Submittable, InSchema, Fields
<1>8. InSchema(d)
  BY <1>1, <1>3, <1>6, <1>7 DEF InSchema
<1> QED BY <1>1, <1>2, <1>3, <1>4, <1>8 DEF WellFormed, Submittable, d

\* What is stored has passed both webhooks.
LEMMA AdmitTyped ==
    ASSUME NEW a, Submittable(a), Admit(a)
    PROVE  \/ /\ stored' = TRUE /\ pending' = TRUE /\ outcome' = "none"
              /\ WellFormed(agent') /\ Validated(agent')
              /\ agent'.ns = a.ns /\ agent'.name = a.name
           \/ UNCHANGED <<stored, agent, pending, outcome>>
<1> DEFINE d == defaulter(a)
<1>1. WellFormed(d) /\ d.ns = a.ns /\ d.name = a.name
  BY DefaultedWellFormed
<1>2. \/ /\ validate(d, "rewrite" \in gates)
         /\ stored' = TRUE /\ agent' = d /\ pending' = TRUE /\ outcome' = "none"
      \/ UNCHANGED <<stored, agent, pending, outcome>>
  BY DEF Admit
<1> HIDE DEF d
<1>3. ("rewrite" \in gates) \in BOOLEAN
  OBVIOUS
<1>4. validate(d, "rewrite" \in gates) => Validated(d)
  BY <1>3 DEF Validated
<1> QED BY <1>1, <1>2, <1>4

LEMMA PatchedSubmittable ==
    ASSUME NEW p \in Patches, AgentInv, stored
    PROVE  /\ Submittable(Over(p, agent))
           /\ Over(p, agent).ns = agent.ns /\ Over(p, agent).name = agent.name
<1> DEFINE new == Over(p, agent)
<1>0. Submittable(agent)
  BY DEF AgentInv, WellFormed
<1>1. Fields \subseteq DOMAIN new
  BY <1>0 DEF Submittable, Over
<1>2. \A f \in DOMAIN new : \/ f \in DOMAIN p /\ new[f] = p[f]
                            \/ f \in DOMAIN agent /\ new[f] = agent[f]
  BY DEF Over
<1>3. new.ns = agent.ns /\ new.name = agent.name
  BY <1>0, PatchesAssumption DEF Submittable, Over, Fields
<1> HIDE DEF new
<1>4. InSchema(p)
  BY PatchesAssumption
<1>5. /\ "config" \in DOMAIN new => IsConfig(new.config)
      /\ "otel" \in DOMAIN new => IsOtel(new.otel)
      /\ "ports" \in DOMAIN new => ArePorts(new.ports)
      /\ "prom" \in DOMAIN new => IsPrometheus(new.prom)
  BY <1>0, <1>2, <1>4, Zenon DEF InSchema, Submittable
<1>6. InSchema(new)
  BY <1>0, <1>2, <1>4, <1>5 DEF InSchema, Submittable
<1> QED BY <1>1, <1>3, <1>6 DEF Submittable, new

\* What users change leaves the objects alone, and namespace and name as they are.
LEMMA AdmitInv ==
    ASSUME AgentInv, NEW a, Submittable(a), Admit(a), UNCHANGED <<gates, objects>>,
           ops < MaxOps, ops' = ops + 1,
           stored => a.ns = agent.ns /\ a.name = agent.name
    PROVE  AgentInv'
<1>1. (ops \in 0 .. MaxOps)'
  BY OpsAssumption DEF AgentInv, TypeOK
<1>2. CASE UNCHANGED <<stored, agent, pending, outcome>>
  BY <1>1, <1>2 DEF AgentInv, TypeOK, CollectorsSelect
<1>3. CASE /\ stored' = TRUE /\ pending' = TRUE /\ outcome' = "none"
           /\ WellFormed(agent') /\ Validated(agent')
           /\ agent'.ns = a.ns /\ agent'.name = a.name
  <2>1. TypeOK'
    BY <1>1, <1>3 DEF AgentInv, TypeOK, WellFormed
  <2>2. CollectorsSelect'
    <3>1. CASE ~stored
      BY <3>1 DEF AgentInv, CollectorsSelect
    <3>2. CASE stored
      <4>1. agent'.ns = agent.ns /\ agent'.name = agent.name
        BY <1>3, <3>2
      <4>2. SelectorOf(agent') = SelectorOf(agent)
        BY <4>1, SelectorByName
      <4>3. \A kind : CollectorId(kind, agent') = CollectorId(kind, agent)
        BY <4>1 DEF CollectorId
      <4> QED BY <4>2, <4>3 DEF AgentInv, CollectorsSelect
    <3> QED BY <3>1, <3>2
  <2> QED BY <1>3, <2>1, <2>2 DEF AgentInv
<1> QED BY <1>2, <1>3, AdmitTyped

LEMMA MergedSelector ==
    ASSUME NEW id, NEW want, id[1] \in Workloads, "selector" \in DOMAIN want
    PROVE  Merged(id, want).selector = want.selector
<1>1. CASE id \notin DOMAIN objects
  BY <1>1 DEF Merged
<1>2. CASE id \in DOMAIN objects
  <2>1. Merged(id, want) =
          [want EXCEPT !.labels = Over(@, objects[id].labels), !.podLabels = Over(@, objects[id].podLabels)]
    BY <1>2 DEF Merged, Workloads
  <2> QED BY <2>1
<1> QED BY <1>1, <1>2

LEMMA ApplyParts ==
    ASSUME NEW desired, Apply(desired)
    PROVE  /\ \A id \in DOMAIN objects' :
                \/ id \in DOMAIN desired /\ objects'[id] = Merged(id, desired[id])
                \/ id \in DOMAIN objects /\ objects'[id] = objects[id]
           /\ \A id \in DOMAIN objects \ DOMAIN objects' :
                id \in DOMAIN desired => Immutable(id, desired)
           /\ pending' \in BOOLEAN
           /\ outcome' \in {"built", "rejected"}
<1> DEFINE replaced == {id \in DOMAIN desired : Immutable(id, desired)}
           rejected == {id \in DOMAIN desired : Invalid(id[1], desired[id])} \ replaced
           written  == DOMAIN desired \ (rejected \cup replaced)
           kept     == {id \in DOMAIN objects \ DOMAIN desired :
                          rejected # {} \/ id[1] \notin PrunedKinds}
<1>1. /\ objects' = [id \in written \cup kept \cup (rejected \cap DOMAIN objects) |->
                       IF id \in written THEN Merged(id, desired[id]) ELSE objects[id]]
      /\ outcome' = IF rejected = {} THEN "built" ELSE "rejected"
      /\ pending' = (rejected # {} \/ replaced # {})
  BY DEF Apply
<1>2. DOMAIN objects' = written \cup kept \cup (rejected \cap DOMAIN objects)
  BY <1>1
<1>3. \A id \in DOMAIN objects' :
        objects'[id] = IF id \in written THEN Merged(id, desired[id]) ELSE objects[id]
  BY <1>1
<1>4. pending' \in BOOLEAN /\ outcome' \in {"built", "rejected"}
  BY <1>1
<1>5. \A id \in DOMAIN objects \ DOMAIN objects' : id \in DOMAIN desired => id \in replaced
  BY <1>2
<1>6. \A id \in DOMAIN objects' : id \in written \/ id \in DOMAIN objects
  BY <1>2
<1>7. written \subseteq DOMAIN desired
  OBVIOUS
<1>8. \A id \in replaced : Immutable(id, desired)
  OBVIOUS
<1> HIDE DEF rejected, replaced, written, kept
<1> QED BY <1>3, <1>4, <1>5, <1>6, <1>7, <1>8

LEMMA ApplyInv ==
    ASSUME AgentInv, stored, NEW desired, desired = ById(BuildCollector(agent, gates)),
           Apply(desired), UNCHANGED <<gates, stored, agent, ops>>
    PROVE  AgentInv'
<1>1. agent.mode \in Modes
  BY DEF AgentInv, TypeOK
<1>2. \A id \in DOMAIN desired : Sound(agent, <<id, desired[id]>>)
  BY <1>1, DesiredSound
<1>3. \A id \in DOMAIN objects' : Len(id) = 2
  <2>1. \A id \in DOMAIN desired : Len(id) = 2
    BY <1>2 DEF Sound
  <2> QED BY <2>1, ApplyParts DEF AgentInv, TypeOK
<1>4. TypeOK'
  <2>1. pending' \in BOOLEAN /\ outcome' \in {"none", "built", "error", "panic", "rejected"}
    BY ApplyParts
  <2> QED BY <1>3, <2>1 DEF AgentInv, TypeOK
<1>5. ASSUME NEW kind \in Workloads, NEW id, id = CollectorId(kind, agent), id \in DOMAIN objects'
      PROVE  objects'[id].selector = SelectorOf(agent)
  <2>1. id[1] = kind
    BY <1>5 DEF CollectorId
  <2>2. CASE id \in DOMAIN desired /\ objects'[id] = Merged(id, desired[id])
    <3>1. "selector" \in DOMAIN desired[id] /\ desired[id].selector = SelectorOf(agent)
      BY <1>2, <1>5, <2>2 DEF Sound
    <3> QED BY <2>1, <2>2, <3>1, MergedSelector
  <2>3. CASE id \in DOMAIN objects /\ objects'[id] = objects[id]
    BY <1>5, <2>3 DEF AgentInv, CollectorsSelect
  <2> QED BY <1>5, <2>2, <2>3, ApplyParts
<1>6. CollectorsSelect'
  BY <1>5 DEF CollectorsSelect, CollectorId, SelectorOf
<1> QED BY <1>4, <1>6 DEF AgentInv

LEMMA ReconcileInv ==
    ASSUME AgentInv, NEW unlucky, Reconcile(unlucky)
    PROVE  AgentInv'
<1>0. stored
  BY DEF Reconcile, AgentInv
<1>1. UNCHANGED <<gates, stored, agent, ops>>
  BY DEF Reconcile
<1>2. CASE pending' = FALSE /\ UNCHANGED <<outcome, objects>>
  BY <1>0, <1>1, <1>2 DEF AgentInv, TypeOK, CollectorsSelect
<1>3. CASE /\ outcome' = BuildOutcome(agent, gates, unlucky)
           /\ UNCHANGED <<pending, objects>>
  <2>1. BuildOutcome(agent, gates, unlucky) \in {"panic", "error", "built"}
    BY DEF BuildOutcome
  <2> QED BY <1>0, <1>1, <1>3, <2>1 DEF AgentInv, TypeOK, CollectorsSelect
<1>4. CASE \E built \in {BuildCollector(agent, gates)} : \E desired \in {ById(built)} : Apply(desired)
  BY <1>0, <1>1, <1>4, ApplyInv
<1> QED BY <1>2, <1>3, <1>4 DEF Reconcile

LEMMA AgentInitInv == Init => AgentInv
<1> SUFFICES ASSUME Init PROVE AgentInv
  OBVIOUS
<1>1. DOMAIN objects = {}
  BY DEF Init
<1>2. ops \in 0 .. MaxOps
  BY OpsAssumption DEF Init
<1> QED BY <1>1, <1>2 DEF Init, AgentInv, TypeOK, CollectorsSelect

LEMMA AgentStep == AgentInv /\ [Next]_vars => AgentInv'
<1> SUFFICES ASSUME AgentInv, [Next]_vars PROVE AgentInv'
  OBVIOUS
<1>1. CASE UNCHANGED vars
  BY <1>1 DEF vars, AgentInv, TypeOK, CollectorsSelect
<1>2. ASSUME NEW a \in Submissions, CreateAgent(a) PROVE AgentInv'
  <2>1. Submittable(a)
    BY SubmissionsAssumption DEF Submittable
  <2> QED BY <1>2, <2>1, AdmitInv DEF CreateAgent
<1>3. ASSUME NEW p \in Patches, PatchAgent(p) PROVE AgentInv'
  <2>1. stored /\ Admit(Over(p, agent))
    BY <1>3 DEF PatchAgent
  <2>2. /\ Submittable(Over(p, agent))
        /\ Over(p, agent).ns = agent.ns /\ Over(p, agent).name = agent.name
    BY <2>1, PatchedSubmittable
  <2> QED BY <1>3, <2>1, <2>2, AdmitInv DEF PatchAgent
<1>4. ASSUME DeleteAgent PROVE AgentInv'
  <2>1. (ops \in 0 .. MaxOps)'
    BY <1>4, OpsAssumption DEF DeleteAgent, AgentInv, TypeOK
  <2>2. DOMAIN objects' = {}
    BY <1>4 DEF DeleteAgent
  <2> QED BY <1>4, <2>1, <2>2 DEF DeleteAgent, AgentInv, TypeOK, CollectorsSelect
<1>5. ASSUME NEW g \in Gates, Restart(g) PROVE AgentInv'
  <2>1. (ops \in 0 .. MaxOps)'
    BY <1>5, OpsAssumption DEF Restart, AgentInv, TypeOK
  <2> QED BY <1>5, <2>1 DEF Restart, AgentInv, TypeOK, CollectorsSelect
<1>6. ASSUME NEW unlucky \in BOOLEAN, Reconcile(unlucky) PROVE AgentInv'
  BY <1>6, ReconcileInv
<1> QED BY <1>1, <1>2, <1>3, <1>4, <1>5, <1>6 DEF Next

LEMMA AgentInvariant == Spec => []AgentInv
BY AgentInitInv, AgentStep, PTL DEF Spec

\* Type correctness of the agent's life (collector_webhook.go, Reconcile): what is stored
\* has been defaulted, through any sequence of patches, restarts and reconciliations.
THEOREM AgentTypeCorrect == Spec => []TypeOK
<1>1. AgentInv => TypeOK
  BY DEF AgentInv
<1> QED BY <1>1, AgentInvariant, PTL

----------------------------------------------------------------------------
\* The collector's workload.

KeptStep ==
    \A kind \in Workloads :
       LET id == <<kind, Collector(agent.name)>>
       IN  stored /\ id \in DOMAIN objects /\ id \notin DOMAIN objects' =>
             \/ ~stored'
             \/ id \notin Current
             \/ kind = "StatefulSet" /\ objects[id].claims # agent.claims

LEMMA ApplyKeeps ==
    ASSUME AgentInv, stored, NEW desired, desired = ById(BuildCollector(agent, gates)),
           Apply(desired), NEW kind \in Workloads, NEW id, id = CollectorId(kind, agent),
           id \in DOMAIN objects, id \notin DOMAIN objects', id \in Current
    PROVE  kind = "StatefulSet" /\ objects[id].claims # agent.claims
<1>1. id \in DOMAIN desired
  BY DEF ById, Current
<1>2. Immutable(id, desired)
  BY <1>1, ApplyParts
<1>3. Sound(agent, <<id, desired[id]>>)
  BY <1>1, DesiredSound DEF AgentInv, TypeOK
<1>4. /\ desired[id].selector = SelectorOf(agent)
      /\ kind = "StatefulSet" => desired[id].claims = agent.claims
  BY <1>3 DEF Sound
<1>5. objects[id].selector = SelectorOf(agent)
  BY DEF AgentInv, CollectorsSelect
<1>6. id[1] = kind
  BY DEF CollectorId
<1>7. id[1] = "StatefulSet" /\ objects[id].claims # desired[id].claims
  BY <1>2, <1>4, <1>5 DEF Immutable
<1> QED BY <1>4, <1>6, <1>7

LEMMA KeptSteps == AgentInv /\ [Next]_vars => [KeptStep]_vars
<1> SUFFICES ASSUME AgentInv, Next, NEW kind \in Workloads, NEW id, id = CollectorId(kind, agent),
                    stored, stored', id \in DOMAIN objects, id \notin DOMAIN objects', id \in Current
             PROVE  kind = "StatefulSet" /\ objects[id].claims # agent.claims
  BY DEF KeptStep, CollectorId
<1>1. PICK unlucky \in BOOLEAN : Reconcile(unlucky)
  BY DEF Next, CreateAgent, PatchAgent, DeleteAgent, Restart
<1>2. PICK built \in {BuildCollector(agent, gates)} : \E desired \in {ById(built)} : Apply(desired)
  BY <1>1 DEF Reconcile
<1> QED BY <1>2, ApplyKeeps

\* The collector's workload only goes with its agent, its mode or its volume claims
\* (labels.go, reconcile.go): its selector is built from what no patch can change, so the
\* deletion that an immutable field brings about never takes it.
THEOREM CollectorNotTakenDown == Spec => CollectorKept
<1>1. Spec => [][KeptStep]_vars
  BY AgentInvariant, KeptSteps, PTL DEF Spec
<1> QED BY <1>1 DEF CollectorKept, KeptStep
----------------------------------------------------------------------------
\* The ports that the agent's configuration asks for.

\* Natural numbers: a set that is not empty has a first one, and one that has zero and
\* all that follows is all of them.

LEMMA FirstNumber ==
    ASSUME NEW T, T \subseteq Nat, T # {}
    PROVE  \E x \in T : \A y \in T : x <= y
<1> DEFINE R == OpToRel(<, Nat)
<1>1. \A y \in T : y \in Int
  OBVIOUS
<1>2. IsWellFoundedOn(R, Nat)
  BY NatLessThanWellFounded
<1>3. PICK x \in T : \A y \in T : ~(<<y, x>> \in R)
  <2> HIDE DEF R
  <2> QED BY <1>2, WFMin
<1>4. \A y \in T : ~(y < x)
  BY <1>3 DEF OpToRel
<1> HIDE DEF R
<1>5. \A y \in T : x <= y
  BY <1>1, <1>4
<1> QED BY <1>5

LEMMA FromZero ==
    ASSUME NEW T, T \subseteq Nat, 0 \in T, \A n \in T : n + 1 \in T
    PROVE  T = Nat
<1> SUFFICES ASSUME NEW n \in Nat \ T PROVE FALSE
  OBVIOUS
<1>1. PICK x \in Nat \ T : \A y \in Nat \ T : x <= y
  BY FirstNumber
<1>2. x # 0 /\ x - 1 \in Nat
  BY <1>1
<1>3. x - 1 \in T
  BY <1>1, <1>2
<1>4. (x - 1) + 1 \in T
  BY <1>3
<1> QED BY <1>1, <1>2, <1>4

----------------------------------------------------------------------------
\* The ports.

\* The ports of a request have a protocol, each another, and a valid name; only one that
\* yields to others has more than one.
Request(r) ==
    /\ \A p \in r.ports : p.protocol \in {"TCP", "UDP"} /\ IsValidPortName(p.name)
    /\ \A p, q \in r.ports : p.protocol = q.protocol \/ ~r.alone => p = q

Requests(asked) == \E T : asked \in Seq(T) /\ \A r \in T : Request(r)

LEMMA NoRequests == Requests(<<>>)
<1> DEFINE T == {}
<1>1. <<>> \in Seq(T) /\ \A r \in T : Request(r)
  OBVIOUS
<1> HIDE DEF T
<1> QED BY <1>1 DEF Requests

LEMMA OneRequest ==
    ASSUME NEW r, Request(r)
    PROVE  Requests(<<r>>)
<1> DEFINE T == {r}
<1>1. <<r>> \in Seq(T) /\ \A x \in T : Request(x)
  OBVIOUS
<1> HIDE DEF T
<1> QED BY <1>1 DEF Requests

LEMMA MoreRequests ==
    ASSUME NEW s, NEW t, Requests(s), Requests(t)
    PROVE  Requests(s \o t)
<1>1. PICK S : s \in Seq(S) /\ \A r \in S : Request(r)
  BY DEF Requests
<1>2. PICK T : t \in Seq(T) /\ \A r \in T : Request(r)
  BY DEF Requests
<1>3. s \in Seq(S \cup T) /\ t \in Seq(S \cup T)
  BY <1>1, <1>2
<1>4. s \o t \in Seq(S \cup T)
  BY <1>3
<1> QED BY <1>1, <1>2, <1>4 DEF Requests

LEMMA EachRequest ==
    ASSUME NEW s, Requests(s)
    PROVE  \A k \in DOMAIN s : k \in Nat /\ k >= 1 /\ Request(s[k])
<1>1. PICK S : s \in Seq(S) /\ \A r \in S : Request(r)
  BY DEF Requests
<1>2. \A k \in DOMAIN s : k \in Nat /\ k >= 1
  BY <1>1
<1>3. \A k \in DOMAIN s : s[k] \in S
  BY <1>1
<1> QED BY <1>1, <1>2, <1>3

LEMMA ReceiverRequests ==
    ASSUME NEW address, NEW receiver, receiver # "*", NEW protocol \in {"TCP", "UDP"}
    PROVE  Requests(getReceiverServicePort(address, receiver, protocol))
<1>1. ASSUME NEW first, NEW third, NEW number
      PROVE  Requests(<<[ports |-> {Port(<<first, receiver, third>>, number, protocol)}, alone |-> FALSE]>>)
  <2> DEFINE p == Port(<<first, receiver, third>>, number, protocol)
             r == [ports |-> {p}, alone |-> FALSE]
  <2>1. p.protocol = protocol /\ IsValidPortName(p.name)
    BY DEF Port, IsValidPortName
  <2> HIDE DEF p
  <2>2. r.ports = {p}
    OBVIOUS
  <2> HIDE DEF r
  <2>3. Request(r)
    BY <2>1, <2>2 DEF Request
  <2> QED BY <2>3, OneRequest DEF r, p
<1>2. CASE address = Unparsable
  <2>1. getReceiverServicePort(address, receiver, protocol) = <<>>
    BY <1>2 DEF getReceiverServicePort
  <2> QED BY <2>1, NoRequests
<1>3. CASE address # Unparsable
  <2> DEFINE number == IF address = 0 THEN receiverDefaultPortsMap[receiver] ELSE address
             first == IF address = 0 \/ receiver \in {OtlpGrpc, OtlpHttp} THEN "" ELSE "cwa"
             third == IF address # 0 /\ receiver \in {OtlpGrpc, OtlpHttp} THEN number ELSE 0
             name  == IF address = 0
                        THEN <<"", receiver, 0>>
                        ELSE IF receiver \in {OtlpGrpc, OtlpHttp}
                               THEN <<"", receiver, number>>
                               ELSE <<"cwa", receiver, 0>>
  <2>1. getReceiverServicePort(address, receiver, protocol) =
          <<[ports |-> {Port(name, number, protocol)}, alone |-> FALSE]>>
    BY <1>3, Zenon DEF getReceiverServicePort
  <2>2. name = <<first, receiver, third>>
    OBVIOUS
  <2> HIDE DEF name, first, third
  <2> QED BY <1>1, <2>1, <2>2
<1> QED BY <1>2, <1>3

Receivers ==
    {StatsD, CollectD, XrayProxy, XrayTraces, OtlpGrpc, OtlpHttp, AppSignalsGrpc, AppSignalsHttp,
     AppSignalsProxy, JmxHttp, Server}

LEMMA ReceiverNames == \A receiver \in Receivers : receiver # "*"
BY DEF Receivers, StatsD, CollectD, XrayProxy, XrayTraces, OtlpGrpc, OtlpHttp, AppSignalsGrpc,
       AppSignalsHttp, AppSignalsProxy, JmxHttp, Server

LEMMA OtlpRequests ==
    ASSUME NEW cfg, NEW section
    PROVE  Requests(otlpPorts(cfg, section))
BY ReceiverRequests, ReceiverNames, MoreRequests, NoRequests DEF otlpPorts, Receivers

LEMMA SignalsRequests ==
    ASSUME NEW cfg
    PROVE  Requests(getApplicationSignalsReceiversServicePorts(cfg))
<1> DEFINE one(receiver) == getReceiverServicePort(0, receiver, "TCP")
           signals == IF Has(cfg, "traces.application_signals") \/ Has(cfg, "logs.application_signals")
                        THEN one(AppSignalsGrpc) \o one(AppSignalsHttp) \o one(Server) ELSE <<>>
           proxy == IF Has(cfg, "traces.application_signals") THEN one(AppSignalsProxy) ELSE <<>>
<1>1. \A receiver \in Receivers : Requests(one(receiver))
  BY ReceiverRequests, ReceiverNames
<1>2. getApplicationSignalsReceiversServicePorts(cfg) = signals \o proxy
  BY DEF getApplicationSignalsReceiversServicePorts
<1> HIDE DEF one
<1>3. Requests(signals) /\ Requests(proxy)
  BY <1>1, MoreRequests, NoRequests DEF Receivers
<1> HIDE DEF signals, proxy
<1> QED BY <1>2, <1>3, MoreRequests

LEMMA MetricsRequests ==
    ASSUME NEW cfg
    PROVE  Requests(getMetricsReceiversServicePorts(cfg))
<1> DEFINE one(section, receiver) ==
             IF Has(cfg, section)
               THEN getReceiverServicePort(cfg.sections[section].address, receiver, "UDP")
               ELSE <<>>
           jmx == IF Has(cfg, "metrics.jmx") THEN getReceiverServicePort(0, JmxHttp, "TCP") ELSE <<>>
<1>1. \A section : \A receiver \in Receivers : Requests(one(section, receiver))
  BY ReceiverRequests, ReceiverNames, NoRequests
<1>3. Requests(jmx)
  BY ReceiverRequests, ReceiverNames, NoRequests DEF Receivers
<1>2. getMetricsReceiversServicePorts(cfg) =
        one("metrics.statsd", StatsD) \o one("metrics.collectd", CollectD)
          \o otlpPorts(cfg, "metrics.otlp") \o jmx
  BY DEF getMetricsReceiversServicePorts
<1> HIDE DEF one, jmx
<1> QED BY <1>1, <1>2, <1>3, OtlpRequests, MoreRequests DEF Receivers

LEMMA LogsRequests ==
    ASSUME NEW cfg
    PROVE  Requests(getLogsReceiversServicePorts(cfg))
<1> DEFINE tcp == Port(<<"", "emf-tcp", 0>>, EMFPort, "TCP")
           udp == Port(<<"", "emf-udp", 0>>, EMFPort, "UDP")
           jmx == Port(<<"", JmxHttp, 0>>, receiverDefaultPortsMap[JmxHttp], "TCP")
           emfs == [ports |-> {tcp, udp}, alone |-> TRUE]
           jmxs == [ports |-> {jmx}, alone |-> TRUE]
           first == IF Has(cfg, "logs.emf") THEN <<emfs>> ELSE <<>>
           last  == IF Has(cfg, "logs.kubernetes") /\ cfg.sections["logs.kubernetes"].jmx
                      THEN <<jmxs>> ELSE <<>>
<1>1. /\ tcp.protocol = "TCP" /\ udp.protocol = "UDP" /\ jmx.protocol = "TCP"
      /\ IsValidPortName(tcp.name) /\ IsValidPortName(udp.name) /\ IsValidPortName(jmx.name)
  BY DEF Port, IsValidPortName, JmxHttp
<1>2. getLogsReceiversServicePorts(cfg) = first \o otlpPorts(cfg, "logs.otlp") \o last
  BY DEF getLogsReceiversServicePorts
<1> HIDE DEF tcp, udp, jmx
<1>3. Request(emfs) /\ Request(jmxs)
  BY <1>1 DEF Request
<1> HIDE DEF emfs, jmxs
<1>4. Requests(first) /\ Requests(last)
  BY <1>3, OneRequest, NoRequests
<1> HIDE DEF first, last
<1> QED BY <1>2, <1>4, OtlpRequests, MoreRequests

LEMMA TracesRequests ==
    ASSUME NEW cfg
    PROVE  Requests(getTracesReceiversServicePorts(cfg))
<1> DEFINE xray == cfg.sections["traces.xray"]
           last == IF Has(cfg, "traces.xray")
                     THEN getReceiverServicePort(xray.bind, XrayTraces, "UDP")
                            \o getReceiverServicePort(xray.proxy, XrayProxy, "TCP")
                     ELSE <<>>
<1>1. Requests(last)
  BY ReceiverRequests, ReceiverNames, MoreRequests, NoRequests DEF Receivers
<1>2. getTracesReceiversServicePorts(cfg) = otlpPorts(cfg, "traces.otlp") \o last
  BY DEF getTracesReceiversServicePorts
<1> HIDE DEF last
<1> QED BY <1>1, <1>2, OtlpRequests, MoreRequests DEF Receivers

LEMMA AskedRequests ==
    ASSUME NEW cfg
    PROVE  Requests(Asked(cfg))
BY SignalsRequests, MetricsRequests, LogsRequests, TracesRequests, MoreRequests DEF Asked

\* Two ports that are granted differ in their number or their protocol.
LEMMA GrantedApart ==
    ASSUME NEW asked, Requests(asked), NEW p \in Granted(asked), NEW q \in Granted(asked),
           p.port = q.port, p.protocol = q.protocol
    PROVE  p = q
<1> DEFINE taken(k, j) == \E x \in asked[k].ports, y \in asked[j].ports :
                             x.port = y.port /\ (asked[k].alone \/ x.protocol = y.protocol)
           lost(k)     == asked[k].alone /\ \E j \in 1 .. k - 1 : taken(k, j)
           granted(k)  == ~lost(k) /\ \A j \in 1 .. k - 1 : lost(j) \/ ~taken(k, j)
<1>1. /\ \E k \in DOMAIN asked : granted(k) /\ p \in asked[k].ports
      /\ \E k \in DOMAIN asked : granted(k) /\ q \in asked[k].ports
  BY DEF Granted
<1>2. PICK k \in DOMAIN asked : granted(k) /\ p \in asked[k].ports
  BY <1>1
<1>3. PICK j \in DOMAIN asked : granted(j) /\ q \in asked[j].ports
  BY <1>1
<1>4. k \in Nat /\ j \in Nat /\ k >= 1 /\ j >= 1 /\ Request(asked[k])
  BY EachRequest, <1>2, <1>3
<1>5. CASE k = j
  BY <1>2, <1>3, <1>4, <1>5 DEF Request
<1>6. taken(k, j) /\ taken(j, k)
  BY <1>2, <1>3
<1>7. granted(k) /\ granted(j)
  BY <1>2, <1>3
<1> HIDE DEF taken
<1>8. CASE j < k
  <2>1. j \in 1 .. k - 1
    BY <1>4, <1>8
  <2> QED BY <1>6, <1>7, <2>1
<1>9. CASE k < j
  <2>1. k \in 1 .. j - 1
    BY <1>4, <1>9
  <2> QED BY <1>6, <1>7, <2>1
<1> QED BY <1>4, <1>5, <1>8, <1>9

LEMMA GrantedProtocol ==
    ASSUME NEW asked, Requests(asked), NEW p \in Granted(asked)
    PROVE  p.protocol \in {"TCP", "UDP"}
<1>1. PICK k \in DOMAIN asked : p \in asked[k].ports
  BY DEF Granted
<1> QED BY <1>1, EachRequest DEF Request

\* The ports of the agent's own configuration never clash with each other.
LEMMA OwnPortsApart ==
    ASSUME NEW cfg
    PROVE  ~PortsClash(getServicePortsFromCWAgentConfig(cfg))
<1> SUFFICES ASSUME NEW p \in Granted(Asked(cfg)), NEW q \in Granted(Asked(cfg)),
                    p.port = q.port, Transport(p) = Transport(q)
             PROVE  p = q
  BY DEF PortsClash, getServicePortsFromCWAgentConfig
<1>1. p.protocol = q.protocol
  BY GrantedProtocol, AskedRequests DEF Transport
<1> QED BY <1>1, GrantedApart, AskedRequests

\* Ports that are added one after another.
Adding(g, n, ports, more) ==
    g = [k \in 0 .. n |-> IF k = 0 THEN ports ELSE WithPort(g[k - 1], more[k])]

LEMMA AddingExists ==
    ASSUME NEW ports, NEW more, NEW len \in Nat
    PROVE  \E g : Adding(g, len, ports, more)
<1> DEFINE P(n) == \E g : Adding(g, n, ports, more)
           T == {n \in Nat : P(n)}
<1>1. P(0)
  <2> DEFINE g == [k \in 0 .. 0 |-> ports]
  <2>1. g = [k \in 0 .. 0 |-> IF k = 0 THEN ports ELSE WithPort(g[k - 1], more[k])]
    OBVIOUS
  <2> HIDE DEF g
  <2> QED BY <2>1 DEF Adding
<1>2. ASSUME NEW n \in Nat, P(n) PROVE P(n + 1)
  <2>1. PICK g : g = [k \in 0 .. n |-> IF k = 0 THEN ports ELSE WithPort(g[k - 1], more[k])]
    BY <1>2 DEF Adding
  <2> DEFINE h == [k \in 0 .. n + 1 |-> IF k <= n THEN g[k] ELSE WithPort(g[n], more[n + 1])]
  <2>2. ASSUME NEW k \in 0 .. n + 1
        PROVE  h[k] = IF k = 0 THEN ports ELSE WithPort(h[k - 1], more[k])
    <3>1. CASE k = 0
      BY <2>1, <3>1
    <3>2. CASE k # 0 /\ k <= n
      <4>1. g[k] = WithPort(g[k - 1], more[k])
        BY <2>1, <3>2
      <4>2. h[k - 1] = g[k - 1] /\ h[k] = g[k]
        BY <3>2
      <4> QED BY <3>2, <4>1, <4>2
    <3>3. CASE k = n + 1
      <4>1. h[k - 1] = g[n] /\ h[k] = WithPort(g[n], more[n + 1])
        BY <3>3
      <4> QED BY <3>3, <4>1
    <3> QED BY <3>1, <3>2, <3>3
  <2>3. h = [k \in 0 .. n + 1 |-> h[k]]
    OBVIOUS
  <2> HIDE DEF h
  <2>4. h = [k \in 0 .. n + 1 |-> IF k = 0 THEN ports ELSE WithPort(h[k - 1], more[k])]
    BY <2>2, <2>3
  <2> QED BY <2>4 DEF Adding
<1>3. T = Nat
  <2>1. T \subseteq Nat /\ 0 \in T
    BY <1>1
  <2>2. \A n \in T : n + 1 \in T
    BY <1>2
  <2> HIDE DEF T
  <2> QED BY <2>1, <2>2, FromZero
<1> QED BY <1>3

LEMMA WithPortsUnfolds ==
    ASSUME NEW ports, NEW more, Len(more) \in Nat
    PROVE  \E g : Adding(g, Len(more), ports, more) /\ WithPorts(ports, more) = g[Len(more)]
<1> DEFINE c == CHOOSE g : Adding(g, Len(more), ports, more)
<1>1. Adding(c, Len(more), ports, more)
  BY AddingExists, Zenon
<1>2. WithPorts(ports, more) = c[Len(more)]
  BY Zenon DEF WithPorts, Adding
<1> HIDE DEF c
<1> QED BY <1>1, <1>2

\* Adding ports puts no others there, and takes one away only for one of its name.
LEMMA PortsAdded ==
    ASSUME NEW ports, NEW S, NEW more \in Seq(S)
    PROVE  /\ WithPorts(ports, more) \subseteq ports \cup ToSet(more)
           /\ \A p \in ports : p \in WithPorts(ports, more) \/ \E q \in ToSet(more) : q.name = p.name
           /\ \A p \in WithPorts(ports, more) : p \in ports \/ IsValidPortNum(p.port)
<1> DEFINE good(there) ==
             /\ \A p \in there : p \in ports \/ IsValidPortNum(p.port)
             /\ there \subseteq ports \cup ToSet(more)
             /\ \A p \in ports : p \in there \/ \E q \in ToSet(more) : q.name = p.name
<1>1. Len(more) \in Nat /\ DOMAIN more = 1 .. Len(more)
  OBVIOUS
<1>2. PICK g : Adding(g, Len(more), ports, more) /\ WithPorts(ports, more) = g[Len(more)]
  BY <1>1, WithPortsUnfolds
<1>3. g[0] = ports /\ \A k \in 1 .. Len(more) : g[k] = WithPort(g[k - 1], more[k])
  <2>1. \A k \in 0 .. Len(more) : g[k] = IF k = 0 THEN ports ELSE WithPort(g[k - 1], more[k])
    BY <1>2 DEF Adding
  <2> QED BY <1>1, <2>1
<1>4. ASSUME NEW there, NEW p \in ToSet(more), good(there) PROVE good(WithPort(there, p))
  BY <1>4 DEF WithPort, WithoutNames
<1>5. \A k \in 1 .. Len(more) : more[k] \in ToSet(more)
  BY <1>1 DEF ToSet
<1>6. good(ports)
  OBVIOUS
<1> HIDE DEF good
<1> DEFINE T == {n \in Nat : n <= Len(more) => good(g[n])}
<1>7. T = Nat
  <2>1. T \subseteq Nat /\ 0 \in T
    BY <1>3, <1>6
  <2>2. ASSUME NEW n \in T PROVE n + 1 \in T
    <3>1. CASE n + 1 <= Len(more)
      <4>1. n + 1 \in 1 .. Len(more) /\ (n + 1) - 1 = n
        BY <1>1, <3>1
      <4>2. g[n + 1] = WithPort(g[n], more[n + 1]) /\ more[n + 1] \in ToSet(more)
        BY <1>3, <1>5, <4>1
      <4>3. good(g[n])
        BY <1>1, <3>1
      <4> QED BY <1>4, <4>2, <4>3
    <3> QED BY <3>1
  <2> HIDE DEF T
  <2> QED BY <2>1, <2>2, FromZero
<1>8. good(g[Len(more)])
  BY <1>1, <1>7
<1> QED BY <1>2, <1>8 DEF good

\* The ports of an OpenTelemetry configuration are a sequence.
IsSequence(s) == \E T : s \in Seq(T)

LEMMA Empty == IsSequence(<<>>)
<1> DEFINE T == {}
<1>1. <<>> \in Seq(T)
  OBVIOUS
<1> HIDE DEF T
<1> QED BY <1>1 DEF IsSequence

LEMMA Single ==
    ASSUME NEW x
    PROVE  IsSequence(<<x>>)
<1> DEFINE T == {x}
<1>1. <<x>> \in Seq(T)
  OBVIOUS
<1> HIDE DEF T
<1> QED BY <1>1 DEF IsSequence

LEMMA Joined ==
    ASSUME NEW s, NEW t, IsSequence(s), IsSequence(t)
    PROVE  IsSequence(s \o t)
<1>1. PICK S : s \in Seq(S)
  BY DEF IsSequence
<1>2. PICK T : t \in Seq(T)
  BY DEF IsSequence
<1>3. s \in Seq(S \cup T) /\ t \in Seq(S \cup T)
  BY <1>1, <1>2
<1>4. s \o t \in Seq(S \cup T)
  BY <1>3
<1> QED BY <1>4 DEF IsSequence

Flattening(g, n, seqs) == g = [i \in 1 .. n |-> IF i = 1 THEN seqs[i] ELSE g[i - 1] \o seqs[i]]

LEMMA FlatteningExists ==
    ASSUME NEW seqs, NEW len \in Nat
    PROVE  \E g : Flattening(g, len, seqs)
<1> DEFINE P(n) == \E g : Flattening(g, n, seqs)
           T == {n \in Nat : P(n)}
<1>1. P(0)
  <2> DEFINE g == [i \in 1 .. 0 |-> seqs[i]]
  <2>1. g = [i \in 1 .. 0 |-> IF i = 1 THEN seqs[i] ELSE g[i - 1] \o seqs[i]]
    OBVIOUS
  <2> HIDE DEF g
  <2> QED BY <2>1 DEF Flattening
<1>2. ASSUME NEW n \in Nat, P(n) PROVE P(n + 1)
  <2>1. PICK g : g = [i \in 1 .. n |-> IF i = 1 THEN seqs[i] ELSE g[i - 1] \o seqs[i]]
    BY <1>2 DEF Flattening
  <2>0. \A i \in 1 .. n : g[i] = IF i = 1 THEN seqs[i] ELSE g[i - 1] \o seqs[i]
    BY <2>1
  <2> DEFINE h == [i \in 1 .. n + 1 |->
                     IF i <= n THEN g[i] ELSE IF i = 1 THEN seqs[i] ELSE g[n] \o seqs[n + 1]]
  <2>2. ASSUME NEW i \in 1 .. n + 1
        PROVE  h[i] = IF i = 1 THEN seqs[i] ELSE h[i - 1] \o seqs[i]
    <3>1. CASE i <= n
      <4>1. g[i] = IF i = 1 THEN seqs[i] ELSE g[i - 1] \o seqs[i]
        <5>1. i \in 1 .. n
          BY <3>1
        <5> QED BY <2>0, <5>1
      <4>2. h[i] = g[i] /\ (i # 1 => h[i - 1] = g[i - 1])
        BY <3>1
      <4> QED BY <4>1, <4>2
    <3>2. CASE i = n + 1
      <4>1. h[i] = IF i = 1 THEN seqs[i] ELSE g[n] \o seqs[n + 1]
        BY <3>2
      <4>2. i # 1 => h[i - 1] = g[n]
        BY <3>2
      <4> QED BY <3>2, <4>1, <4>2
    <3> QED BY <3>1, <3>2
  <2>3. h = [i \in 1 .. n + 1 |-> h[i]]
    OBVIOUS
  <2> HIDE DEF h
  <2>4. h = [i \in 1 .. n + 1 |-> IF i = 1 THEN seqs[i] ELSE h[i - 1] \o seqs[i]]
    BY <2>2, <2>3
  <2> QED BY <2>4 DEF Flattening
<1>3. T = Nat
  <2>1. T \subseteq Nat /\ 0 \in T
    BY <1>1
  <2>2. \A n \in T : n + 1 \in T
    BY <1>2
  <2> HIDE DEF T
  <2> QED BY <2>1, <2>2, FromZero
<1> QED BY <1>3

LEMMA Flattened ==
    ASSUME NEW S, NEW seqs \in Seq(S), \A s \in S : IsSequence(s)
    PROVE  IsSequence(FlattenSeq(seqs))
<1>1. Len(seqs) \in Nat /\ \A i \in 1 .. Len(seqs) : IsSequence(seqs[i])
  OBVIOUS
<1>2. CASE Len(seqs) = 0
  <2>1. FlattenSeq(seqs) = seqs
    BY <1>2, Zenon DEF FlattenSeq
  <2> QED BY <2>1 DEF IsSequence
<1>3. CASE Len(seqs) # 0
  <2> DEFINE g == CHOOSE f : Flattening(f, Len(seqs), seqs)
  <2>1. Flattening(g, Len(seqs), seqs)
    BY <1>1, FlatteningExists, Zenon
  <2>2. FlattenSeq(seqs) = g[Len(seqs)]
    BY <1>3, Zenon DEF FlattenSeq, Flattening
  <2> HIDE DEF g
  <2>3. \A i \in 1 .. Len(seqs) : g[i] = IF i = 1 THEN seqs[i] ELSE g[i - 1] \o seqs[i]
    BY <2>1 DEF Flattening
  <2> DEFINE T == {n \in Nat : n + 1 <= Len(seqs) => IsSequence(g[n + 1])}
  <2>4. T = Nat
    <3>1. T \subseteq Nat /\ 0 \in T
      BY <1>1, <1>3, <2>3
    <3>2. ASSUME NEW n \in T PROVE n + 1 \in T
      <4>1. CASE n + 2 <= Len(seqs)
        <5>1. n + 2 \in 1 .. Len(seqs) /\ n + 2 # 1 /\ (n + 2) - 1 = n + 1
          BY <1>1, <4>1
        <5>2. g[n + 2] = g[n + 1] \o seqs[n + 2]
          BY <2>3, <5>1
        <5>3. IsSequence(g[n + 1])
          BY <1>1, <4>1
        <5>4. IsSequence(g[n + 2])
          BY <1>1, <5>1, <5>2, <5>3, Joined
        <5>5. (n + 1) + 1 = n + 2
          OBVIOUS
        <5> QED BY <5>4, <5>5
      <4>2. CASE ~(n + 2 <= Len(seqs))
        <5>1. ~((n + 1) + 1 <= Len(seqs))
          BY <1>1, <4>2
        <5> QED BY <5>1
      <4> QED BY <4>1, <4>2
    <3> HIDE DEF T
    <3> QED BY <3>1, <3>2, FromZero
  <2>5. Len(seqs) - 1 \in Nat /\ (Len(seqs) - 1) + 1 = Len(seqs) /\ Len(seqs) <= Len(seqs)
    BY <1>1, <1>3
  <2>6. Len(seqs) - 1 \in T
    <3> HIDE DEF T
    <3> QED BY <2>4, <2>5
  <2>7. IsSequence(g[(Len(seqs) - 1) + 1])
    BY <2>5, <2>6
  <2> QED BY <2>2, <2>5, <2>7
<1> QED BY <1>2, <1>3

LEMMA ReceiverSequence ==
    ASSUME NEW r
    PROVE  IsSequence(ReceiverPorts(r))
<1>1. IsSequence(OTLPReceiverPorts(r))
  <2> DEFINE n == singlePortFromConfigEndpoint(r, IF r.protocol = "grpc" THEN 4317 ELSE 4318)
             port == Port(PortName(r.name, n), n, IF r.address > 0 THEN "TCP" ELSE "")
  <2>1. OTLPReceiverPorts(r) = IF r.protocol \in {"grpc", "http"} THEN <<port>> ELSE <<>>
    BY Zenon DEF OTLPReceiverPorts
  <2> HIDE DEF n, port
  <2> QED BY <2>1, Empty, Single
<1>2. IsSequence(JaegerReceiverPorts(r))
  BY Empty, Single DEF JaegerReceiverPorts
<1>3. IsSequence(GenericReceiverPorts(r))
  <2> DEFINE default   == CASE r.type = "statsd"  -> 8125 [] r.type = "awsxray" -> 2000
                            [] r.type = "zipkin"  -> 9411 [] OTHER -> 0
             transport == CASE r.type \in {"statsd", "awsxray"} -> "UDP"
                            [] r.type = "zipkin" -> "TCP" [] OTHER -> ""
             n == IF r.id = "prometheus" THEN default ELSE singlePortFromConfigEndpoint(r, default)
             port == Port(PortName(r.name, n), n, transport)
  <2>1. GenericReceiverPorts(r) = IF n = 0 THEN <<>> ELSE <<port>>
    BY DEF GenericReceiverPorts
  <2> HIDE DEF n, port
  <2> QED BY <2>1, Empty, Single
<1> QED BY <1>1, <1>2, <1>3 DEF ReceiverPorts

LEMMA OtelSequence ==
    ASSUME NEW a, WellFormed(a), a.otel # Nil
    PROVE  IsSequence(ConfigToComponentPorts(a.otel))
<1> DEFINE rs == a.otel.receivers
           enabled == getEnabledComponents(a.otel)
           one(k) == IF rs[k].id \in enabled THEN ReceiverPorts(rs[k]) ELSE <<>>
           lists == [k \in DOMAIN rs |-> one(k)]
<1>1. CASE enabled = Nil
  <2>1. ConfigToComponentPorts(a.otel) = <<>>
    BY <1>1 DEF ConfigToComponentPorts
  <2> QED BY <2>1, Empty
<1>2. CASE enabled # Nil
  <2>1. rs # Nil
    BY <1>2 DEF getEnabledComponents
  <2>2. rs \in Seq(ToSet(rs))
    BY <2>1 DEF WellFormed, Submittable, InSchema, Fields, IsOtel
  <2>3. \A k \in DOMAIN rs : IsSequence(one(k))
    BY ReceiverSequence, Empty
  <2>4. ConfigToComponentPorts(a.otel) = FlattenSeq(lists)
    BY <1>2, Zenon DEF ConfigToComponentPorts
  <2> HIDE DEF one, rs
  <2> DEFINE S == {one(k) : k \in DOMAIN rs}
  <2>5. lists \in Seq(S)
    BY <2>2
  <2>6. \A s \in S : IsSequence(s)
    BY <2>3
  <2> HIDE DEF S, lists
  <2> QED BY <2>4, <2>5, <2>6, Flattened
<1> QED BY <1>1, <1>2

\* What is at the agent's ports, and why a valid port of its own configuration is not.
LEMMA PortsComeFrom ==
    ASSUME NEW a, WellFormed(a)
    PROVE  /\ \A p \in AgentPorts(a) : p \in getServicePortsFromCWAgentConfig(a.config) \/ p \in UserPorts(a)
           /\ a.config.parse = "ok" =>
                \A p \in getServicePortsFromCWAgentConfig(a.config) :
                   IsValidPortName(p.name) /\ IsValidPortNum(p.port) =>
                     p \in AgentPorts(a) \/ \E q \in UserPorts(a) : q.name = p.name
<1> DEFINE own == {p \in getServicePortsFromCWAgentConfig(a.config) :
                     IsValidPortName(p.name) /\ IsValidPortNum(p.port)}
           inferred == IF a.otel = Nil \/ ~a.otel.parse THEN <<>> ELSE ConfigToComponentPorts(a.otel)
           added == WithPorts(own, inferred)
           last == {k \in DOMAIN a.ports :
                      \A j \in DOMAIN a.ports : a.ports[j].name = a.ports[k].name => j <= k}
<1>1. AgentPorts(a) =
        IF a.config.parse # "ok"
          THEN {}
          ELSE WithoutNames(added, {p.name : p \in ToSet(a.ports)}) \cup {a.ports[k] : k \in last}
  BY DEF AgentPorts, getContainerPorts
<1>2. IsSequence(inferred)
  BY OtelSequence, Empty
<1>3. /\ ToSet(a.ports) \subseteq UserPorts(a)
      /\ ToSet(inferred) \subseteq UserPorts(a)
  BY DEF UserPorts, ToSet
<1> HIDE DEF inferred
<1>4. /\ added \subseteq own \cup ToSet(inferred)
      /\ \A p \in own : p \in added \/ \E q \in ToSet(inferred) : q.name = p.name
  <2> HIDE DEF own
  <2> QED BY <1>2, PortsAdded DEF IsSequence
<1>5. {a.ports[k] : k \in last} \subseteq ToSet(a.ports)
  BY DEF ToSet
<1> HIDE DEF added, last
<1> QED BY <1>1, <1>3, <1>4, <1>5 DEF WithoutNames

\* All but those of the spec have a number.
LEMMA PortNumbers ==
    ASSUME NEW a, WellFormed(a), NEW p \in AgentPorts(a), ~IsValidPortNum(p.port)
    PROVE  p \in ToSet(a.ports)
<1> DEFINE own == {q \in getServicePortsFromCWAgentConfig(a.config) :
                     IsValidPortName(q.name) /\ IsValidPortNum(q.port)}
           inferred == IF a.otel = Nil \/ ~a.otel.parse THEN <<>> ELSE ConfigToComponentPorts(a.otel)
           added == WithPorts(own, inferred)
           last == {k \in DOMAIN a.ports :
                      \A j \in DOMAIN a.ports : a.ports[j].name = a.ports[k].name => j <= k}
<1>1. AgentPorts(a) =
        IF a.config.parse # "ok"
          THEN {}
          ELSE WithoutNames(added, {q.name : q \in ToSet(a.ports)}) \cup {a.ports[k] : k \in last}
  BY DEF AgentPorts, getContainerPorts
<1>2. IsSequence(inferred)
  BY OtelSequence, Empty
<1>3. {a.ports[k] : k \in last} \subseteq ToSet(a.ports)
  BY DEF ToSet
<1>4. \A q \in own : IsValidPortNum(q.port)
  OBVIOUS
<1> HIDE DEF inferred, own, last
<1>5. \A q \in added : IsValidPortNum(q.port)
  BY <1>2, <1>4, PortsAdded DEF IsSequence
<1> HIDE DEF added
<1> QED BY <1>1, <1>3, <1>5 DEF WithoutNames

LEMMA AgentPortsClash ==
    ASSUME NEW a, WellFormed(a), PortsClash(AgentPorts(a))
    PROVE  ClashingPorts(a)
<1>1. PICK p, q \in AgentPorts(a) : p # q /\ p.port = q.port /\ Transport(p) = Transport(q)
  BY DEF PortsClash
<1>2. p \in UserPorts(a) \/ q \in UserPorts(a)
  BY <1>1, PortsComeFrom, OwnPortsApart DEF PortsClash
<1> QED BY <1>1, <1>2 DEF ClashingPorts

----------------------------------------------------------------------------
\* Every receiver has a port of the agent's.

Where(p) == [port |-> p.port, protocol |-> p.protocol]

\* What a part of the configuration asks for, set against where it listens: requests that
\* yield to others are in A, the rest are for L.
Covers(part, L, A) ==
    /\ IsSequence(part)
    /\ \A l \in L : \E r \in ToSet(part) : ~r.alone /\ \E p \in r.ports : Where(p) = l
    /\ \A r \in ToSet(part) : IF r.alone THEN r \in A ELSE \A p \in r.ports : Where(p) \in L
    /\ A \subseteq ToSet(part)

LEMMA JoinedSet ==
    ASSUME NEW s, NEW t, IsSequence(s), IsSequence(t)
    PROVE  ToSet(s \o t) = ToSet(s) \cup ToSet(t)
<1>1. PICK S : s \in Seq(S)
  BY DEF IsSequence
<1>2. PICK T : t \in Seq(T)
  BY DEF IsSequence
<1>3. s \in Seq(S \cup T) /\ t \in Seq(S \cup T)
  BY <1>1, <1>2
<1>4. /\ Len(s) \in Nat /\ Len(t) \in Nat
      /\ DOMAIN s = 1 .. Len(s) /\ DOMAIN t = 1 .. Len(t)
      /\ DOMAIN (s \o t) = 1 .. Len(s) + Len(t)
      /\ \A i \in 1 .. Len(s) + Len(t) : (s \o t)[i] = IF i <= Len(s) THEN s[i] ELSE t[i - Len(s)]
  BY <1>3
<1>5. ASSUME NEW i \in 1 .. Len(s) PROVE i \in 1 .. Len(s) + Len(t) /\ (s \o t)[i] = s[i]
  BY <1>4
<1>6. ASSUME NEW i \in 1 .. Len(t)
      PROVE  Len(s) + i \in 1 .. Len(s) + Len(t) /\ (s \o t)[Len(s) + i] = t[i]
  <2>1. Len(s) + i \in 1 .. Len(s) + Len(t) /\ ~(Len(s) + i <= Len(s)) /\ (Len(s) + i) - Len(s) = i
    BY <1>4
  <2> QED BY <1>4, <2>1
<1>7. ASSUME NEW i \in 1 .. Len(s) + Len(t)
      PROVE  \/ i \in 1 .. Len(s) /\ (s \o t)[i] = s[i]
             \/ i - Len(s) \in 1 .. Len(t) /\ (s \o t)[i] = t[i - Len(s)]
  BY <1>4
<1>8. /\ ToSet(s) = {s[i] : i \in 1 .. Len(s)} /\ ToSet(t) = {t[i] : i \in 1 .. Len(t)}
      /\ ToSet(s \o t) = {(s \o t)[i] : i \in 1 .. Len(s) + Len(t)}
  BY <1>4 DEF ToSet
<1>9. ToSet(s) \cup ToSet(t) \subseteq ToSet(s \o t)
  BY <1>5, <1>6, <1>8
<1>10. ToSet(s \o t) \subseteq ToSet(s) \cup ToSet(t)
  BY <1>7, <1>8
<1> QED BY <1>9, <1>10

LEMMA CoverNone == Covers(<<>>, {}, {})
<1>1. ToSet(<<>>) = {}
  BY DEF ToSet
<1> QED BY <1>1, Empty DEF Covers

LEMMA CoverJoined ==
    ASSUME NEW s, NEW t, NEW L, NEW M, NEW A, NEW B, Covers(s, L, A), Covers(t, M, B)
    PROVE  Covers(s \o t, L \cup M, A \cup B)
<1>1. IsSequence(s \o t) /\ ToSet(s \o t) = ToSet(s) \cup ToSet(t)
  BY Joined, JoinedSet DEF Covers
<1> DEFINE st == s \o t
<1>2. IsSequence(st) /\ ToSet(st) = ToSet(s) \cup ToSet(t)
  BY <1>1
<1> HIDE DEF st
<1>3. Covers(st, L \cup M, A \cup B)
  BY <1>2 DEF Covers
<1> QED BY <1>3 DEF st

LEMMA CoverReceiver ==
    ASSUME NEW address, NEW receiver, NEW protocol, NEW default,
           receiverDefaultPortsMap[receiver] = default
    PROVE  Covers(getReceiverServicePort(address, receiver, protocol),
                  Listener(address, default, protocol), {})
<1> DEFINE number == IF address = 0 THEN default ELSE address
<1>1. CASE address = Unparsable
  <2>1. /\ getReceiverServicePort(address, receiver, protocol) = <<>>
        /\ Listener(address, default, protocol) = {}
    BY <1>1 DEF getReceiverServicePort, Listener
  <2> QED BY <2>1, CoverNone
<1>2. CASE address # Unparsable
  <2>1. PICK name :
          getReceiverServicePort(address, receiver, protocol) =
            <<[ports |-> {Port(name, number, protocol)}, alone |-> FALSE]>>
    BY <1>2, Zenon DEF getReceiverServicePort
  <2>2. Listener(address, default, protocol) = {[port |-> number, protocol |-> protocol]}
    BY <1>2 DEF Listener
  <2> HIDE DEF number
  <2> DEFINE p == Port(name, number, protocol)
             r == [ports |-> {p}, alone |-> FALSE]
  <2>3. Where(p) = [port |-> number, protocol |-> protocol]
    BY DEF Where, Port
  <2> HIDE DEF p
  <2>4. r.ports = {p} /\ r.alone = FALSE
    OBVIOUS
  <2> HIDE DEF r
  <2>5. ToSet(<<r>>) = {r} /\ IsSequence(<<r>>)
    BY Single DEF ToSet
  <2>6. Covers(<<r>>, {Where(p)}, {})
    BY <2>4, <2>5 DEF Covers
  <2> QED BY <2>1, <2>2, <2>3, <2>6 DEF r, p
<1> QED BY <1>1, <1>2

LEMMA DefaultPorts ==
    /\ receiverDefaultPortsMap[StatsD] = 8125
    /\ receiverDefaultPortsMap[CollectD] = 25826
    /\ receiverDefaultPortsMap[OtlpGrpc] = 4317
    /\ receiverDefaultPortsMap[OtlpHttp] = 4318
    /\ receiverDefaultPortsMap[AppSignalsGrpc] = 4315
    /\ receiverDefaultPortsMap[AppSignalsHttp] = 4316
    /\ receiverDefaultPortsMap[JmxHttp] = 4314
    /\ receiverDefaultPortsMap[Server] = 4311
    /\ receiverDefaultPortsMap[XrayProxy] = 2000
    /\ receiverDefaultPortsMap[XrayTraces] = 2000
    /\ receiverDefaultPortsMap[AppSignalsProxy] = 2000
BY DEF receiverDefaultPortsMap, StatsD, CollectD, OtlpGrpc, OtlpHttp, AppSignalsGrpc,
       AppSignalsHttp, JmxHttp, Server, XrayProxy, XrayTraces, AppSignalsProxy

LEMMA SectionListens ==
    ASSUME NEW cfg
    PROVE  /\ Listens(cfg, "metrics.statsd") = Listener(cfg.sections["metrics.statsd"].address, 8125, "UDP")
           /\ Listens(cfg, "metrics.collectd") = Listener(cfg.sections["metrics.collectd"].address, 25826, "UDP")
           /\ Listens(cfg, "metrics.jmx") = Listener(0, 4314, "TCP")
           /\ \A section \in {"metrics.otlp", "logs.otlp", "traces.otlp"} :
                Listens(cfg, section) = Listener(cfg.sections[section].grpc, 4317, "TCP")
                                          \cup Listener(cfg.sections[section].http, 4318, "TCP")
           /\ Listens(cfg, "traces.xray") = Listener(cfg.sections["traces.xray"].bind, 2000, "UDP")
                                              \cup Listener(cfg.sections["traces.xray"].proxy, 2000, "TCP")
           /\ Listens(cfg, "logs.emf") = Listener(0, EMFPort, "TCP") \cup Listener(0, EMFPort, "UDP")
           /\ Listens(cfg, "logs.kubernetes") =
                IF cfg.sections["logs.kubernetes"].jmx THEN Listener(0, 4314, "TCP") ELSE {}
           /\ Listens(cfg, "logs.application_signals") = AppSignals
           /\ Listens(cfg, "traces.application_signals") = AppSignals \cup Listener(0, 2000, "TCP")
BY DEF Listens

\* Where the agent listens for a section, if it has the section.
On(cfg, section) == IF Has(cfg, section) THEN Listens(cfg, section) ELSE {}

LEMMA OtlpCovered ==
    ASSUME NEW cfg, NEW section \in {"metrics.otlp", "logs.otlp", "traces.otlp"}
    PROVE  Covers(otlpPorts(cfg, section), On(cfg, section), {})
<1> DEFINE grpc == getReceiverServicePort(cfg.sections[section].grpc, OtlpGrpc, "TCP")
           http == getReceiverServicePort(cfg.sections[section].http, OtlpHttp, "TCP")
           L == Listener(cfg.sections[section].grpc, 4317, "TCP")
           M == Listener(cfg.sections[section].http, 4318, "TCP")
<1>1. Covers(grpc, L, {}) /\ Covers(http, M, {})
  BY CoverReceiver, DefaultPorts
<1>2. Listens(cfg, section) = L \cup M
  BY SectionListens
<1>3. otlpPorts(cfg, section) = IF Has(cfg, section) THEN grpc \o http ELSE <<>>
  BY DEF otlpPorts
<1> HIDE DEF grpc, http, L, M
<1>4. Covers(grpc \o http, L \cup M, {} \cup {})
  BY <1>1, CoverJoined
<1>5. Covers(grpc \o http, L \cup M, {})
  BY <1>4
<1> QED BY <1>2, <1>3, <1>5, CoverNone DEF On

\* A part that asks for nothing that would yield, after another.
LEMMA CoverMore ==
    ASSUME NEW s, NEW t, NEW L, NEW M, NEW A, Covers(s, L, A), Covers(t, M, {})
    PROVE  Covers(s \o t, L \cup M, A)
<1>1. Covers(s \o t, L \cup M, A \cup {})
  BY CoverJoined
<1>2. A \cup {} = A
  OBVIOUS
<1> QED BY <1>1, <1>2

LEMMA SignalsCovered ==
    ASSUME NEW cfg
    PROVE  Covers(getApplicationSignalsReceiversServicePorts(cfg),
                  On(cfg, "logs.application_signals") \cup On(cfg, "traces.application_signals"), {})
<1> DEFINE one(receiver) == getReceiverServicePort(0, receiver, "TCP")
           at(number) == Listener(0, number, "TCP")
           traces == Has(cfg, "traces.application_signals")
           some == traces \/ Has(cfg, "logs.application_signals")
           signals == IF some THEN one(AppSignalsGrpc) \o one(AppSignalsHttp) \o one(Server) ELSE <<>>
           proxy == IF traces THEN one(AppSignalsProxy) ELSE <<>>
           L == IF some THEN at(4315) \cup at(4316) \cup at(4311) ELSE {}
           M == IF traces THEN at(2000) ELSE {}
<1>1. /\ Covers(one(AppSignalsGrpc), at(4315), {}) /\ Covers(one(AppSignalsHttp), at(4316), {})
      /\ Covers(one(Server), at(4311), {}) /\ Covers(one(AppSignalsProxy), at(2000), {})
  BY CoverReceiver, DefaultPorts
<1>2. getApplicationSignalsReceiversServicePorts(cfg) = signals \o proxy
  BY DEF getApplicationSignalsReceiversServicePorts
<1>3. On(cfg, "logs.application_signals") \cup On(cfg, "traces.application_signals") = L \cup M
  BY SectionListens DEF On, AppSignals
<1> HIDE DEF one, at
<1>4. Covers(one(AppSignalsGrpc) \o one(AppSignalsHttp), at(4315) \cup at(4316), {})
  BY <1>1, CoverMore
<1>5. Covers(one(AppSignalsGrpc) \o one(AppSignalsHttp) \o one(Server), at(4315) \cup at(4316) \cup at(4311), {})
  BY <1>1, <1>4, CoverMore
<1>6. Covers(signals, L, {}) /\ Covers(proxy, M, {})
  BY <1>1, <1>5, CoverNone
<1> HIDE DEF signals, proxy, L, M
<1> QED BY <1>2, <1>3, <1>6, CoverMore

LEMMA MetricsCovered ==
    ASSUME NEW cfg
    PROVE  Covers(getMetricsReceiversServicePorts(cfg),
                  On(cfg, "metrics.statsd") \cup On(cfg, "metrics.collectd")
                    \cup On(cfg, "metrics.otlp") \cup On(cfg, "metrics.jmx"), {})
<1> DEFINE one(section, receiver) ==
             IF Has(cfg, section)
               THEN getReceiverServicePort(cfg.sections[section].address, receiver, "UDP")
               ELSE <<>>
           jmx == IF Has(cfg, "metrics.jmx") THEN getReceiverServicePort(0, JmxHttp, "TCP") ELSE <<>>
           on(section) == On(cfg, section)
<1>1. Covers(one("metrics.statsd", StatsD), on("metrics.statsd"), {})
  BY CoverReceiver, CoverNone, DefaultPorts, SectionListens DEF On
<1>2. Covers(one("metrics.collectd", CollectD), on("metrics.collectd"), {})
  BY CoverReceiver, CoverNone, DefaultPorts, SectionListens DEF On
<1>3. Covers(jmx, on("metrics.jmx"), {})
  BY CoverReceiver, CoverNone, DefaultPorts, SectionListens DEF On
<1>4. Covers(otlpPorts(cfg, "metrics.otlp"), on("metrics.otlp"), {})
  BY OtlpCovered
<1>5. getMetricsReceiversServicePorts(cfg) =
        one("metrics.statsd", StatsD) \o one("metrics.collectd", CollectD)
          \o otlpPorts(cfg, "metrics.otlp") \o jmx
  BY DEF getMetricsReceiversServicePorts
<1> HIDE DEF one, on, jmx
<1>6. Covers(one("metrics.statsd", StatsD) \o one("metrics.collectd", CollectD),
             on("metrics.statsd") \cup on("metrics.collectd"), {})
  BY <1>1, <1>2, CoverMore
<1>7. Covers(one("metrics.statsd", StatsD) \o one("metrics.collectd", CollectD)
               \o otlpPorts(cfg, "metrics.otlp"),
             on("metrics.statsd") \cup on("metrics.collectd") \cup on("metrics.otlp"), {})
  BY <1>4, <1>6, CoverMore
<1>8. Covers(getMetricsReceiversServicePorts(cfg),
             on("metrics.statsd") \cup on("metrics.collectd") \cup on("metrics.otlp")
               \cup on("metrics.jmx"), {})
  BY <1>3, <1>5, <1>7, CoverMore
<1> QED BY <1>8 DEF on

\* The two requests that yield.
EMFRequest ==
    [ports |-> {Port(<<"", "emf-tcp", 0>>, EMFPort, "TCP"), Port(<<"", "emf-udp", 0>>, EMFPort, "UDP")},
     alone |-> TRUE]

JMXRequest ==
    [ports |-> {Port(<<"", JmxHttp, 0>>, receiverDefaultPortsMap[JmxHttp], "TCP")}, alone |-> TRUE]

Yielding(cfg) ==
    (IF Has(cfg, "logs.emf") THEN {EMFRequest} ELSE {})
      \cup (IF Has(cfg, "logs.kubernetes") /\ cfg.sections["logs.kubernetes"].jmx THEN {JMXRequest} ELSE {})

LEMMA CoverAlone ==
    ASSUME NEW r, r.alone
    PROVE  Covers(<<r>>, {}, {r})
<1>1. ToSet(<<r>>) = {r} /\ IsSequence(<<r>>)
  BY Single DEF ToSet
<1> QED BY <1>1 DEF Covers

LEMMA LogsCovered ==
    ASSUME NEW cfg
    PROVE  Covers(getLogsReceiversServicePorts(cfg), On(cfg, "logs.otlp"), Yielding(cfg))
<1> DEFINE emf == Has(cfg, "logs.emf")
           jmx == Has(cfg, "logs.kubernetes") /\ cfg.sections["logs.kubernetes"].jmx
           first == IF emf THEN <<EMFRequest>> ELSE <<>>
           last  == IF jmx THEN <<JMXRequest>> ELSE <<>>
           A == IF emf THEN {EMFRequest} ELSE {}
           B == IF jmx THEN {JMXRequest} ELSE {}
           otlp == otlpPorts(cfg, "logs.otlp")
           L == On(cfg, "logs.otlp")
<1>1. EMFRequest.alone /\ JMXRequest.alone
  BY DEF EMFRequest, JMXRequest
<1>2. Covers(first, {}, A) /\ Covers(last, {}, B)
  BY <1>1, CoverAlone, CoverNone
<1>3. Covers(otlp, L, {})
  BY OtlpCovered
<1>4. getLogsReceiversServicePorts(cfg) = first \o otlp \o last
  BY DEF getLogsReceiversServicePorts, EMFRequest, JMXRequest
<1>5. Yielding(cfg) = A \cup B
  BY DEF Yielding
<1> HIDE DEF first, last, A, B, otlp, L
<1>6. Covers(first \o otlp, {} \cup L, A)
  BY <1>2, <1>3, CoverMore
<1>7. Covers(first \o otlp \o last, ({} \cup L) \cup {}, A \cup B)
  BY <1>2, <1>6, CoverJoined
<1>8. ({} \cup L) \cup {} = L
  OBVIOUS
<1> QED BY <1>4, <1>5, <1>7, <1>8 DEF L

LEMMA TracesCovered ==
    ASSUME NEW cfg
    PROVE  Covers(getTracesReceiversServicePorts(cfg),
                  On(cfg, "traces.otlp") \cup On(cfg, "traces.xray"), {})
<1> DEFINE xray == cfg.sections["traces.xray"]
           bind == getReceiverServicePort(xray.bind, XrayTraces, "UDP")
           proxy == getReceiverServicePort(xray.proxy, XrayProxy, "TCP")
           last == IF Has(cfg, "traces.xray") THEN bind \o proxy ELSE <<>>
<1>1. Covers(bind, Listener(xray.bind, 2000, "UDP"), {}) /\ Covers(proxy, Listener(xray.proxy, 2000, "TCP"), {})
  BY CoverReceiver, DefaultPorts
<1>2. getTracesReceiversServicePorts(cfg) = otlpPorts(cfg, "traces.otlp") \o last
  BY DEF getTracesReceiversServicePorts
<1>3. Covers(otlpPorts(cfg, "traces.otlp"), On(cfg, "traces.otlp"), {})
  BY OtlpCovered
<1>4. Listens(cfg, "traces.xray") = Listener(xray.bind, 2000, "UDP") \cup Listener(xray.proxy, 2000, "TCP")
  BY SectionListens
<1> HIDE DEF bind, proxy, xray
<1>5. Covers(bind \o proxy, Listens(cfg, "traces.xray"), {})
  BY <1>1, <1>4, CoverMore
<1>6. Covers(last, On(cfg, "traces.xray"), {})
  BY <1>5, CoverNone DEF On
<1> HIDE DEF last
<1> QED BY <1>2, <1>3, <1>6, CoverMore

\* Where the agent listens for the sake of all the sections that do not yield.
Firm(cfg) ==
    (On(cfg, "logs.application_signals") \cup On(cfg, "traces.application_signals"))
      \cup (On(cfg, "metrics.statsd") \cup On(cfg, "metrics.collectd")
              \cup On(cfg, "metrics.otlp") \cup On(cfg, "metrics.jmx"))
      \cup On(cfg, "logs.otlp") \cup (On(cfg, "traces.otlp") \cup On(cfg, "traces.xray"))

LEMMA AskedCovered ==
    ASSUME NEW cfg
    PROVE  Covers(Asked(cfg), Firm(cfg), Yielding(cfg))
<1> DEFINE signals == getApplicationSignalsReceiversServicePorts(cfg)
           metrics == getMetricsReceiversServicePorts(cfg)
           logs    == getLogsReceiversServicePorts(cfg)
           traces  == getTracesReceiversServicePorts(cfg)
           S == On(cfg, "logs.application_signals") \cup On(cfg, "traces.application_signals")
           M == On(cfg, "metrics.statsd") \cup On(cfg, "metrics.collectd")
                  \cup On(cfg, "metrics.otlp") \cup On(cfg, "metrics.jmx")
           L == On(cfg, "logs.otlp")
           T == On(cfg, "traces.otlp") \cup On(cfg, "traces.xray")
           A == Yielding(cfg)
<1>1. Covers(signals, S, {}) /\ Covers(metrics, M, {}) /\ Covers(logs, L, A) /\ Covers(traces, T, {})
  BY SignalsCovered, MetricsCovered, LogsCovered, TracesCovered
<1>2. Asked(cfg) = signals \o metrics \o logs \o traces
  BY DEF Asked
<1>3. Firm(cfg) = S \cup M \cup L \cup T
  BY DEF Firm
<1> HIDE DEF signals, metrics, logs, traces, S, M, L, T, A
<1>4. Covers(signals \o metrics, S \cup M, {})
  BY <1>1, CoverMore
<1>5. Covers(signals \o metrics \o logs, S \cup M \cup L, {} \cup A)
  BY <1>1, <1>4, CoverJoined
<1>6. Covers(signals \o metrics \o logs \o traces, S \cup M \cup L \cup T, {} \cup A)
  BY <1>1, <1>5, CoverMore
<1>7. {} \cup A = A
  OBVIOUS
<1> QED BY <1>2, <1>3, <1>6, <1>7 DEF A

\* A request that yields is granted, or an earlier one has its number.
LEMMA AloneGranted ==
    ASSUME NEW asked, Requests(asked), NEW k \in DOMAIN asked, asked[k].alone
    PROVE  \/ asked[k].ports \subseteq Granted(asked)
           \/ \E j \in DOMAIN asked : /\ j < k
                                      /\ \E p \in asked[k].ports, q \in asked[j].ports : p.port = q.port
<1> DEFINE taken(n, j) == \E x \in asked[n].ports, y \in asked[j].ports :
                             x.port = y.port /\ (asked[n].alone \/ x.protocol = y.protocol)
           lost(n)     == asked[n].alone /\ \E j \in 1 .. n - 1 : taken(n, j)
           granted(n)  == ~lost(n) /\ \A j \in 1 .. n - 1 : lost(j) \/ ~taken(n, j)
<1>1. Granted(asked) = UNION {asked[n].ports : n \in {m \in DOMAIN asked : granted(m)}}
  BY DEF Granted
<1>2. PICK T : asked \in Seq(T)
  BY DEF Requests
<1>3. k \in 1 .. Len(asked) /\ Len(asked) \in Nat /\ DOMAIN asked = 1 .. Len(asked)
  BY <1>2
<1>4. CASE \E j \in 1 .. k - 1 : taken(k, j)
  <2>1. PICK j \in 1 .. k - 1 : taken(k, j)
    BY <1>4
  <2>2. j \in DOMAIN asked /\ j < k
    BY <1>3
  <2> QED BY <2>1, <2>2
<1>5. CASE \A j \in 1 .. k - 1 : ~taken(k, j)
  <2>1. granted(k)
    BY <1>5
  <2> HIDE DEF granted
  <2> QED BY <1>1, <2>1
<1> QED BY <1>4, <1>5

\* Whatever a request that does not yield asks for is granted, to it or to another.
LEMMA FirmGranted ==
    ASSUME NEW asked, Requests(asked), NEW r \in ToSet(asked), ~r.alone, NEW p \in r.ports
    PROVE  \E q \in Granted(asked) : Where(q) = Where(p)
<1> DEFINE taken(n, j) == \E x \in asked[n].ports, y \in asked[j].ports :
                             x.port = y.port /\ (asked[n].alone \/ x.protocol = y.protocol)
           lost(n)     == asked[n].alone /\ \E j \in 1 .. n - 1 : taken(n, j)
           granted(n)  == ~lost(n) /\ \A j \in 1 .. n - 1 : lost(j) \/ ~taken(n, j)
           wanted(n)   == ~asked[n].alone /\ \E q \in asked[n].ports : Where(q) = Where(p)
           T == {n \in DOMAIN asked : wanted(n)}
<1>1. \A n \in DOMAIN asked : granted(n) => asked[n].ports \subseteq Granted(asked)
  BY DEF Granted
<1>2. PICK S : asked \in Seq(S)
  BY DEF Requests
<1>3. Len(asked) \in Nat /\ DOMAIN asked = 1 .. Len(asked)
  BY <1>2
<1>4. T \subseteq Nat /\ T # {}
  <2>1. PICK n \in DOMAIN asked : asked[n] = r
    BY DEF ToSet
  <2>2. n \in T
    BY <2>1
  <2> QED BY <1>3, <2>2
<1>5. PICK k \in T : \A n \in T : k <= n
  <2> HIDE DEF T
  <2> QED BY <1>4, FirstNumber
<1>6. PICK q \in asked[k].ports : Where(q) = Where(p)
  BY <1>5
<1>7. k \in 1 .. Len(asked) /\ ~asked[k].alone /\ \A x \in asked[k].ports : x = q
  BY <1>3, <1>5, <1>6, EachRequest DEF Request
<1>8. CASE granted(k)
  BY <1>1, <1>3, <1>6, <1>7, <1>8
<1>9. CASE ~granted(k)
  <2>1. PICK j \in 1 .. k - 1 : ~lost(j) /\ taken(k, j)
    BY <1>7, <1>9
  <2>2. j \in DOMAIN asked /\ j < k /\ ~(k <= j)
    BY <1>3, <1>7
  <2>3. PICK y \in asked[j].ports : y.port = q.port /\ y.protocol = q.protocol
    BY <1>7, <2>1
  <2>4. Where(y) = Where(p)
    BY <1>6, <2>3 DEF Where
  <2>5. asked[j].alone
    BY <1>5, <2>2, <2>4
  <2>6. granted(j)
    BY <2>1, <2>5
  <2> HIDE DEF granted
  <2> QED BY <1>1, <2>2, <2>3, <2>4, <2>6
<1> QED BY <1>8, <1>9

LEMMA FirmReached ==
    ASSUME NEW cfg, NEW l \in Firm(cfg)
    PROVE  \E q \in getServicePortsFromCWAgentConfig(cfg) : Where(q) = l
<1>1. PICK r \in ToSet(Asked(cfg)) : ~r.alone /\ \E p \in r.ports : Where(p) = l
  BY AskedCovered DEF Covers
<1>2. \E q \in Granted(Asked(cfg)) : Where(q) = l
  BY <1>1, AskedRequests, FirmGranted
<1> QED BY <1>2 DEF getServicePortsFromCWAgentConfig

\* What does not yield is for another section than the two that do.
LEMMA FirmSections ==
    ASSUME NEW cfg
    PROVE  /\ \A l \in Firm(cfg) :
                \E section \in DOMAIN cfg.sections \ {"logs.emf", "logs.kubernetes"} : l \in Listens(cfg, section)
           /\ \A section \in DOMAIN cfg.sections \ {"logs.emf", "logs.kubernetes"} :
                Listens(cfg, section) \subseteq Firm(cfg)
<1>1. ASSUME NEW section, section \notin {"logs.emf", "logs.kubernetes"}, NEW l \in On(cfg, section)
      PROVE  \E s \in DOMAIN cfg.sections \ {"logs.emf", "logs.kubernetes"} : l \in Listens(cfg, s)
  BY <1>1 DEF On, Has
<1>2. ASSUME NEW l \in Firm(cfg)
      PROVE  \E section \in DOMAIN cfg.sections \ {"logs.emf", "logs.kubernetes"} : l \in Listens(cfg, section)
  BY <1>1, <1>2 DEF Firm
<1>3. ASSUME NEW section \in DOMAIN cfg.sections \ {"logs.emf", "logs.kubernetes"}, NEW l \in Listens(cfg, section)
      PROVE  l \in Firm(cfg)
  <2>1. l \in On(cfg, section)
    BY <1>3 DEF On, Has
  <2>2. section \in {"logs.application_signals", "traces.application_signals", "metrics.statsd",
                     "metrics.collectd", "metrics.otlp", "metrics.jmx", "logs.otlp", "traces.otlp",
                     "traces.xray"}
    BY <1>3 DEF Listens
  <2> QED BY <2>1, <2>2 DEF Firm
<1> QED BY <1>2, <1>3

\* A request that yields gets its ports unless another section has its number.
LEMMA YieldingReached ==
    ASSUME NEW cfg, NEW r \in Yielding(cfg), NEW number, \A p \in r.ports : p.port = number,
           \A x \in Yielding(cfg) \ {r} : \A p \in x.ports : p.port # number
    PROVE  \/ r.ports \subseteq getServicePortsFromCWAgentConfig(cfg)
           \/ \E l \in Firm(cfg) : l.port = number
<1> DEFINE asked == Asked(cfg)
           T == {n \in DOMAIN asked : asked[n] = r}
<1>1. Requests(asked) /\ Covers(asked, Firm(cfg), Yielding(cfg))
  BY AskedRequests, AskedCovered
<1>2. r.alone
  <2>1. EMFRequest.alone /\ JMXRequest.alone
    BY DEF EMFRequest, JMXRequest
  <2>2. r \in {EMFRequest, JMXRequest}
    BY DEF Yielding
  <2> QED BY <2>1, <2>2
<1>3. getServicePortsFromCWAgentConfig(cfg) = Granted(asked)
  BY DEF getServicePortsFromCWAgentConfig
<1> HIDE DEF asked
<1>4. PICK S : asked \in Seq(S)
  BY <1>1 DEF Requests
<1>5. Len(asked) \in Nat /\ DOMAIN asked = 1 .. Len(asked)
  BY <1>4
<1>6. T \subseteq Nat /\ T # {}
  <2>1. r \in ToSet(asked)
    BY <1>1 DEF Covers
  <2>2. PICK n \in DOMAIN asked : asked[n] = r
    BY <2>1 DEF ToSet
  <2> QED BY <1>5, <2>2
<1>7. PICK k \in T : \A n \in T : k <= n
  <2> HIDE DEF T
  <2> QED BY <1>6, FirstNumber
<1>8. k \in DOMAIN asked /\ asked[k] = r
  BY <1>7
<1>9. CASE asked[k].ports \subseteq Granted(asked)
  BY <1>3, <1>8, <1>9
<1>10. CASE \E j \in DOMAIN asked : /\ j < k
                                   /\ \E p \in asked[k].ports, q \in asked[j].ports : p.port = q.port
  <2>1. PICK j \in DOMAIN asked : j < k /\ \E p \in asked[k].ports, q \in asked[j].ports : p.port = q.port
    BY <1>10
  <2>2. PICK q \in asked[j].ports : q.port = number
    BY <1>8, <2>1
  <2>3. asked[j] # r
    <3>1. ~(k <= j)
      BY <1>5, <1>8, <2>1
    <3> QED BY <1>7, <3>1
  <2>4. asked[j] \in ToSet(asked)
    BY DEF ToSet
  <2>5. ~asked[j].alone
    BY <1>1, <2>2, <2>3, <2>4 DEF Covers
  <2>6. Where(q) \in Firm(cfg)
    BY <1>1, <2>2, <2>4, <2>5 DEF Covers
  <2>7. Where(q).port = number
    BY <2>2 DEF Where
  <2> QED BY <2>6, <2>7
<1> QED BY <1>1, <1>2, <1>8, <1>9, <1>10, AloneGranted

\* Every receiver gets a port, unless its section yields to another.
LEMMA ReceiverReached ==
    ASSUME NEW cfg, NEW section \in DOMAIN cfg.sections, NEW l \in Listens(cfg, section)
    PROVE  \/ \E q \in getServicePortsFromCWAgentConfig(cfg) : Where(q) = l
           \/ /\ section \in {"logs.emf", "logs.kubernetes"}
              /\ \E other \in DOMAIN cfg.sections \ {section} :
                   \E m \in Listens(cfg, other) : m # l /\ m.port = l.port
<1> DEFINE at(number, protocol) == [port |-> number, protocol |-> protocol]
           tcp == Port(<<"", "emf-tcp", 0>>, EMFPort, "TCP")
           udp == Port(<<"", "emf-udp", 0>>, EMFPort, "UDP")
           jmx == Port(<<"", JmxHttp, 0>>, receiverDefaultPortsMap[JmxHttp], "TCP")
<1>1. /\ Where(tcp) = at(25888, "TCP") /\ tcp.port = 25888
      /\ Where(udp) = at(25888, "UDP") /\ udp.port = 25888
      /\ Where(jmx) = at(4314, "TCP") /\ jmx.port = 4314
  BY DefaultPorts DEF Where, Port, EMFPort
<1>2. EMFRequest.ports = {tcp, udp} /\ JMXRequest.ports = {jmx}
  BY DEF EMFRequest, JMXRequest
<1>3. \A number, protocol : Listener(0, number, protocol) = {at(number, protocol)}
  BY DEF Listener, Unparsable
<1>4. \A number, protocol : at(number, protocol).port = number
  OBVIOUS
<1> HIDE DEF tcp, udp, jmx, at
<1>5. \A m \in Firm(cfg) : \/ \E q \in getServicePortsFromCWAgentConfig(cfg) : Where(q) = l
                           \/ m # l /\ \E other \in DOMAIN cfg.sections \ {"logs.emf", "logs.kubernetes"} :
                                         m \in Listens(cfg, other)
  BY FirmReached, FirmSections
<1>6. CASE section \notin {"logs.emf", "logs.kubernetes"}
  BY <1>6, FirmReached, FirmSections
<1>7. CASE section = "logs.emf"
  <2>1. l \in {at(25888, "TCP"), at(25888, "UDP")}
    BY <1>3, <1>7, SectionListens DEF EMFPort
  <2>2. EMFRequest \in Yielding(cfg)
    BY <1>7 DEF Yielding, Has
  <2>3. \A x \in Yielding(cfg) \ {EMFRequest} : x = JMXRequest
    BY DEF Yielding
  <2>4. \/ EMFRequest.ports \subseteq getServicePortsFromCWAgentConfig(cfg)
        \/ \E m \in Firm(cfg) : m.port = 25888
    BY <1>1, <1>2, <2>2, <2>3, YieldingReached
  <2> QED BY <1>1, <1>2, <1>4, <1>5, <1>7, <2>1, <2>4
<1>8. CASE section = "logs.kubernetes"
  <2>1. cfg.sections["logs.kubernetes"].jmx /\ l = at(4314, "TCP")
    BY <1>3, <1>8, SectionListens
  <2>2. JMXRequest \in Yielding(cfg)
    BY <1>8, <2>1 DEF Yielding, Has
  <2>3. \A x \in Yielding(cfg) \ {JMXRequest} : x = EMFRequest
    BY DEF Yielding
  <2>4. \/ JMXRequest.ports \subseteq getServicePortsFromCWAgentConfig(cfg)
        \/ \E m \in Firm(cfg) : m.port = 4314
    BY <1>1, <1>2, <2>2, <2>3, YieldingReached
  <2> QED BY <1>1, <1>2, <1>4, <1>5, <1>8, <2>1, <2>4
<1> QED BY <1>6, <1>7, <1>8

\* Every valid port is among the agent's, unless Shadowed says why not.
LEMMA ReceiverHasPort ==
    ASSUME NEW a, WellFormed(a), a.config.parse = "ok",
           NEW section \in DOMAIN a.config.sections,
           NEW l \in Listens(a.config, section), IsValidPortNum(l.port)
    PROVE  \/ Shadowed(a, section, l)
           \/ \E p \in AgentPorts(a) : p.port = l.port /\ p.protocol = l.protocol
<1>1. CASE \E q \in getServicePortsFromCWAgentConfig(a.config) : Where(q) = l
  <2>1. PICK q \in getServicePortsFromCWAgentConfig(a.config) : Where(q) = l
    BY <1>1
  <2>2. q.port = l.port /\ q.protocol = l.protocol
    BY <2>1 DEF Where
  <2>3. IsValidPortName(q.name)
    <3>1. q \in Granted(Asked(a.config))
      BY DEF getServicePortsFromCWAgentConfig
    <3>2. PICK k \in DOMAIN Asked(a.config) : q \in Asked(a.config)[k].ports
      BY <3>1 DEF Granted
    <3> QED BY <3>2, EachRequest, AskedRequests DEF Request
  <2>4. q \in AgentPorts(a) \/ \E u \in UserPorts(a) : u.name = q.name
    BY <2>2, <2>3, PortsComeFrom
  <2> QED BY <2>2, <2>4 DEF Shadowed
<1>2. CASE /\ section \in {"logs.emf", "logs.kubernetes"}
           /\ \E other \in DOMAIN a.config.sections \ {section} :
                \E m \in Listens(a.config, other) : m # l /\ m.port = l.port
  BY <1>2 DEF Shadowed
<1> QED BY <1>1, <1>2, ReceiverReached

----------------------------------------------------------------------------
\* The builders fail only with a gap.

LEMMA PrometheusGap ==
    ASSUME NEW a, NEW rewrite \in BOOLEAN,
           \/ ~IsEmpty(a.prom) /\ (ReplacePrometheusFails(a.prom, a.ta, rewrite)
                                     \/ (~a.ta /\ a.prom.config = Nil))
           \/ TABuildFails(a)
    PROVE  UnbuildablePrometheus(a)
<1>1. CASE ~IsEmpty(a.prom) /\ ~a.ta /\ a.prom.config = Nil
  BY <1>1 DEF UnbuildablePrometheus
<1>2. CASE a.ta /\ getScrapeConfigsFromPromConfig(a.prom) = Nil
  BY <1>2 DEF UnbuildablePrometheus
<1>3. ASSUME a.ta, getScrapeConfigsFromPromConfig(a.prom) # Nil, NEW kind \in {"unnamed", "badrelabel"},
             Scrapes(a.prom, kind)
      PROVE  UnbuildablePrometheus(a)
  <2>1. getScrapeConfigsFromPromConfig(a.prom) = a.prom.config.scrape
    BY <1>3 DEF getScrapeConfigsFromPromConfig
  <2>2. kind \in ToSet(a.prom.config.scrape)
    BY <1>3, <2>1 DEF Scrapes, ToSet
  <2> QED BY <1>3, <2>2 DEF UnbuildablePrometheus
<1>4. CASE a.ta /\ a.prom.config = Nil
  BY <1>2, <1>4 DEF getScrapeConfigsFromPromConfig
<1>5. CASE TABuildFails(a)
  BY <1>2, <1>3, <1>5 DEF TABuildFails, GetPromConfigFails
<1>6. CASE ReplacePrometheusFails(a.prom, a.ta, rewrite)
  <2>1. a.ta
    BY <1>6 DEF ReplacePrometheusFails
  <2>2. CASE ~ValidatePromConfig(a.prom, a.ta, rewrite)
    BY <1>4, <2>1, <2>2 DEF ValidatePromConfig
  <2>3. CASE AddTAConfigFails(a.prom)
    BY <1>4, <2>1, <2>3 DEF AddTAConfigFails
  <2>4. CASE AddHTTPSDConfigFails(a.prom)
    BY <1>2, <1>3, <2>1, <2>4 DEF AddHTTPSDConfigFails
  <2> QED BY <1>6, <2>2, <2>3, <2>4 DEF ReplacePrometheusFails
<1> QED BY <1>1, <1>5, <1>6

LEMMA UnbuiltGap ==
    ASSUME NEW a, Submittable(a), NEW g, NEW unlucky, BuildOutcome(a, g, unlucky) # "built"
    PROVE  KnownGap(a)
<1>1. CASE PanicsOnAutoscaler(a)
  BY <1>1 DEF PanicsOnAutoscaler, Orelse, KnownGap, UnboundedAutoscaler
<1>2. CASE PanicsOnConfig(a.config, a.otel)
  BY <1>2 DEF PanicsOnConfig, PanicsOnPipelines, KnownGap, UnbuildableConfig
<1>3. CASE MetricsPortFails(a.config)
  BY <1>3 DEF KnownGap, UnbuildableConfig
<1>4. CASE a.config.parse = "bad"
  BY <1>4 DEF KnownGap, UnbuildableConfig
<1>5. CASE ConfigMapsFail(a, "rewrite" \in g) \/ TABuildFails(a)
  <2>1. ("rewrite" \in g) \in BOOLEAN
    OBVIOUS
  <2>2. CASE a.otel # Nil /\ ~a.otel.parse
    BY <2>2 DEF KnownGap, UnbuildableConfig
  <2> QED BY <1>4, <1>5, <2>1, <2>2, PrometheusGap DEF ConfigMapsFail, KnownGap
<1> QED BY <1>1, <1>2, <1>3, <1>4, <1>5 DEF BuildOutcome

----------------------------------------------------------------------------
\* The API server rejects only with a gap.

LEMMA InvalidKinds ==
    ASSUME NEW kind, NEW body, Invalid(kind, body)
    PROVE  \/ /\ kind = "Service"
              /\ \/ PortsClash(body.ports)
                 \/ \E p \in body.ports : ~IsValidPortNum(p.port) \/ UnknownProtocol(p)
           \/ /\ kind = "HorizontalPodAutoscaler"
              /\ \/ body.min < 1 \/ body.max < body.min
                 \/ "value" \in ToSet(body.metrics) \/ LongWindow(body.window)
           \/ kind = "PodDisruptionBudget" /\ BadBudget(body.bounds)
           \/ kind = "Ingress" /\ \E r \in body.rules : r.host = <<"*">>
           \/ /\ kind \in Workloads
              /\ \/ Negative(body.replicas)
                 \/ ~IsInjective([k \in DOMAIN body.volumes |-> body.volumes[k].name])
                 \/ /\ "probe" \in DOMAIN body.container
                    /\ \/ NoProbePort(body.container.probe)
                       \/ body.container.probe # Nil /\ body.container.probe.period < 0
BY DEF Invalid

LEMMA FirstOfPair ==
    ASSUME NEW pair, NEW x, NEW y, pair = <<x, y>>
    PROVE  pair[1] = x
OBVIOUS

\* The names of a collector's volumes differ unless those of its config maps do.
LEMMA VolumeNames ==
    ASSUME NEW a, a.configMaps \in Seq(STRING), IsInjective(a.configMaps)
    PROVE  IsInjective([k \in DOMAIN Volumes(a) |-> Volumes(a)[k].name])
<1> DEFINE names == [k \in DOMAIN Volumes(a) |-> Volumes(a)[k].name]
           first == Volume(<<"otc-internal", "">>, <<"ConfigMap", ConfigMapName(a.name)>>,
                           {Entry.agent} \cup (IF a.otel # Nil THEN {Entry.otel} ELSE {}))
           second == Volume(<<"prometheus-config", "">>, <<"ConfigMap", PrometheusConfigMap(a.name)>>,
                            {Entry.prometheus})
           two == IF IsEmpty(a.prom) THEN <<>> ELSE <<second>>
           rest == [k \in DOMAIN a.configMaps |->
                      Volume(<<"configmap", a.configMaps[k]>>, <<"User", <<a.configMaps[k], "">>>>, {})]
<1>1. Volumes(a) = <<first>> \o two \o rest
  BY DEF Volumes
<1>2. first.name = <<"otc-internal", "">> /\ second.name = <<"prometheus-config", "">>
  BY DEF Volume
<1>3. /\ DOMAIN rest = DOMAIN a.configMaps
      /\ \A k \in DOMAIN rest : rest[k].name = <<"configmap", a.configMaps[k]>>
  BY DEF Volume
<1>a. rest = [k \in DOMAIN rest |-> rest[k]]
  OBVIOUS
<1> HIDE DEF first, second, rest
<1>4. /\ rest \in Seq({rest[k] : k \in DOMAIN rest})
      /\ Len(rest) \in Nat /\ DOMAIN rest = 1 .. Len(rest)
  <2>1. DOMAIN a.configMaps = 1 .. Len(a.configMaps) /\ Len(a.configMaps) \in Nat
    OBVIOUS
  <2> DEFINE m == Len(a.configMaps)
             R == {rest[k] : k \in DOMAIN rest}
  <2>2. DOMAIN rest = 1 .. m /\ m \in Nat
    BY <1>3, <2>1
  <2>3. \A k \in 1 .. m : rest[k] \in R
    BY <2>2
  <2> HIDE DEF m, R
  <2>4. rest \in [1 .. m -> R]
    BY <1>a, <2>2, <2>3
  <2>5. rest \in Seq(R) /\ Len(rest) = m
    BY <2>2, <2>4
  <2> QED BY <2>2, <2>5 DEF R
<1> DEFINE n == IF IsEmpty(a.prom) THEN 1 ELSE 2
<1>5. /\ DOMAIN Volumes(a) = 1 .. n + Len(rest)
      /\ Volumes(a)[1] = first
      /\ n = 2 => Volumes(a)[2] = second
      /\ \A k \in n + 1 .. n + Len(rest) : k - n \in DOMAIN rest /\ Volumes(a)[k] = rest[k - n]
  <2> DEFINE T == {first, second} \cup {rest[k] : k \in DOMAIN rest}
  <2>a. rest \in Seq(T)
    BY <1>4
  <2>b. first \in T /\ second \in T
    OBVIOUS
  <2>2. Len(<<first>>) = 1 /\ Len(two) = n - 1
    OBVIOUS
  <2> HIDE DEF T
  <2>1. <<first>> \in Seq(T) /\ two \in Seq(T)
    BY <2>b
  <2>3. CASE IsEmpty(a.prom)
    BY <1>1, <1>4, <2>1, <2>a, <2>3
  <2>4. CASE ~IsEmpty(a.prom)
    BY <1>1, <1>4, <2>1, <2>a, <2>4
  <2> QED BY <2>3, <2>4
<1> DEFINE name(k) == Volumes(a)[k].name
<1>6. n \in {1, 2} /\ Len(rest) \in Nat
  BY <1>4
<1>7. /\ name(1)[1] = "otc-internal"
      /\ n = 2 => name(2)[1] = "prometheus-config"
      /\ \A k \in n + 1 .. n + Len(rest) : name(k)[1] = "configmap" /\ name(k)[2] = a.configMaps[k - n]
  <2>1. name(1) = <<"otc-internal", "">>
    BY <1>2, <1>5
  <2>2. n = 2 => name(2) = <<"prometheus-config", "">>
    BY <1>2, <1>5
  <2>3. \A k \in n + 1 .. n + Len(rest) : name(k) = <<"configmap", a.configMaps[k - n]>>
    <3> TAKE k \in n + 1 .. n + Len(rest)
    <3>1. k - n \in DOMAIN rest /\ Volumes(a)[k] = rest[k - n]
      BY <1>5
    <3> QED BY <1>3, <3>1
  <2> HIDE DEF name, n
  <2>4. name(1)[1] = "otc-internal"
    BY <2>1, FirstOfPair
  <2>5. n = 2 => name(2)[1] = "prometheus-config"
    BY <2>2, FirstOfPair
  <2>6. \A k \in n + 1 .. n + Len(rest) : name(k)[1] = "configmap"
    BY <2>3
  <2>7. \A k \in n + 1 .. n + Len(rest) : name(k)[2] = a.configMaps[k - n]
    BY <2>3
  <2> QED BY <2>4, <2>5, <2>6, <2>7
<1>8. \A k \in n + 1 .. n + Len(rest) : k - n \in DOMAIN a.configMaps
  BY <1>3, <1>5
<1>9. DOMAIN Volumes(a) = 1 .. n + Len(rest)
  BY <1>5
<1> HIDE DEF n, name
<1>10. ASSUME NEW j \in DOMAIN Volumes(a), NEW k \in DOMAIN Volumes(a), name(j) = name(k)
       PROVE  j = k
  <2>1. CASE j \in n + 1 .. n + Len(rest) /\ k \in n + 1 .. n + Len(rest)
    <3>1. a.configMaps[j - n] = a.configMaps[k - n]
      BY <1>7, <1>10, <2>1
    <3>2. j - n = k - n
      BY <1>8, <2>1, <3>1 DEF IsInjective
    <3> QED BY <1>6, <2>1, <3>2
  <2>2. j \in {1, 2} \/ j \in n + 1 .. n + Len(rest)
    BY <1>6, <1>9
  <2>3. k \in {1, 2} \/ k \in n + 1 .. n + Len(rest)
    BY <1>6, <1>9
  <2>4. (j = 2 /\ j \notin n + 1 .. n + Len(rest)) => n = 2
    BY <1>6, <1>9
  <2>5. (k = 2 /\ k \notin n + 1 .. n + Len(rest)) => n = 2
    BY <1>6, <1>9
  <2> QED BY <1>7, <1>10, <2>1, <2>2, <2>3, <2>4, <2>5
<1> QED BY <1>10 DEF IsInjective, name

LEMMA WorkloadTaken ==
    ASSUME NEW a, WellFormed(a), Validated(a), NEW kind \in Workloads, NEW body,
           body.volumes = Volumes(a), body.container = Container(a), body.replicas \in {a.replicas, Nil},
           Invalid(kind, body)
    PROVE  Refused(a)
<1>0. a.configMaps \in Seq(STRING) /\ a.probe \in Int \cup {Nil}
  BY DEF WellFormed, Submittable, InSchema, Fields, Numbers
<1>1. CASE ~IsInjective([k \in DOMAIN body.volumes |-> body.volumes[k].name])
  <2>1. ~IsInjective(a.configMaps)
    BY <1>0, <1>1, VolumeNames
  <2> QED BY <2>1 DEF Refused
<1>a. body.container.probe = getLivenessProbe(a)
  <2>1. \E m, p, s : Container(a) = [mounts |-> m, ports |-> p, shard |-> s, probe |-> getLivenessProbe(a)]
    BY Zenon DEF Container
  <2> QED BY <2>1
<1>b. CASE Negative(body.replicas)
  BY <1>b DEF Negative, Refused
<1>c. CASE NoProbePort(body.container.probe)
  BY <1>a, <1>c DEF Refused
<1>2. CASE body.container.probe # Nil /\ body.container.probe.period < 0
  <2>2. getLivenessProbe(a).period = IF a.probe = Nil THEN 0 ELSE a.probe
    BY <1>2, <1>a DEF getLivenessProbe
  <2>3. a.probe # Nil /\ a.probe < 0
    BY <1>0, <1>2, <1>a, <2>2
  <2>4. PICK rewrite \in BOOLEAN : validate(a, rewrite)
    BY DEF Validated
  <2>5. CASE a.autoscaler
    BY <2>3, <2>5 DEF Refused, Negative
  <2>6. CASE ~a.autoscaler
    <3>1. a.probe >= 1
      BY <2>3, <2>4, <2>6 DEF validate
    <3> QED BY <1>0, <2>3, <3>1
  <2> QED BY <2>5, <2>6
<1>3. \/ Negative(body.replicas)
      \/ ~IsInjective([k \in DOMAIN body.volumes |-> body.volumes[k].name])
      \/ NoProbePort(body.container.probe)
      \/ body.container.probe # Nil /\ body.container.probe.period < 0
  BY InvalidKinds DEF Workloads
<1> QED BY <1>1, <1>2, <1>3, <1>b, <1>c

LEMMA CollectorTaken ==
    ASSUME NEW a, WellFormed(a), Validated(a),
           NEW o \in Deployment(a) \cup StatefulSet(a) \cup DaemonSet(a), Invalid(o[1][1], o[2])
    PROVE  Refused(a)
<1> DEFINE w == Workload(a)
           extra == [service |-> ServiceName(a.name), claims |-> a.claims]
<1>0. DOMAIN w = {"labels", "selector", "podLabels", "hash", "replicas", "account", "volumes", "container"}
  BY WorkloadFacts
<1>1. w.volumes = Volumes(a) /\ w.container = Container(a) /\ w.replicas = a.replicas
  BY DEF Workload
<1> HIDE DEF w, extra
<1>2. /\ o[1][1] \in Workloads
      /\ o[2].volumes = w.volumes /\ o[2].container = w.container /\ o[2].replicas \in {w.replicas, Nil}
  <2>1. CASE o \in Deployment(a)
    <3>1. o[1] = <<"Deployment", Collector(a.name)>> /\ o[2] = w
      BY <2>1, ObjectPair DEF Deployment, w
    <3> QED BY <3>1, FirstOfPair DEF Workloads
  <2>2. CASE o \in StatefulSet(a)
    <3>1. o[1] = <<"StatefulSet", Collector(a.name)>> /\ o[2] = Over(w, extra)
      BY <2>2, ObjectPair DEF StatefulSet, w, extra
    <3>2. o[1][1] \in Workloads
      BY <3>1, FirstOfPair DEF Workloads
    <3>3. o[2].volumes = w.volumes /\ o[2].container = w.container /\ o[2].replicas = w.replicas
      BY <1>0, <3>1 DEF Over
    <3> QED BY <3>2, <3>3
  <2>3. CASE o \in DaemonSet(a)
    <3>1. o[1] = <<"DaemonSet", Collector(a.name)>> /\ o[2] = [w EXCEPT !.replicas = Nil]
      BY <2>3, ObjectPair DEF DaemonSet, w
    <3>2. o[1][1] \in Workloads
      BY <3>1, FirstOfPair DEF Workloads
    <3>3. o[2].volumes = w.volumes /\ o[2].container = w.container /\ o[2].replicas = Nil
      BY <1>0, <3>1
    <3> QED BY <3>2, <3>3
  <2> QED BY <2>1, <2>2, <2>3
<1>3. o[2].volumes = Volumes(a) /\ o[2].container = Container(a) /\ o[2].replicas \in {a.replicas, Nil}
  BY <1>1, <1>2
<1> QED BY <1>2, <1>3, WorkloadTaken

LEMMA BudgetTaken ==
    ASSUME NEW a, NEW o \in PodDisruptionBudget(a), Invalid(o[1][1], o[2])
    PROVE  Refused(a)
<1>1. PICK labels, selector :
        o \in Object("PodDisruptionBudget", Collector(a.name),
                     [labels |-> labels, selector |-> selector, bounds |-> a.pdb])
  BY Zenon DEF PodDisruptionBudget
<1>2. /\ o[1] = <<"PodDisruptionBudget", Collector(a.name)>>
      /\ o[2] = [labels |-> labels, selector |-> selector, bounds |-> a.pdb]
  BY <1>1, ObjectPair
<1>3. o[1][1] = "PodDisruptionBudget" /\ o[2].bounds = a.pdb
  BY <1>2, FirstOfPair
<1>4. BadBudget(o[2].bounds)
  BY <1>3, InvalidKinds DEF Workloads
<1> QED BY <1>3, <1>4 DEF Refused

LEMMA AutoscalerTaken ==
    ASSUME NEW a, WellFormed(a), Validated(a),
           NEW o \in HorizontalPodAutoscaler(a), Invalid(o[1][1], o[2])
    PROVE  Refused(a) \/ UnboundedAutoscaler(a)
<1>0. a.autoscaler
  BY DEF HorizontalPodAutoscaler
<1> DEFINE max == Orelse(a.asMax, a.max)
           min == Orelse(a.asMin, Orelse(a.min, a.replicas))
<1>1. PICK labels :
        o \in Object("HorizontalPodAutoscaler", Collector(a.name),
                     [labels |-> labels, max |-> max, min |-> min, metrics |-> a.asMetrics,
                      window |-> a.asWindow])
  BY <1>0, Zenon DEF HorizontalPodAutoscaler
<1> HIDE DEF max, min
<1>2. /\ o[1] = <<"HorizontalPodAutoscaler", Collector(a.name)>>
      /\ o[2] = [labels |-> labels, max |-> max, min |-> min, metrics |-> a.asMetrics,
                      window |-> a.asWindow]
  BY <1>1, ObjectPair
<1>3. /\ o[1][1] = "HorizontalPodAutoscaler" /\ o[2].max = max /\ o[2].min = min
      /\ o[2].metrics = a.asMetrics /\ o[2].window = a.asWindow
  BY <1>2, FirstOfPair
<1>4. min < 1 \/ max < min \/ "value" \in ToSet(a.asMetrics) \/ LongWindow(a.asWindow)
  BY <1>3, InvalidKinds DEF Workloads
<1>5. CASE "value" \in ToSet(a.asMetrics) \/ LongWindow(a.asWindow)
  BY <1>0, <1>5 DEF Refused
<1>6. CASE a.asMax = Nil
  BY <1>0, <1>6 DEF UnboundedAutoscaler
<1>7. CASE a.asMax # Nil /\ (min < 1 \/ max < min)
  <2>1. PICK rewrite \in BOOLEAN : validate(a, rewrite)
    BY DEF Validated
  <2>2. validateReplicas(a)
    BY <2>1 DEF validate
  <2>3. maxReplicas(a) = max /\ minReplicas(a) = min
    BY <1>0 DEF maxReplicas, minReplicas, max, min
  <2>4. max # Nil /\ min # Nil
    BY <1>7 DEF max, min, Orelse, WellFormed
  <2>5. max >= 1 /\ min <= max /\ min >= 1
    BY <2>2, <2>3, <2>4 DEF validateReplicas
  <2>6. \A f \in Numbers : a[f] \in Int \cup {Nil}
    BY DEF WellFormed, Submittable, InSchema, Fields
  <2>7. max \in Int /\ min \in Int
    <3> DEFINE I == Int \cup {Nil}
    <3>1. a.asMax \in I /\ a.max \in I /\ a.asMin \in I /\ a.min \in I /\ a.replicas \in I
      BY <2>6 DEF Numbers
    <3> HIDE DEF I
    <3>2. max \in I /\ min \in I
      BY <3>1 DEF max, min, Orelse
    <3> QED BY <2>4, <3>2 DEF I
  <2> QED BY <1>7, <2>5, <2>7
<1> QED BY <1>4, <1>5, <1>6, <1>7

LEMMA FirstOfOne ==
    ASSUME NEW s, NEW x, s = <<x>>
    PROVE  s[1] = x
OBVIOUS

LEMMA IngressTaken ==
    ASSUME NEW a, WellFormed(a), Validated(a), NEW o \in Ingress(a), Invalid(o[1][1], o[2])
    PROVE  Refused(a)
<1>0. a.ingress = "nginx"
  BY DEF Ingress
<1>1. PICK labels : o \in Object("Ingress", IngressName(a.name), [labels |-> labels, rules |-> IngressRules(a)])
  BY Zenon DEF Ingress
<1>2. /\ o[1] = <<"Ingress", IngressName(a.name)>>
      /\ o[2] = [labels |-> labels, rules |-> IngressRules(a)]
  BY <1>1, ObjectPair
<1>3. o[1][1] = "Ingress" /\ o[2].rules = IngressRules(a)
  BY <1>2, FirstOfPair
<1>4. PICK r \in IngressRules(a) : r.host = <<"*">>
  BY <1>3, InvalidKinds DEF Workloads
<1>5. PICK p \in servicePortsFromCfg(a) :
        r.host = IF a.rule # "subdomain" THEN <<a.host>>
                 ELSE <<p.name[2]>> \o (IF a.host \in {"", "*"} THEN <<>> ELSE <<a.host>>)
  <2> DEFINE host(x) == IF a.rule # "subdomain" THEN <<a.host>>
                        ELSE <<x.name[2]>> \o (IF a.host \in {"", "*"} THEN <<>> ELSE <<a.host>>)
  <2>1. \E p \in servicePortsFromCfg(a) : r = [host |-> host(p), backend |-> Backend(a, p)]
    BY <1>4, Zenon DEF IngressRules
  <2> HIDE DEF host
  <2>2. \E p \in servicePortsFromCfg(a) : r.host = host(p)
    BY <2>1
  <2> QED BY <2>2 DEF host
<1>6. PICK k \in DOMAIN a.ports : p = a.ports[k]
  BY <1>5 DEF servicePortsFromCfg
<1>7. p.name[2] # "*"
  <2>1. PICK rewrite \in BOOLEAN : validate(a, rewrite)
    BY DEF Validated
  <2>2. IsValidPortName(a.ports[k].name)
    BY <2>1, <1>6 DEF validate
  <2> QED BY <1>6, <2>2 DEF IsValidPortName
<1>8. CASE a.rule # "subdomain"
  <2>1. <<a.host>> = <<"*">>
    BY <1>4, <1>5, <1>8
  <2>2. a.host = "*"
    BY <2>1
  <2> QED BY <1>0, <2>2 DEF Refused
<1>9. CASE a.rule = "subdomain"
  <2> DEFINE label == p.name[2]
             tail == IF a.host \in {"", "*"} THEN <<>> ELSE <<a.host>>
  <2>1. <<label>> \o tail = <<"*">>
    BY <1>4, <1>5, <1>9
  <2> HIDE DEF label
  <2>2. (<<label>> \o tail)[1] = label
    <3> DEFINE host == a.host
    <3>1. CASE host \in {"", "*"}
      <4>1. tail = <<>>
        BY <3>1
      <4> HIDE DEF host, tail
      <4> QED BY <4>1
    <3>2. CASE host \notin {"", "*"}
      <4>1. tail = <<host>>
        BY <3>2
      <4> HIDE DEF host, tail
      <4> QED BY <4>1
    <3> QED BY <3>1, <3>2
  <2> HIDE DEF tail
  <2>4. label = "*"
    BY <2>1, <2>2, FirstOfOne
  <2> QED BY <1>7, <2>4 DEF label
<1> QED BY <1>8, <1>9

\* A service is rejected only for its ports.
LEMMA ServiceClashes ==
    ASSUME NEW o, NEW name, o[1] = <<"Service", name>>, Invalid(o[1][1], o[2])
    PROVE  \/ PortsClash(o[2].ports)
           \/ \E p \in o[2].ports : ~IsValidPortNum(p.port) \/ UnknownProtocol(p)
<1>1. o[1][1] = "Service"
  BY FirstOfPair
<1> QED BY <1>1, InvalidKinds DEF Workloads

LEMMA OnePortApart ==
    ASSUME NEW p
    PROVE  ~PortsClash({p})
BY DEF PortsClash

\* The collector's service.
LEMMA ServiceBody ==
    ASSUME NEW a, NEW s \in Service(a)
    PROVE  /\ s[1] = <<"Service", ServiceName(a.name)>>
           /\ DOMAIN s[2] = {"labels", "selector", "ports", "local"} /\ s[2].ports = AgentPorts(a)
<1>1. PICK labels, selector, local :
        s \in Object("Service", ServiceName(a.name),
                     [labels |-> labels, selector |-> selector, ports |-> AgentPorts(a), local |-> local])
  BY Zenon DEF Service
<1>2. /\ s[1] = <<"Service", ServiceName(a.name)>>
      /\ s[2] = [labels |-> labels, selector |-> selector, ports |-> AgentPorts(a), local |-> local]
  BY <1>1, ObjectPair
<1> QED BY <1>2

\* The ports of an agent that is admitted have a number.
LEMMA AgentPortsTaken ==
    ASSUME NEW a, WellFormed(a), Validated(a), NEW p \in AgentPorts(a),
           ~IsValidPortNum(p.port) \/ UnknownProtocol(p)
    PROVE  Refused(a)
<1>1. IsValidPortNum(p.port)
  <2>1. PICK rewrite \in BOOLEAN : validate(a, rewrite)
    BY DEF Validated
  <2>2. \A k \in DOMAIN a.ports : IsValidPortNum(a.ports[k].port)
    BY <2>1 DEF validate
  <2> QED BY <2>2, PortNumbers DEF ToSet
<1>2. p \in getServicePortsFromCWAgentConfig(a.config) => p.protocol \in {"TCP", "UDP"}
  BY GrantedProtocol, AskedRequests DEF getServicePortsFromCWAgentConfig
<1>3. p \in UserPorts(a)
  BY <1>1, <1>2, PortsComeFrom DEF UnknownProtocol
<1> QED BY <1>1, <1>3 DEF Refused

LEMMA ServiceTaken ==
    ASSUME NEW a, WellFormed(a), Validated(a), NEW o \in Service(a) \cup HeadlessService(a) \cup MonitoringService(a),
           Invalid(o[1][1], o[2])
    PROVE  Refused(a)
<1>1. \A s \in Service(a) :
        /\ s[1] = <<"Service", ServiceName(a.name)>>
        /\ DOMAIN s[2] = {"labels", "selector", "ports", "local"} /\ s[2].ports = AgentPorts(a)
  BY ServiceBody
<1>2. CASE o \in Service(a)
  <2>1. o[1] = <<"Service", ServiceName(a.name)>> /\ o[2].ports = AgentPorts(a)
    BY <1>1, <1>2
  <2>2. \/ PortsClash(AgentPorts(a))
        \/ \E p \in AgentPorts(a) : ~IsValidPortNum(p.port) \/ UnknownProtocol(p)
    BY <2>1, ServiceClashes
  <2> QED BY <2>2, AgentPortsTaken, AgentPortsClash DEF Refused
<1>3. CASE o \in HeadlessService(a)
  <2>1. PICK s \in Service(a) :
          o = <<<<"Service", HeadlessName(a.name)>>,
                [s[2] EXCEPT !.labels = Over(Label("headless", <<"Exists">>), @)]>>
    BY <1>3 DEF HeadlessService
  <2> DEFINE body == [s[2] EXCEPT !.labels = Over(Label("headless", <<"Exists">>), @)]
             id == <<"Service", HeadlessName(a.name)>>
  <2>2. body.ports = AgentPorts(a)
    BY <1>1
  <2>3. o = <<id, body>>
    BY <2>1
  <2> HIDE DEF body, id
  <2>4. o[1] = id /\ o[2] = body
    BY <2>3
  <2>5. \/ PortsClash(AgentPorts(a))
        \/ \E p \in AgentPorts(a) : ~IsValidPortNum(p.port) \/ UnknownProtocol(p)
    BY <2>2, <2>4, ServiceClashes DEF id
  <2> QED BY <2>5, AgentPortsTaken, AgentPortsClash DEF Refused
<1>4. CASE o \in MonitoringService(a)
  <2> DEFINE p == Port(<<"", "monitoring", 0>>, ConfigToMetricsPort(a.config), "")
  <2>1. PICK labels, selector :
          o \in Object("Service", MonitoringName(a.name),
                       [labels |-> labels, selector |-> selector, ports |-> {p}])
    BY <1>4, Zenon DEF MonitoringService
  <2>4. p.port = ConfigToMetricsPort(a.config) /\ ~UnknownProtocol(p)
    BY DEF Port, UnknownProtocol
  <2> HIDE DEF p
  <2>2. /\ o[1] = <<"Service", MonitoringName(a.name)>>
        /\ o[2] = [labels |-> labels, selector |-> selector, ports |-> {p}]
    BY <2>1, ObjectPair
  <2>3. o[2].ports = {p}
    BY <2>2
  <2>5. ~IsValidPortNum(p.port)
    BY <2>2, <2>3, <2>4, ServiceClashes, OnePortApart
  <2> QED BY <2>4, <2>5 DEF Refused
<1> QED BY <1>2, <1>3, <1>4

\* Objects of the other kinds are always taken.
LEMMA OthersTaken ==
    ASSUME NEW kind \in {"ServiceAccount", "ConfigMap", "Route", "PodMonitor", "ServiceMonitor"},
           NEW name, NEW body, NEW o \in Object(kind, name, body)
    PROVE  ~Invalid(o[1][1], o[2])
<1>1. o[1][1] = kind
  BY ObjectPair, FirstOfPair
<1> QED BY <1>1, InvalidKinds DEF Workloads

LEMMA BuildTaken ==
    ASSUME NEW a, WellFormed(a), Validated(a), NEW g, NEW o \in Build(a, g), Invalid(o[1][1], o[2])
    PROVE  Refused(a) \/ UnboundedAutoscaler(a)
<1>1. CASE o \in Deployment(a) \cup StatefulSet(a) \cup DaemonSet(a)
  BY <1>1, CollectorTaken
<1>2. CASE o \in PodDisruptionBudget(a)
  BY <1>2, BudgetTaken
<1>3. CASE o \in HorizontalPodAutoscaler(a)
  BY <1>3, AutoscalerTaken
<1>4. CASE o \in ServiceAccount(a)
  <2>1. PICK name, body : o \in Object("ServiceAccount", name, body)
    BY <1>4, Zenon DEF ServiceAccount
  <2> QED BY <2>1, OthersTaken
<1>5. CASE o \in Service(a) \cup HeadlessService(a) \cup MonitoringService(a)
  BY <1>5, ServiceTaken
<1>6. CASE o \in Ingress(a)
  BY <1>6, IngressTaken
<1>7. CASE o \in Monitor(a)
  <2> DEFINE kind == IF a.mode = "sidecar" THEN "PodMonitor" ELSE "ServiceMonitor"
  <2>1. kind \in {"PodMonitor", "ServiceMonitor"}
    OBVIOUS
  <2>2. PICK name, body : o \in Object(kind, name, body)
    BY <1>7, Zenon DEF Monitor
  <2> HIDE DEF kind
  <2> QED BY <2>1, <2>2, OthersTaken
<1>8. CASE o \in ConfigMaps(a, "rewrite" \in g)
  <2>1. PICK name, body : o \in Object("ConfigMap", name, body)
    BY <1>8, Zenon DEF ConfigMaps
  <2> QED BY <2>1, OthersTaken
<1>9. CASE o \in Routes(a)
  <2>1. PICK name, body : o \in Object("Route", name, body)
    BY <1>9, Zenon DEF Routes
  <2> QED BY <2>1, OthersTaken
<1> QED BY <1>1, <1>2, <1>3, <1>4, <1>5, <1>6, <1>7, <1>8, <1>9 DEF Build, Modes, WellFormed

\* A sequence of three, element by element.
LEMMA ThreeItems ==
    ASSUME NEW s, NEW x, NEW y, NEW z, s = <<x, y, z>>
    PROVE  DOMAIN s = 1 .. 3 /\ s[1] = x /\ s[2] = y /\ s[3] = z
OBVIOUS

\* The name of a volume.
LEMMA VolumeName ==
    ASSUME NEW v, NEW name, NEW source, NEW keys, v = Volume(name, source, keys)
    PROVE  v.name = name
BY DEF Volume

\* What is built for the allocator is taken unless its replicas are negative.
LEMMA AllocatorTaken ==
    ASSUME NEW a, NEW o \in TABuild(a), ~(a.ta /\ Negative(a.taReplicas))
    PROVE  ~Invalid(o[1][1], o[2])
<1>0. a.ta
  BY DEF TABuild
<1>1. CASE o \in TAConfigMapObject(a)
  <2>1. PICK name, body : o \in Object("ConfigMap", name, body)
    BY <1>1, Zenon DEF TAConfigMapObject
  <2> QED BY <2>1, OthersTaken
<1>2. CASE o \in TADeployment(a)
  <2>1. PICK l1, l2, l3, h, s :
          o \in Object("Deployment", TargetAllocator(a.name),
                       [labels |-> l1, selector |-> l2, podLabels |-> l3, hash |-> h, replicas |-> a.taReplicas,
                        account |-> s, volumes |-> TAVolumes(a), container |-> TAContainer(a)])
    BY <1>2, Zenon DEF TADeployment
  <2>2. /\ o[1] = <<"Deployment", TargetAllocator(a.name)>>
        /\ o[2] = [labels |-> l1, selector |-> l2, podLabels |-> l3, hash |-> h, replicas |-> a.taReplicas,
                   account |-> s, volumes |-> TAVolumes(a), container |-> TAContainer(a)]
    BY <2>1, ObjectPair
  <2>3. /\ o[1][1] = "Deployment" /\ o[2].volumes = TAVolumes(a) /\ o[2].container = TAContainer(a)
        /\ o[2].replicas = a.taReplicas
    BY <2>2, FirstOfPair
  <2>4. "probe" \notin DOMAIN TAContainer(a)
    <3>1. \E m, p, x : TAContainer(a) = [mounts |-> m, ports |-> p, args |-> x]
      BY Zenon DEF TAContainer
    <3> QED BY <3>1
  <2>5. IsInjective([k \in DOMAIN TAVolumes(a) |-> TAVolumes(a)[k].name])
    <3> DEFINE v == TAVolumes(a)
    <3>1. PICK s1, s2, s3, k1, k2, k3 :
            v = <<Volume(<<"ta-internal", "">>, s1, k1), Volume(<<"ta-client", "">>, s2, k2),
                  Volume(<<"ta-secret", "">>, s3, k3)>>
      BY Zenon DEF TAVolumes
    <3> HIDE DEF v
    <3>2. /\ DOMAIN v = 1 .. 3
          /\ v[1] = Volume(<<"ta-internal", "">>, s1, k1)
          /\ v[2] = Volume(<<"ta-client", "">>, s2, k2)
          /\ v[3] = Volume(<<"ta-secret", "">>, s3, k3)
      BY <3>1, ThreeItems
    <3>6. v[1].name = <<"ta-internal", "">>
      BY <3>2, VolumeName
    <3>7. v[2].name = <<"ta-client", "">>
      BY <3>2, VolumeName
    <3>8. v[3].name = <<"ta-secret", "">>
      BY <3>2, VolumeName
    <3>3. v[1].name[1] = "ta-internal" /\ v[2].name[1] = "ta-client" /\ v[3].name[1] = "ta-secret"
      BY <3>6, <3>7, <3>8, FirstOfPair
    <3>4. \A j, k \in 1 .. 3 : v[j].name = v[k].name => j = k
      BY <3>3
    <3>5. IsInjective([k \in DOMAIN v |-> v[k].name])
      BY <3>2, <3>4 DEF IsInjective
    <3> QED BY <3>5 DEF v
  <2> QED BY <1>0, <2>3, <2>4, <2>5, InvalidKinds DEF Workloads
<1>3. CASE o \in TAServiceAccount(a)
  <2>1. PICK name, body : o \in Object("ServiceAccount", name, body)
    BY <1>3, Zenon DEF TAServiceAccount
  <2> QED BY <2>1, OthersTaken
<1>4. CASE o \in TAServiceObject(a)
  <2> DEFINE p == [name |-> <<"", "targetallocation", 0>>, port |-> TargetAllocatorServicePort,
                   protocol |-> "", target |-> TargetAllocatorContainerPort]
  <2>1. PICK labels, selector :
          o \in Object("Service", TAService(a.name), [labels |-> labels, selector |-> selector, ports |-> {p}])
    BY <1>4, Zenon DEF TAServiceObject
  <2>4. IsValidPortNum(p.port) /\ ~UnknownProtocol(p)
    BY DEF IsValidPortNum, UnknownProtocol, TargetAllocatorServicePort
  <2> HIDE DEF p
  <2>2. /\ o[1] = <<"Service", TAService(a.name)>>
        /\ o[2] = [labels |-> labels, selector |-> selector, ports |-> {p}]
    BY <2>1, ObjectPair
  <2>3. o[2].ports = {p}
    BY <2>2
  <2> QED BY <2>2, <2>3, <2>4, ServiceClashes, OnePortApart
<1> QED BY <1>1, <1>2, <1>3, <1>4 DEF TABuild

LEMMA RejectedGap ==
    ASSUME NEW a, WellFormed(a), Validated(a), NEW g,
           NEW id \in DOMAIN ById(BuildCollector(a, g)), Invalid(id[1], ById(BuildCollector(a, g))[id])
    PROVE  KnownGap(a)
<1>1. PICK o \in BuildCollector(a, g) : o[1] = id /\ ById(BuildCollector(a, g))[id] = o[2]
  BY ByIdObject
<1>2. Invalid(o[1][1], o[2])
  BY <1>1
<1>3. o \in Build(a, g) \/ (a.ta /\ Negative(a.taReplicas))
  BY <1>2, AllocatorTaken DEF BuildCollector
<1> QED BY <1>2, <1>3, BuildTaken DEF KnownGap, Refused

LEMMA AdmittedStep == AgentInv /\ AdmittedIsBuilt /\ [Next]_vars => AdmittedIsBuilt'
<1> SUFFICES ASSUME AgentInv, AdmittedIsBuilt, [Next]_vars PROVE AdmittedIsBuilt'
  OBVIOUS
<1>1. CASE UNCHANGED <<agent, outcome>>
  BY <1>1 DEF AdmittedIsBuilt
<1>2. CASE outcome' = "none"
  BY <1>2 DEF AdmittedIsBuilt
<1>3. ASSUME NEW unlucky \in BOOLEAN, Reconcile(unlucky) PROVE AdmittedIsBuilt'
  <2>1. stored /\ agent' = agent
    BY <1>3 DEF Reconcile, AgentInv
  <2>2. WellFormed(agent) /\ Validated(agent)
    BY <2>1 DEF AgentInv
  <2>3. CASE outcome' = outcome
    BY <1>1, <2>1, <2>3
  <2>4. CASE BuildOutcome(agent, gates, unlucky) # "built"
    BY <2>1, <2>2, <2>4, UnbuiltGap DEF WellFormed, AdmittedIsBuilt
  <2>5. ASSUME NEW desired, desired = ById(BuildCollector(agent, gates)), Apply(desired)
        PROVE  AdmittedIsBuilt'
    <3>1. outcome' = IF {id \in DOMAIN desired : Invalid(id[1], desired[id])}
                             \ {id \in DOMAIN desired : Immutable(id, desired)} = {}
                       THEN "built" ELSE "rejected"
      BY <2>5 DEF Apply
    <3>2. CASE \E id \in DOMAIN desired : Invalid(id[1], desired[id])
      BY <2>1, <2>2, <2>5, <3>2, RejectedGap DEF AdmittedIsBuilt
    <3>3. CASE ~\E id \in DOMAIN desired : Invalid(id[1], desired[id])
      <4>1. outcome' = "built"
        BY <3>1, <3>3
      <4> QED BY <4>1 DEF AdmittedIsBuilt
    <3> QED BY <3>2, <3>3
  <2> QED BY <1>3, <2>3, <2>4, <2>5 DEF Reconcile
<1> QED BY <1>1, <1>2, <1>3 DEF Next, vars, CreateAgent, PatchAgent, Admit, DeleteAgent, Restart

\* What the webhooks have admitted is built by every builder and taken by the API server
\* (collector_webhook.go, internal/manifests), for any agents, patches and gates: errors,
\* panics and rejected objects come with one of the named gaps of the validation.
THEOREM AlwaysAdmittedIsBuilt == Spec => []AdmittedIsBuilt
<1>1. Init => AdmittedIsBuilt
  BY DEF Init, AdmittedIsBuilt
<1> QED BY <1>1, AgentInvariant, AdmittedStep, PTL DEF Spec

----------------------------------------------------------------------------
\* The services.

ServiceId(name) == <<"Service", name>>

ReceiverServices(a) == {ServiceName(a.name), HeadlessName(a.name)}

\* What the proofs need of an object that is built: a service has ports, and if receivers
\* are reached through it they are the agent's.
Served(a, o) ==
    o[1][1] = "Service" =>
      /\ "ports" \in DOMAIN o[2]
      /\ o[1][2] \in ReceiverServices(a) => o[2].ports = AgentPorts(a)

LEMMA OtherKindServed ==
    ASSUME NEW a, NEW kind, NEW name, NEW body, NEW o \in Object(kind, name, body), kind # "Service"
    PROVE  Served(a, o)
<1>1. o[1][1] = kind
  BY ObjectPair, FirstOfPair
<1> QED BY <1>1 DEF Served

\* The second part of a name tells the services apart.
LEMMA ServiceNames ==
    ASSUME NEW name, NEW suffix, suffix \notin {"", "headless"}, NEW a
    PROVE  <<name, suffix>> \notin ReceiverServices(a)
BY DEF ReceiverServices, ServiceName, HeadlessName

\* The collector's service and its headless twin.
LEMMA OwnServices ==
    ASSUME NEW a, NEW o \in Service(a) \cup HeadlessService(a)
    PROVE  o[1][1] = "Service" /\ "ports" \in DOMAIN o[2] /\ o[2].ports = AgentPorts(a)
<1>1. \A s \in Service(a) :
        /\ s[1] = <<"Service", ServiceName(a.name)>>
        /\ DOMAIN s[2] = {"labels", "selector", "ports", "local"} /\ s[2].ports = AgentPorts(a)
  BY ServiceBody
<1>2. CASE o \in Service(a)
  BY <1>1, <1>2, FirstOfPair
<1>3. CASE o \in HeadlessService(a)
  <2>1. PICK s \in Service(a) :
          o = <<<<"Service", HeadlessName(a.name)>>,
                [s[2] EXCEPT !.labels = Over(Label("headless", <<"Exists">>), @)]>>
    BY <1>3 DEF HeadlessService
  <2> DEFINE body == [s[2] EXCEPT !.labels = Over(Label("headless", <<"Exists">>), @)]
             id == <<"Service", HeadlessName(a.name)>>
  <2>2. "ports" \in DOMAIN body /\ body.ports = AgentPorts(a)
    BY <1>1
  <2>3. id[1] = "Service"
    BY FirstOfPair
  <2>4. o = <<id, body>>
    BY <2>1
  <2> HIDE DEF body, id
  <2>5. o[1] = id /\ o[2] = body
    BY <2>4
  <2> QED BY <2>2, <2>3, <2>5
<1> QED BY <1>2, <1>3

\* A service of one port, of another name.
LEMMA OtherServed ==
    ASSUME NEW a, NEW name, name \notin ReceiverServices(a), NEW labels, NEW selector, NEW p,
           NEW o \in Object("Service", name, [labels |-> labels, selector |-> selector, ports |-> {p}])
    PROVE  Served(a, o)
<1>1. /\ o[1] = <<"Service", name>>
      /\ o[2] = [labels |-> labels, selector |-> selector, ports |-> {p}]
  BY ObjectPair
<1>2. "ports" \in DOMAIN o[2]
  BY <1>1
<1>3. o[1][2] = name
  BY <1>1
<1> QED BY <1>2, <1>3 DEF Served

LEMMA BuildServed ==
    ASSUME NEW a, NEW g, a.mode \in Modes, NEW o \in Build(a, g)
    PROVE  Served(a, o)
<1>1. CASE o \in Deployment(a) \cup StatefulSet(a) \cup DaemonSet(a)
  <2>1. \E kind : kind \in Workloads /\ \E name, body : o \in Object(kind, name, body)
    <3>1. CASE o \in Deployment(a)
      BY <3>1 DEF Deployment, Workloads
    <3>2. CASE o \in StatefulSet(a)
      BY <3>2 DEF StatefulSet, Workloads
    <3>3. CASE o \in DaemonSet(a)
      BY <3>3 DEF DaemonSet, Workloads
    <3> QED BY <1>1, <3>1, <3>2, <3>3
  <2> QED BY <2>1, OtherKindServed DEF Workloads
<1>2. CASE o \in PodDisruptionBudget(a)
  <2>1. PICK name, body : o \in Object("PodDisruptionBudget", name, body)
    BY <1>2, Zenon DEF PodDisruptionBudget
  <2> QED BY <2>1, OtherKindServed
<1>3. CASE o \in HorizontalPodAutoscaler(a)
  <2>1. PICK name, body : o \in Object("HorizontalPodAutoscaler", name, body)
    BY <1>3, Zenon DEF HorizontalPodAutoscaler
  <2> QED BY <2>1, OtherKindServed
<1>4. CASE o \in ServiceAccount(a)
  <2>1. PICK name, body : o \in Object("ServiceAccount", name, body)
    BY <1>4, Zenon DEF ServiceAccount
  <2> QED BY <2>1, OtherKindServed
<1>5. CASE o \in Service(a) \cup HeadlessService(a)
  BY <1>5, OwnServices DEF Served
<1>7. CASE o \in MonitoringService(a)
  <2>1. PICK labels, selector, p :
          o \in Object("Service", MonitoringName(a.name),
                       [labels |-> labels, selector |-> selector, ports |-> {p}])
    BY <1>7, Zenon DEF MonitoringService
  <2>2. MonitoringName(a.name) \notin ReceiverServices(a)
    BY ServiceNames DEF MonitoringName
  <2> QED BY <2>1, <2>2, OtherServed
<1>8. CASE o \in Ingress(a)
  <2>1. PICK name, body : o \in Object("Ingress", name, body)
    BY <1>8, Zenon DEF Ingress
  <2> QED BY <2>1, OtherKindServed
<1>9. CASE o \in Monitor(a)
  <2> DEFINE kind == IF a.mode = "sidecar" THEN "PodMonitor" ELSE "ServiceMonitor"
  <2>1. kind # "Service"
    OBVIOUS
  <2>2. PICK name, body : o \in Object(kind, name, body)
    BY <1>9, Zenon DEF Monitor
  <2> HIDE DEF kind
  <2> QED BY <2>1, <2>2, OtherKindServed
<1>10. CASE o \in ConfigMaps(a, "rewrite" \in g)
  <2>1. PICK name, body : o \in Object("ConfigMap", name, body)
    BY <1>10, Zenon DEF ConfigMaps
  <2> QED BY <2>1, OtherKindServed
<1>11. CASE o \in Routes(a)
  <2>1. PICK name, body : o \in Object("Route", name, body)
    BY <1>11, Zenon DEF Routes
  <2> QED BY <2>1, OtherKindServed
<1> QED BY <1>1, <1>2, <1>3, <1>4, <1>5, <1>7, <1>8, <1>9, <1>10, <1>11 DEF Build, Modes

LEMMA AllocatorServed ==
    ASSUME NEW a, NEW o \in TABuild(a)
    PROVE  Served(a, o)
<1>1. CASE o \in TAConfigMapObject(a)
  <2>1. PICK name, body : o \in Object("ConfigMap", name, body)
    BY <1>1, Zenon DEF TAConfigMapObject
  <2> QED BY <2>1, OtherKindServed
<1>2. CASE o \in TADeployment(a)
  <2>1. PICK name, body : o \in Object("Deployment", name, body)
    BY <1>2, Zenon DEF TADeployment
  <2> QED BY <2>1, OtherKindServed
<1>3. CASE o \in TAServiceAccount(a)
  <2>1. PICK name, body : o \in Object("ServiceAccount", name, body)
    BY <1>3, Zenon DEF TAServiceAccount
  <2> QED BY <2>1, OtherKindServed
<1>4. CASE o \in TAServiceObject(a)
  <2>1. PICK labels, selector, p :
          o \in Object("Service", TAService(a.name), [labels |-> labels, selector |-> selector, ports |-> {p}])
    BY <1>4, Zenon DEF TAServiceObject
  <2>2. TAService(a.name) \notin ReceiverServices(a)
    BY ServiceNames DEF TAService
  <2> QED BY <2>1, <2>2, OtherServed
<1> QED BY <1>1, <1>2, <1>3, <1>4 DEF TABuild

\* An agent with ports has both services.
LEMMA ServicesBuilt ==
    ASSUME NEW a, NEW g, AgentPorts(a) # {}, NEW name \in ReceiverServices(a)
    PROVE  ServiceId(name) \in Ids(BuildCollector(a, g))
<1>1. \E s \in Service(a) : s[1] = ServiceId(ServiceName(a.name))
  <2>1. PICK body : Service(a) = Object("Service", ServiceName(a.name), body)
    BY Zenon DEF Service
  <2> QED BY <2>1 DEF Object, ServiceId
<1>2. \E s \in HeadlessService(a) : s[1] = ServiceId(HeadlessName(a.name))
  <2>1. PICK s \in Service(a) : TRUE
    BY <1>1
  <2> DEFINE body == [s[2] EXCEPT !.labels = Over(Label("headless", <<"Exists">>), @)]
             id == <<"Service", HeadlessName(a.name)>>
             o == <<id, body>>
  <2>2. o \in HeadlessService(a)
    BY DEF HeadlessService
  <2>3. id = ServiceId(HeadlessName(a.name))
    BY DEF ServiceId
  <2> HIDE DEF body, id
  <2>4. o[1] = id
    OBVIOUS
  <2> HIDE DEF o
  <2> QED BY <2>2, <2>3, <2>4
<1>3. Service(a) \cup HeadlessService(a) \subseteq BuildCollector(a, g)
  BY DEF Build, BuildCollector
<1> QED BY <1>1, <1>2, <1>3 DEF Ids, ReceiverServices

LEMMA DesiredServices ==
    ASSUME NEW a, NEW g, a.mode \in Modes, NEW id \in DOMAIN ById(BuildCollector(a, g)), id[1] = "Service"
    PROVE  /\ "ports" \in DOMAIN ById(BuildCollector(a, g))[id]
           /\ id[2] \in ReceiverServices(a) => ById(BuildCollector(a, g))[id].ports = AgentPorts(a)
<1>1. \A p \in BuildCollector(a, g) : Served(a, p)
  BY BuildServed, AllocatorServed DEF BuildCollector
<1>2. PICK o \in BuildCollector(a, g) : o[1] = id /\ ById(BuildCollector(a, g))[id] = o[2]
  BY ByIdObject
<1> QED BY <1>1, <1>2 DEF Served

\* A service that is updated gets the ports that are wanted.
LEMMA MergedPorts ==
    ASSUME NEW id, NEW want, id[1] = "Service", "ports" \in DOMAIN want,
           id \in DOMAIN objects => "ports" \in DOMAIN objects[id]
    PROVE  "ports" \in DOMAIN Merged(id, want) /\ Merged(id, want).ports = want.ports
<1>1. CASE id \notin DOMAIN objects
  BY <1>1 DEF Merged
<1>2. CASE id \in DOMAIN objects
  <2>1. Merged(id, want) =
          [objects[id] EXCEPT !.labels = Over(want.labels, @), !.selector = Over(want.selector, @),
                              !.ports = want.ports]
    BY <1>2 DEF Merged, Workloads
  <2> QED BY <1>2, <2>1
<1> QED BY <1>1, <1>2

\* If the request is gone everything that is wanted has been written.
LEMMA AllWritten ==
    ASSUME NEW desired, Apply(desired), ~pending'
    PROVE  \A id \in DOMAIN desired : id \in DOMAIN objects' /\ objects'[id] = Merged(id, desired[id])
<1> DEFINE replaced == {id \in DOMAIN desired : Immutable(id, desired)}
           rejected == {id \in DOMAIN desired : Invalid(id[1], desired[id])} \ replaced
           written  == DOMAIN desired \ (rejected \cup replaced)
           kept     == {id \in DOMAIN objects \ DOMAIN desired :
                          rejected # {} \/ id[1] \notin PrunedKinds}
<1>1. /\ objects' = [id \in written \cup kept \cup (rejected \cap DOMAIN objects) |->
                       IF id \in written THEN Merged(id, desired[id]) ELSE objects[id]]
      /\ pending' = (rejected # {} \/ replaced # {})
  BY DEF Apply
<1>2. rejected = {} /\ replaced = {}
  BY <1>1
<1>3. DOMAIN objects' = written \cup kept \cup (rejected \cap DOMAIN objects)
  BY <1>1
<1>4. \A id \in DOMAIN objects' :
        objects'[id] = IF id \in written THEN Merged(id, desired[id]) ELSE objects[id]
  BY <1>1
<1>5. written = DOMAIN desired
  BY <1>2
<1> HIDE DEF rejected, replaced, written, kept
<1> QED BY <1>3, <1>4, <1>5

----------------------------------------------------------------------------
\* The invariant: services have ports, and once the agent is settled those of its receivers.

ServicesInv ==
    /\ \A id \in DOMAIN objects : id[1] = "Service" => "ports" \in DOMAIN objects[id]
    /\ Settled /\ AgentPorts(agent) # {} =>
         \A name \in ReceiverServices(agent) :
            /\ ServiceId(name) \in DOMAIN objects
            /\ objects[ServiceId(name)].ports = AgentPorts(agent)

LEMMA ApplyServices ==
    ASSUME AgentInv, ServicesInv, stored, NEW desired, desired = ById(BuildCollector(agent, gates)),
           Apply(desired), UNCHANGED <<gates, stored, agent, ops>>
    PROVE  ServicesInv'
<1>1. agent.mode \in Modes
  BY DEF AgentInv, TypeOK
<1>2. ASSUME NEW id \in DOMAIN desired, id[1] = "Service"
      PROVE  "ports" \in DOMAIN Merged(id, desired[id]) /\ Merged(id, desired[id]).ports = desired[id].ports
  <2>1. "ports" \in DOMAIN desired[id]
    BY <1>1, <1>2, DesiredServices
  <2> QED BY <1>2, <2>1, MergedPorts DEF ServicesInv
<1>3. \A id \in DOMAIN objects' : id[1] = "Service" => "ports" \in DOMAIN objects'[id]
  BY <1>2, ApplyParts DEF ServicesInv
<1>4. ASSUME ~pending', AgentPorts(agent) # {}, NEW name \in ReceiverServices(agent), NEW id, id = ServiceId(name)
      PROVE  id \in DOMAIN objects' /\ objects'[id].ports = AgentPorts(agent)
  <2>1. id[1] = "Service" /\ id[2] = name
    BY <1>4 DEF ServiceId
  <2>2. id \in DOMAIN desired
    BY <1>4, ServicesBuilt DEF ById
  <2>3. desired[id].ports = AgentPorts(agent)
    BY <1>1, <1>4, <2>1, <2>2, DesiredServices
  <2> QED BY <1>2, <1>4, <2>1, <2>2, <2>3, AllWritten
<1> QED BY <1>3, <1>4 DEF ServicesInv, Settled

LEMMA ServicesStep == AgentInv /\ ServicesInv /\ [Next]_vars => ServicesInv'
<1> SUFFICES ASSUME AgentInv, ServicesInv, [Next]_vars PROVE ServicesInv'
  OBVIOUS
<1>1. CASE UNCHANGED <<stored, agent, pending, objects>>
  BY <1>1 DEF ServicesInv, Settled
<1>2. CASE objects' = objects /\ (pending' \/ ~stored' \/ agent'.mgmt # "managed")
  BY <1>2 DEF ServicesInv, Settled
<1>3. ASSUME NEW b, Admit(b), objects' = objects PROVE ServicesInv'
  BY <1>1, <1>2, <1>3 DEF Admit
<1>4. ASSUME DeleteAgent PROVE ServicesInv'
  <2>1. ~stored' /\ DOMAIN objects' = {}
    BY <1>4 DEF DeleteAgent
  <2> QED BY <2>1 DEF ServicesInv, Settled
<1>5. ASSUME NEW g \in Gates, Restart(g) PROVE ServicesInv'
  BY <1>2, <1>5 DEF Restart, AgentInv, TypeOK
<1>6. ASSUME NEW unlucky \in BOOLEAN, Reconcile(unlucky) PROVE ServicesInv'
  <2>1. stored /\ UNCHANGED <<gates, stored, agent, ops>>
    BY <1>6 DEF Reconcile, AgentInv
  <2>2. CASE agent.mgmt = "unmanaged" /\ objects' = objects
    BY <1>2, <2>1, <2>2
  <2>3. CASE UNCHANGED <<pending, objects>>
    BY <1>1, <2>1, <2>3
  <2>4. CASE \E built \in {BuildCollector(agent, gates)} : \E desired \in {ById(built)} : Apply(desired)
    BY <2>1, <2>4, ApplyServices
  <2> QED BY <1>6, <2>2, <2>3, <2>4 DEF Reconcile
<1> QED BY <1>1, <1>3, <1>4, <1>5, <1>6 DEF Next, vars, CreateAgent, PatchAgent

\* Every receiver that a valid configuration of the agent turns on is reached through the
\* agent's services once it is reconciled (ports.go, service.go), for any configuration, spec
\* ports and OpenTelemetry receivers: nothing but what Shadowed names is dropped, and the
\* services that are there get the ports of the agent as it is now.
THEOREM AlwaysReceiversReachable == Spec => []ReceiversReachable
<1>1. Init => ServicesInv
  <2>1. Init => DOMAIN objects = {} /\ ~stored
    BY DEF Init
  <2> QED BY <2>1 DEF ServicesInv, Settled
<1>2. AgentInv /\ ServicesInv => ReceiversReachable
  <2> SUFFICES ASSUME AgentInv, ServicesInv, Settled, agent.config.parse = "ok",
                      NEW section \in DOMAIN agent.config.sections,
                      NEW l \in Listens(agent.config, section), IsValidPortNum(l.port),
                      ~Shadowed(agent, section, l),
                      NEW name \in {ServiceName(agent.name), HeadlessName(agent.name)}
               PROVE  \E p \in objects[<<"Service", name>>].ports :
                         p.port = l.port /\ p.protocol = l.protocol
    BY DEF ReceiversReachable
  <2>1. WellFormed(agent)
    BY DEF AgentInv, Settled
  <2>2. \E p \in AgentPorts(agent) : p.port = l.port /\ p.protocol = l.protocol
    BY <2>1, ReceiverHasPort
  <2>3. objects[ServiceId(name)].ports = AgentPorts(agent)
    BY <2>2 DEF ServicesInv, ReceiverServices
  <2> QED BY <2>2, <2>3 DEF ServiceId
<1> QED BY <1>1, <1>2, AgentInvariant, ServicesStep, PTL DEF Spec

----------------------------------------------------------------------------
\* Labels.

LEMMA SelectsAll ==
    ASSUME NEW f, NEW g, NEW h, Selects(f, g), Selects(g, h)
    PROVE  Selects(f, h)
BY DEF Selects

LEMMA SelectsOver ==
    ASSUME NEW f, NEW g
    PROVE  Selects(f, Over(f, g))
BY DEF Selects, Over

\* The selector's labels are among those of every object of the agent.
LEMMA AgentSelects ==
    ASSUME NEW a, NEW name, NEW image
    PROVE  Selects(SelectorOf(a), Labels(Meta(a), name, image, AgentComponent))
<1> DEFINE s == SelectorLabels(Meta(a), AgentComponent)
           version == IF image = "" THEN {} ELSE {"version"}
           labels == Labels(Meta(a), name, image, AgentComponent)
<1>1. DOMAIN s = {"managed-by", "instance", "part-of", "component"}
  BY DEF SelectorLabels
<1>2. /\ DOMAIN labels = {"name"} \cup DOMAIN Meta(a).labels \cup DOMAIN s \cup version
      /\ \A key \in DOMAIN s : key \notin version /\ labels[key] = s[key]
  <2>1. \A key \in DOMAIN s : key \notin version
    BY <1>1
  <2> HIDE DEF s
  <2>2. labels = [key \in {"name"} \cup DOMAIN Meta(a).labels \cup DOMAIN s \cup version |->
                    CASE key \in version       -> VersionLabel(image)
                      [] key \in DOMAIN s      -> s[key]
                      [] OTHER -> IF key \in DOMAIN Meta(a).labels THEN Meta(a).labels[key] ELSE name]
    BY Zenon DEF Labels, s
  <2> HIDE DEF labels, version
  <2> QED BY <2>1, <2>2
<1> HIDE DEF s, labels
<1>3. Selects(s, labels)
  BY <1>2 DEF Selects
<1> QED BY <1>3 DEF s, labels, SelectorOf

\* Those of the allocator.
LEMMA AllocatorLabels ==
    ASSUME NEW a, NEW name
    PROVE  /\ "component" \in DOMAIN VersionedTALabels(a, name)
           /\ VersionedTALabels(a, name)["component"] = <<TAComponent>>
           /\ DOMAIN TALabels(a, name) = DOMAIN TALabels(a, <<>>)
           /\ \A key \in DOMAIN TALabels(a, name) \ {"version"} :
                 /\ key \in DOMAIN VersionedTALabels(a, name)
                 /\ VersionedTALabels(a, name)[key] = TALabels(a, name)[key]
<1> DEFINE v == TAVersion(a)
           s == SelectorLabels(Meta(a), TAComponent)
<1>1. DOMAIN v = {"version"}
  BY DEF TAVersion, Label
<1>2. "component" \in DOMAIN s /\ s["component"] = <<TAComponent>>
  BY DEF SelectorLabels
<1> HIDE DEF v, s
<1>3. \A n : DOMAIN TALabels(a, n) = DOMAIN s \cup DOMAIN a.labels \cup {"name"}
  BY DEF TALabels, Over, Label, s
<1>4. "component" \in DOMAIN TALabels(a, name) /\ TALabels(a, name)["component"] = <<TAComponent>>
  BY <1>2 DEF TALabels, Over, s
<1>5. VersionedTALabels(a, name) = Over(v, TALabels(a, name))
  BY DEF VersionedTALabels, v
<1>6. \A key \in DOMAIN TALabels(a, name) \ {"version"} :
         /\ key \in DOMAIN VersionedTALabels(a, name)
         /\ VersionedTALabels(a, name)[key] = TALabels(a, name)[key]
  BY <1>1, <1>5 DEF Over
<1>7. "component" # "version"
  OBVIOUS
<1> QED BY <1>3, <1>4, <1>6, <1>7

----------------------------------------------------------------------------
\* What is built for each kind and name, as far as one object refers to another.

FitsWorkload(a, kind, name, b) ==
    /\ {"labels", "podLabels", "volumes", "account", "container"} \subseteq DOMAIN b
    /\ \/ /\ name = Collector(a.name)
          /\ b.volumes = Volumes(a) /\ b.account = ServiceAccountName(a)
          /\ b.container.mounts = Container(a).mounts
          /\ b.podLabels = AgentLabels(a, Collector(a.name))
       \/ /\ kind = "Deployment" /\ name = TargetAllocator(a.name) /\ a.ta
          /\ b.volumes = TAVolumes(a) /\ b.account = TAServiceAccountName(a)
          /\ b.container = TAContainer(a)
          /\ b.podLabels = VersionedTALabels(a, TargetAllocator(a.name))

CollectorServices(a) == {ServiceName(a.name), HeadlessName(a.name), MonitoringName(a.name)}

MonitoringPort == <<"", "monitoring", 0>>

FitsService(a, name, b) ==
    /\ {"labels", "selector", "ports"} \subseteq DOMAIN b
    /\ \/ name \in CollectorServices(a) /\ b.selector = SelectorOf(a)
       \/ /\ name = TAService(a.name) /\ a.ta
          /\ b.selector = TALabels(a, TargetAllocator(a.name))
          /\ \A p \in b.ports : p.target = TargetAllocatorContainerPort
    /\ name = ServiceName(a.name) => b.ports = AgentPorts(a)
    /\ name = MonitoringName(a.name) => /\ Selects(SelectorOf(a), b.labels)
                                        /\ \E p \in b.ports : p.name = MonitoringPort

FitsConfigMap(a, rewrite, name, b) ==
    /\ {"labels", "data"} \subseteq DOMAIN b
    /\ name = ConfigMapName(a.name) =>
         {Entry.agent} \cup (IF a.otel # Nil THEN {Entry.otel} ELSE {}) \subseteq DOMAIN b.data
    /\ name = PrometheusConfigMap(a.name) =>
         /\ Entry.prometheus \in DOMAIN b.data
         /\ a.ta => b.data[Entry.prometheus] = ReplacedPrometheus(a, rewrite)
    /\ name = TAConfigMap(a.name) =>
         /\ "targetallocator.yaml" \in DOMAIN b.data
         /\ b.data["targetallocator.yaml"] = TAConfigMapData(a)

FitsOther(a, kind, b) ==
    /\ kind = "PodDisruptionBudget" => b.selector = AgentLabels(a, Collector(a.name))
    /\ kind = "Ingress" =>
         \A r \in b.rules : \E p \in servicePortsFromCfg(a) : r.backend = Backend(a, p)
    /\ kind = "Route" => \E p \in servicePortsFromCfg(a) : b.backend = Backend(a, p)
    /\ kind = "ServiceMonitor" => Selects(b.selector, SelectorOf(a)) /\ b.port = MonitoringPort

Fits(a, rewrite, kind, name, b) ==
    /\ kind \in Workloads => FitsWorkload(a, kind, name, b)
    /\ kind = "Service" => FitsService(a, name, b)
    /\ kind = "ConfigMap" => FitsConfigMap(a, rewrite, name, b)
    /\ FitsOther(a, kind, b)

ObjectFits(a, rewrite, o) ==
    o[1] = <<o[1][1], o[1][2]>> /\ Fits(a, rewrite, o[1][1], o[1][2], o[2])

LEMMA FitsObject ==
    ASSUME NEW a, NEW rewrite, NEW kind, NEW name, NEW body, NEW o \in Object(kind, name, body),
           Fits(a, rewrite, kind, name, body)
    PROVE  ObjectFits(a, rewrite, o)
<1>1. o[1] = <<kind, name>> /\ o[2] = body
  BY ObjectPair
<1>2. o[1][1] = kind /\ o[1][2] = name
  BY <1>1
<1>3. o[1] = <<o[1][1], o[1][2]>>
  BY <1>1, <1>2, Zenon
<1> QED BY <1>1, <1>2, <1>3, Zenon DEF ObjectFits

\* The last part of a name tells the objects of a kind apart.
LEMMA NamesApart ==
    ASSUME NEW a
    PROVE  /\ Collector(a.name) # TargetAllocator(a.name)
           /\ TAService(a.name) \notin CollectorServices(a)
           /\ ServiceName(a.name) # HeadlessName(a.name) /\ ServiceName(a.name) # MonitoringName(a.name)
           /\ HeadlessName(a.name) # MonitoringName(a.name)
           /\ ConfigMapName(a.name) # PrometheusConfigMap(a.name)
           /\ ConfigMapName(a.name) # TAConfigMap(a.name)
           /\ PrometheusConfigMap(a.name) # TAConfigMap(a.name)
<1>1. \A x, y : <<a.name, x>> = <<a.name, y>> => x = y
  OBVIOUS
<1>2. \A x, y : x # y => <<a.name, x>> # <<a.name, y>>
  BY <1>1
<1> QED BY <1>2 DEF CollectorServices, Collector, TargetAllocator, TAService, ServiceName, HeadlessName,
                    MonitoringName, ConfigMapName, PrometheusConfigMap, TAConfigMap

\* The three forms of the collector's workload.
LEMMA WorkloadFits ==
    ASSUME NEW a, NEW rewrite, NEW o \in Deployment(a) \cup StatefulSet(a) \cup DaemonSet(a)
    PROVE  ObjectFits(a, rewrite, o)
<1> DEFINE w == Workload(a)
           extra == [service |-> ServiceName(a.name), claims |-> a.claims]
           fields == {"labels", "podLabels", "volumes", "account", "container"}
           name == Collector(a.name)
<1>1. /\ fields \subseteq DOMAIN w
      /\ w.volumes = Volumes(a) /\ w.account = ServiceAccountName(a)
      /\ w.container = Container(a) /\ w.podLabels = AgentLabels(a, Collector(a.name))
  BY DEF Workload
<1>2. DOMAIN extra = {"service", "claims"}
  OBVIOUS
<1>3. ASSUME NEW kind \in Workloads, NEW b, fields \subseteq DOMAIN b, \A f \in fields : b[f] = w[f]
      PROVE  Fits(a, rewrite, kind, name, b)
  <2>1. FitsWorkload(a, kind, name, b)
    <3> HIDE DEF w
    <3> QED BY <1>1, <1>3 DEF FitsWorkload
  <2>2. FitsOther(a, kind, b) /\ kind \notin {"Service", "ConfigMap"}
    BY <1>3 DEF FitsOther, Workloads
  <2> QED BY <2>1, <2>2 DEF Fits
<1> HIDE DEF w, extra
<1>4. CASE o \in Deployment(a)
  <2>1. o \in Object("Deployment", name, w)
    BY <1>4 DEF Deployment, w
  <2>2. Fits(a, rewrite, "Deployment", name, w)
    BY <1>1, <1>3 DEF Workloads
  <2> HIDE DEF name
  <2> QED BY <2>1, <2>2, FitsObject
<1>5. CASE o \in StatefulSet(a)
  <2> DEFINE b == Over(w, extra)
  <2>1. o \in Object("StatefulSet", name, b)
    BY <1>5 DEF StatefulSet, w, extra
  <2>2. fields \subseteq DOMAIN b /\ \A f \in fields : b[f] = w[f]
    BY <1>1 DEF Over
  <2> HIDE DEF b
  <2>3. Fits(a, rewrite, "StatefulSet", name, b)
    BY <1>3, <2>2 DEF Workloads
  <2> HIDE DEF name
  <2> QED BY <2>1, <2>3, FitsObject
<1>6. CASE o \in DaemonSet(a)
  <2> DEFINE b == [w EXCEPT !.replicas = Nil]
  <2>1. o \in Object("DaemonSet", name, b)
    BY <1>6 DEF DaemonSet, w
  <2>2. fields \subseteq DOMAIN b /\ \A f \in fields : b[f] = w[f]
    BY <1>1
  <2> HIDE DEF b
  <2>3. Fits(a, rewrite, "DaemonSet", name, b)
    BY <1>3, <2>2 DEF Workloads
  <2> HIDE DEF name
  <2> QED BY <2>1, <2>3, FitsObject
<1> QED BY <1>4, <1>5, <1>6

\* An object that refers to nothing.
LEMMA PlainFits ==
    ASSUME NEW a, NEW rewrite, NEW kind, NEW name, NEW body, NEW o \in Object(kind, name, body),
           kind \in {"HorizontalPodAutoscaler", "ServiceAccount", "PodMonitor"}
    PROVE  ObjectFits(a, rewrite, o)
<1>1. Fits(a, rewrite, kind, name, body)
  BY DEF Fits, FitsOther, Workloads
<1> QED BY <1>1, FitsObject

LEMMA ServiceFits ==
    ASSUME NEW a, NEW rewrite, NEW name, NEW body, NEW o \in Object("Service", name, body),
           FitsService(a, name, body)
    PROVE  ObjectFits(a, rewrite, o)
<1>1. Fits(a, rewrite, "Service", name, body)
  BY DEF Fits, FitsOther, Workloads
<1> QED BY <1>1, FitsObject

LEMMA ConfigMapFits ==
    ASSUME NEW a, NEW rewrite, NEW name, NEW body, NEW o \in Object("ConfigMap", name, body),
           FitsConfigMap(a, rewrite, name, body)
    PROVE  ObjectFits(a, rewrite, o)
<1>1. Fits(a, rewrite, "ConfigMap", name, body)
  BY DEF Fits, FitsOther, Workloads
<1> QED BY <1>1, FitsObject

LEMMA OtherFits ==
    ASSUME NEW a, NEW rewrite, NEW kind, NEW name, NEW body, NEW o \in Object(kind, name, body),
           kind \in {"PodDisruptionBudget", "Ingress", "Route", "ServiceMonitor"},
           FitsOther(a, kind, body)
    PROVE  ObjectFits(a, rewrite, o)
<1>1. Fits(a, rewrite, kind, name, body)
  BY DEF Fits, Workloads
<1> QED BY <1>1, FitsObject

\* The services of the collector.
LEMMA CollectorServiceFits ==
    ASSUME NEW a, NEW rewrite, NEW o \in Service(a) \cup HeadlessService(a) \cup MonitoringService(a)
    PROVE  ObjectFits(a, rewrite, o)
<1> DEFINE fields == {"labels", "selector", "ports"}
<1>0. /\ ServiceName(a.name) # MonitoringName(a.name) /\ HeadlessName(a.name) # MonitoringName(a.name)
      /\ ServiceName(a.name) # HeadlessName(a.name)
  BY NamesApart
<1>1. CASE o \in Service(a)
  <2> DEFINE name == ServiceName(a.name)
             b == [labels |-> AgentLabels(a, ServiceName(a.name)),
                   selector |-> SelectorLabels(Meta(a), AgentComponent),
                   ports |-> AgentPorts(a), local |-> a.mode = "daemonset"]
  <2>1. o \in Object("Service", name, b)
    BY <1>1, Zenon DEF Service
  <2>2. fields \subseteq DOMAIN b /\ b.selector = SelectorOf(a) /\ b.ports = AgentPorts(a)
    BY DEF SelectorOf
  <2>3. name \in CollectorServices(a) /\ name # MonitoringName(a.name)
    BY <1>0 DEF CollectorServices
  <2> HIDE DEF b, name
  <2>4. FitsService(a, name, b)
    BY <2>2, <2>3 DEF FitsService
  <2> QED BY <2>1, <2>4, ServiceFits
<1>2. CASE o \in HeadlessService(a)
  <2>1. PICK s \in Service(a) :
          o = <<<<"Service", HeadlessName(a.name)>>,
                [s[2] EXCEPT !.labels = Over(Label("headless", <<"Exists">>), @)]>>
    BY <1>2 DEF HeadlessService
  <2> DEFINE b == [s[2] EXCEPT !.labels = Over(Label("headless", <<"Exists">>), @)]
             name == HeadlessName(a.name)
  <2>2. DOMAIN s[2] = {"labels", "selector", "ports", "local"} /\ s[2].selector = SelectorOf(a)
    BY ObjectPair DEF Service, SelectorOf
  <2>3. fields \subseteq DOMAIN b /\ b.selector = SelectorOf(a)
    BY <2>2
  <2>4. name \in CollectorServices(a) /\ name # MonitoringName(a.name) /\ name # ServiceName(a.name)
    BY <1>0 DEF CollectorServices
  <2>5. o = <<<<"Service", name>>, b>>
    BY <2>1
  <2> HIDE DEF b, name
  <2>6. o \in Object("Service", name, b)
    BY <2>5 DEF Object
  <2>7. FitsService(a, name, b)
    BY <2>3, <2>4 DEF FitsService
  <2> QED BY <2>6, <2>7, ServiceFits
<1>3. CASE o \in MonitoringService(a)
  <2> DEFINE name == MonitoringName(a.name)
             labels == AgentLabels(a, MonitoringName(a.name))
             p == Port(<<"", "monitoring", 0>>, ConfigToMetricsPort(a.config), "")
             b == [labels |-> labels,
                   selector |-> SelectorLabels(Meta(a), AgentComponent),
                   ports |-> {p}]
  <2>1. o \in Object("Service", name, b)
    BY <1>3, Zenon DEF MonitoringService
  <2>2. Selects(SelectorOf(a), labels)
    BY AgentSelects DEF AgentLabels
  <2>3. p.name = MonitoringPort
    BY DEF Port, MonitoringPort
  <2>4. name \in CollectorServices(a) /\ name # ServiceName(a.name)
    BY <1>0 DEF CollectorServices
  <2> HIDE DEF p, labels
  <2>5. /\ fields \subseteq DOMAIN b /\ b.selector = SelectorOf(a) /\ b.labels = labels
        /\ p \in b.ports
    BY DEF SelectorOf
  <2> HIDE DEF b, name
  <2>6. FitsService(a, name, b)
    BY <2>2, <2>3, <2>4, <2>5 DEF FitsService
  <2> QED BY <2>1, <2>6, ServiceFits
<1> QED BY <1>1, <1>2, <1>3

\* The config maps of the collector.
LEMMA CollectorConfigMapFits ==
    ASSUME NEW a, NEW rewrite, NEW o \in ConfigMaps(a, rewrite)
    PROVE  ObjectFits(a, rewrite, o)
<1>0. /\ ConfigMapName(a.name) # PrometheusConfigMap(a.name)
      /\ ConfigMapName(a.name) # TAConfigMap(a.name)
      /\ PrometheusConfigMap(a.name) # TAConfigMap(a.name)
  BY NamesApart
<1> DEFINE labels == AgentLabels(a, ConfigMapName(a.name))
           data == Over(Label(Entry.agent, ReplaceConfig(a)),
                        IF a.otel = Nil THEN <<>> ELSE Label(Entry.otel, a.otel))
           b == [labels |-> labels, data |-> data]
           labels2 == Labels(Meta(a), PrometheusConfigMap(a.name), "", AgentComponent)
           shown == IF a.ta THEN ReplacedPrometheus(a, rewrite)
                            ELSE ReplacedPrometheus(a, rewrite).config
           data2 == Label(Entry.prometheus, shown)
           b2 == [labels |-> labels2, data |-> data2]
<1>1. \/ o \in Object("ConfigMap", ConfigMapName(a.name), b)
      \/ o \in Object("ConfigMap", PrometheusConfigMap(a.name), b2)
  <2>1. ConfigMaps(a, rewrite) = Object("ConfigMap", ConfigMapName(a.name), b)
             \cup (IF IsEmpty(a.prom) THEN {} ELSE Object("ConfigMap", PrometheusConfigMap(a.name), b2))
    BY Zenon DEF ConfigMaps
  <2> HIDE DEF b, b2
  <2> QED BY <2>1
<1>2. {Entry.agent} \cup (IF a.otel # Nil THEN {Entry.otel} ELSE {}) \subseteq DOMAIN data
  BY DEF Over, Label
<1>3. Entry.prometheus \in DOMAIN data2 /\ data2[Entry.prometheus] = shown
  BY DEF Label
<1>4. a.ta => shown = ReplacedPrometheus(a, rewrite)
  OBVIOUS
<1> HIDE DEF data, data2, labels, labels2, shown
<1>5. {"labels", "data"} \subseteq DOMAIN b /\ b.data = data
  OBVIOUS
<1>6. {"labels", "data"} \subseteq DOMAIN b2 /\ b2.data = data2
  OBVIOUS
<1> HIDE DEF b, b2
<1>7. FitsConfigMap(a, rewrite, ConfigMapName(a.name), b)
  BY <1>0, <1>2, <1>5 DEF FitsConfigMap
<1>8. FitsConfigMap(a, rewrite, PrometheusConfigMap(a.name), b2)
  BY <1>0, <1>3, <1>4, <1>6 DEF FitsConfigMap
<1> QED BY <1>1, <1>7, <1>8, ConfigMapFits

\* The monitor selects by two of the selector's labels.
LEMMA MonitorFits ==
    ASSUME NEW a, NEW rewrite, NEW o \in Monitor(a)
    PROVE  ObjectFits(a, rewrite, o)
<1> DEFINE sel == [key \in {"managed-by", "instance"} |-> SelectorLabelsForAllOperatorManaged(Meta(a))[key]]
           b == [labels |-> <<>>, selector |-> sel, port |-> <<"", "monitoring", 0>>]
           kind == IF a.mode = "sidecar" THEN "PodMonitor" ELSE "ServiceMonitor"
<1>1. o \in Object(kind, Collector(a.name), b)
  BY Zenon DEF Monitor
<1>2. Selects(sel, SelectorOf(a))
  BY DEF Selects, SelectorOf, SelectorLabels
<1> HIDE DEF sel
<1>3. b.selector = sel /\ b.port = MonitoringPort
  BY DEF MonitoringPort
<1> HIDE DEF b
<1>4. FitsOther(a, "ServiceMonitor", b)
  BY <1>2, <1>3 DEF FitsOther
<1>5. kind \in {"PodMonitor", "ServiceMonitor"}
  OBVIOUS
<1> HIDE DEF kind
<1> QED BY <1>1, <1>4, <1>5, OtherFits, PlainFits

LEMMA ExposedFits ==
    ASSUME NEW a, NEW rewrite, NEW o \in Ingress(a) \cup Routes(a) \cup PodDisruptionBudget(a)
    PROVE  ObjectFits(a, rewrite, o)
<1>1. CASE o \in Ingress(a)
  <2> DEFINE b == [labels |-> <<>>, rules |-> IngressRules(a)]
  <2>1. o \in Object("Ingress", IngressName(a.name), b)
    BY <1>1, Zenon DEF Ingress
  <2>2. ASSUME NEW r \in IngressRules(a) PROVE \E p \in servicePortsFromCfg(a) : r.backend = Backend(a, p)
    <3> DEFINE host(p) == IF a.rule # "subdomain" THEN <<a.host>>
                          ELSE <<p.name[2]>> \o (IF a.host \in {"", "*"} THEN <<>> ELSE <<a.host>>)
    <3>1. PICK p \in servicePortsFromCfg(a) : r = [host |-> host(p), backend |-> Backend(a, p)]
      BY Zenon DEF IngressRules
    <3> HIDE DEF host
    <3> QED BY <3>1
  <2>3. b.rules = IngressRules(a)
    OBVIOUS
  <2> HIDE DEF b
  <2>4. FitsOther(a, "Ingress", b)
    BY <2>2, <2>3 DEF FitsOther
  <2> QED BY <2>1, <2>4, OtherFits
<1>2. CASE o \in Routes(a)
  <2>1. PICK p \in servicePortsFromCfg(a) :
          o \in Object("Route", RouteName(a.name, p.name[2]), [labels |-> <<>>, backend |-> Backend(a, p)])
    BY <1>2, Zenon DEF Routes
  <2> DEFINE b == [labels |-> <<>>, backend |-> Backend(a, p)]
             name == RouteName(a.name, p.name[2])
  <2>2. b.backend = Backend(a, p)
    OBVIOUS
  <2>3. o \in Object("Route", name, b)
    BY <2>1
  <2> HIDE DEF b, name
  <2>4. FitsOther(a, "Route", b)
    BY <2>2 DEF FitsOther
  <2> QED BY <2>3, <2>4, OtherFits
<1>3. CASE o \in PodDisruptionBudget(a)
  <2> DEFINE b == [labels |-> AgentLabels(a, Collector(a.name)),
                   selector |-> AgentLabels(a, Collector(a.name)), bounds |-> a.pdb]
  <2>1. o \in Object("PodDisruptionBudget", Collector(a.name), b)
    BY <1>3, Zenon DEF PodDisruptionBudget
  <2>2. b.selector = AgentLabels(a, Collector(a.name))
    OBVIOUS
  <2> HIDE DEF b
  <2>3. FitsOther(a, "PodDisruptionBudget", b)
    BY <2>2 DEF FitsOther
  <2> QED BY <2>1, <2>3, OtherFits
<1> QED BY <1>1, <1>2, <1>3

\* The objects of the allocator.
LEMMA AllocatorFits ==
    ASSUME NEW a, NEW rewrite, NEW o \in TABuild(a)
    PROVE  ObjectFits(a, rewrite, o)
<1>0. /\ a.ta
      /\ o \in TAConfigMapObject(a) \cup TADeployment(a) \cup TAServiceAccount(a) \cup TAServiceObject(a)
  BY DEF TABuild
<1>1. CASE o \in TAConfigMapObject(a)
  <2> DEFINE name == TAConfigMap(a.name)
             labels == VersionedTALabels(a, TAConfigMap(a.name))
             data == Label("targetallocator.yaml", TAConfigMapData(a))
             b == [labels |-> labels, data |-> data]
  <2>1. o \in Object("ConfigMap", name, b)
    BY <1>1, Zenon DEF TAConfigMapObject
  <2>2. "targetallocator.yaml" \in DOMAIN data /\ data["targetallocator.yaml"] = TAConfigMapData(a)
    BY DEF Label
  <2>3. name # ConfigMapName(a.name) /\ name # PrometheusConfigMap(a.name)
    BY NamesApart
  <2> HIDE DEF data, labels
  <2>4. {"labels", "data"} \subseteq DOMAIN b /\ b.data = data
    OBVIOUS
  <2> HIDE DEF b
  <2>5. FitsConfigMap(a, rewrite, name, b)
    BY <2>2, <2>3, <2>4 DEF FitsConfigMap
  <2> HIDE DEF name
  <2> QED BY <2>1, <2>5, ConfigMapFits
<1>2. CASE o \in TADeployment(a)
  <2> DEFINE name == TargetAllocator(a.name)
             labels == VersionedTALabels(a, TargetAllocator(a.name))
             b == [labels |-> labels, selector |-> labels, podLabels |-> labels,
                   hash |-> TAConfigMapData(a), replicas |-> a.taReplicas,
                   account |-> TAServiceAccountName(a), volumes |-> TAVolumes(a),
                   container |-> TAContainer(a)]
  <2>1. o \in Object("Deployment", name, b)
    BY <1>2, Zenon DEF TADeployment
  <2>2. /\ {"labels", "podLabels", "volumes", "account", "container"} \subseteq DOMAIN b
        /\ b.volumes = TAVolumes(a) /\ b.account = TAServiceAccountName(a)
        /\ b.container = TAContainer(a) /\ b.podLabels = labels
    OBVIOUS
  <2> HIDE DEF b
  <2>3. FitsWorkload(a, "Deployment", name, b)
    BY <1>0, <2>2 DEF FitsWorkload
  <2>4. Fits(a, rewrite, "Deployment", name, b)
    BY <2>3 DEF Fits, FitsOther
  <2> HIDE DEF name
  <2> QED BY <2>1, <2>4, FitsObject
<1>3. CASE o \in TAServiceAccount(a)
  <2>1. PICK name, body : o \in Object("ServiceAccount", name, body)
    BY <1>3, Zenon DEF TAServiceAccount
  <2> QED BY <2>1, PlainFits
<1>4. CASE o \in TAServiceObject(a)
  <2> DEFINE name == TAService(a.name)
             p == [name |-> <<"", "targetallocation", 0>>, port |-> TargetAllocatorServicePort,
                   protocol |-> "", target |-> TargetAllocatorContainerPort]
             labels == VersionedTALabels(a, TAService(a.name))
             b == [labels |-> labels, selector |-> TALabels(a, TargetAllocator(a.name)), ports |-> {p}]
  <2>1. o \in Object("Service", name, b)
    BY <1>4, Zenon DEF TAServiceObject
  <2>2. p.target = TargetAllocatorContainerPort
    OBVIOUS
  <2>3. name # ServiceName(a.name) /\ name # MonitoringName(a.name)
    BY NamesApart DEF CollectorServices
  <2> HIDE DEF p, labels
  <2>4. /\ {"labels", "selector", "ports"} \subseteq DOMAIN b
        /\ b.selector = TALabels(a, TargetAllocator(a.name)) /\ b.ports = {p}
    OBVIOUS
  <2> HIDE DEF b
  <2>5. FitsService(a, name, b)
    BY <1>0, <2>2, <2>3, <2>4 DEF FitsService
  <2> HIDE DEF name
  <2> QED BY <2>1, <2>5, ServiceFits
<1> QED BY <1>0, <1>1, <1>2, <1>3, <1>4

LEMMA BuildFits ==
    ASSUME NEW a, NEW g, a.mode \in Modes, NEW o \in BuildCollector(a, g)
    PROVE  ObjectFits(a, "rewrite" \in g, o)
<1> DEFINE rewrite == "rewrite" \in g
<1>1. CASE o \in HorizontalPodAutoscaler(a)
  <2>1. PICK name, body : o \in Object("HorizontalPodAutoscaler", name, body)
    BY <1>1, Zenon DEF HorizontalPodAutoscaler
  <2> QED BY <2>1, PlainFits
<1>2. CASE o \in ServiceAccount(a)
  <2>1. PICK name, body : o \in Object("ServiceAccount", name, body)
    BY <1>2, Zenon DEF ServiceAccount
  <2> QED BY <2>1, PlainFits
<1>3. \/ o \in Deployment(a) \cup StatefulSet(a) \cup DaemonSet(a)
      \/ o \in Service(a) \cup HeadlessService(a) \cup MonitoringService(a)
      \/ o \in Ingress(a) \cup Routes(a) \cup PodDisruptionBudget(a)
      \/ o \in Monitor(a) \/ o \in ConfigMaps(a, rewrite) \/ o \in TABuild(a)
      \/ o \in HorizontalPodAutoscaler(a) \/ o \in ServiceAccount(a)
  BY DEF BuildCollector, Build, Modes
<1> HIDE DEF rewrite
<1>4. ObjectFits(a, rewrite, o)
  BY <1>3, WorkloadFits, CollectorServiceFits, ExposedFits, MonitorFits, CollectorConfigMapFits,
     AllocatorFits, <1>1, <1>2 DEF rewrite
<1> QED BY <1>4 DEF rewrite

LEMMA DesiredFits ==
    ASSUME NEW a, NEW g, a.mode \in Modes, NEW id \in DOMAIN ById(BuildCollector(a, g))
    PROVE  id = <<id[1], id[2]>> /\ Fits(a, "rewrite" \in g, id[1], id[2], ById(BuildCollector(a, g))[id])
<1>1. PICK o \in BuildCollector(a, g) : o[1] = id /\ ById(BuildCollector(a, g))[id] = o[2]
  BY ByIdObject
<1>2. ObjectFits(a, "rewrite" \in g, o)
  BY BuildFits
<1> QED BY <1>1, <1>2, Zenon DEF ObjectFits

----------------------------------------------------------------------------
\* What of an object that is wanted is there once it is written.

Carries(kind, want, o) ==
    /\ kind \in Workloads => /\ o.volumes = want.volumes /\ o.account = want.account
                             /\ o.container = want.container /\ Selects(want.podLabels, o.podLabels)
    /\ kind = "Service" => /\ {"labels", "selector", "ports"} \subseteq DOMAIN o
                           /\ o.ports = want.ports
                           /\ Selects(want.labels, o.labels) /\ Selects(want.selector, o.selector)
    /\ kind = "ConfigMap" => o.data = want.data
    /\ kind \notin Workloads \cup {"Service", "ConfigMap"} => o = want

\* What is wanted is there whatever is merged with it.
LEMMA MergedCarries ==
    ASSUME NEW id, NEW want,
           id[1] \in Workloads => {"labels", "podLabels", "volumes", "account", "container"} \subseteq DOMAIN want,
           id[1] = "Service" => {"labels", "selector", "ports"} \subseteq DOMAIN want,
           id[1] = "ConfigMap" => {"labels", "data"} \subseteq DOMAIN want,
           id[1] = "Service" /\ id \in DOMAIN objects =>
             {"labels", "selector", "ports"} \subseteq DOMAIN objects[id]
    PROVE  Carries(id[1], want, Merged(id, want))
<1> DEFINE old == objects[id]
           m == Merged(id, want)
<1>0. \A f : Selects(f, f)
  BY DEF Selects
<1>1. CASE id \notin DOMAIN objects
  <2>1. m = want
    BY <1>1 DEF Merged
  <2> HIDE DEF m
  <2> QED BY <1>0, <2>1 DEF Carries, m
<1>2. CASE id \in DOMAIN objects /\ id[1] \in Workloads
  <2>1. m = [want EXCEPT !.labels = Over(@, old.labels), !.podLabels = Over(@, old.podLabels)]
    BY <1>2 DEF Merged, Workloads
  <2>2. /\ m.volumes = want.volumes /\ m.account = want.account /\ m.container = want.container
        /\ m.podLabels = Over(want.podLabels, old.podLabels)
    BY <1>2, <2>1
  <2>3. Selects(want.podLabels, m.podLabels)
    BY <2>2, SelectsOver
  <2>4. id[1] \notin {"Service", "ConfigMap"}
    BY <1>2 DEF Workloads
  <2> HIDE DEF m
  <2> QED BY <1>2, <2>2, <2>3, <2>4 DEF Carries, m
<1>3. CASE id \in DOMAIN objects /\ id[1] = "Service"
  <2>1. m = [old EXCEPT !.labels = Over(want.labels, @), !.selector = Over(want.selector, @),
                        !.ports = want.ports]
    BY <1>3 DEF Merged, Workloads
  <2>2. /\ {"labels", "selector", "ports"} \subseteq DOMAIN m /\ m.ports = want.ports
        /\ m.labels = Over(want.labels, old.labels) /\ m.selector = Over(want.selector, old.selector)
    BY <1>3, <2>1
  <2>3. Selects(want.labels, m.labels) /\ Selects(want.selector, m.selector)
    BY <2>2, SelectsOver
  <2>4. id[1] \notin Workloads
    BY <1>3 DEF Workloads
  <2> HIDE DEF m
  <2> QED BY <1>3, <2>2, <2>3, <2>4 DEF Carries, m
<1>4. CASE id \in DOMAIN objects /\ id[1] = "ConfigMap"
  <2>1. m = [want EXCEPT !.labels = Over(@, old.labels)]
    BY <1>4 DEF Merged, Workloads
  <2>2. m.data = want.data
    BY <1>4, <2>1
  <2>3. id[1] \notin Workloads
    BY <1>4 DEF Workloads
  <2> HIDE DEF m
  <2> QED BY <1>4, <2>2, <2>3 DEF Carries, m
<1>5. CASE id \in DOMAIN objects /\ id[1] \notin Workloads \cup {"Service", "ConfigMap"}
  <2>1. m = want
    BY <1>5 DEF Merged
  <2> HIDE DEF m
  <2> QED BY <1>5, <2>1 DEF Carries, m
<1> QED BY <1>1, <1>2, <1>3, <1>4, <1>5

\* The selector of a service of the collector's stays what it is.
LEMMA MergedServiceSelector ==
    ASSUME NEW a, NEW id, NEW want, id[1] = "Service",
           "selector" \in DOMAIN want, want.selector = SelectorOf(a),
           id \in DOMAIN objects =>
             {"labels", "selector", "ports"} \subseteq DOMAIN objects[id] /\ objects[id].selector = SelectorOf(a)
    PROVE  Merged(id, want).selector = SelectorOf(a)
<1> DEFINE s == SelectorOf(a)
<1>0. Over(s, s) = s
  <2>1. s = [k \in DOMAIN s |-> s[k]]
    BY DEF SelectorOf, SelectorLabels
  <2> HIDE DEF s
  <2>2. Over(s, s) = [k \in DOMAIN s |-> s[k]]
    BY DEF Over
  <2> QED BY <2>1, <2>2
<1> HIDE DEF s
<1>1. CASE id \notin DOMAIN objects
  BY <1>1 DEF Merged
<1>2. CASE id \in DOMAIN objects
  <2>1. Merged(id, want) =
          [objects[id] EXCEPT !.labels = Over(want.labels, @), !.selector = Over(want.selector, @),
                              !.ports = want.ports]
    BY <1>2 DEF Merged, Workloads
  <2>2. Merged(id, want).selector = Over(want.selector, objects[id].selector)
    BY <1>2, <2>1
  <2> QED BY <1>0, <1>2, <2>2 DEF s
<1> QED BY <1>1, <1>2

----------------------------------------------------------------------------
\* The invariant: a service has labels, a selector and ports, those of the collector select
\* by the agent's labels, and once the agent is settled all that is built for it is there.

Buildable(a, rewrite) ==
    /\ ~ConfigMapsFail(a, rewrite) /\ ~TABuildFails(a)
    /\ a.config.parse \in {"ok", "mistyped"}

Wanted == ById(BuildCollector(agent, gates))

ServicesSelect ==
    \A id \in DOMAIN objects :
       id[1] = "Service" =>
         /\ {"labels", "selector", "ports"} \subseteq DOMAIN objects[id]
         /\ id[2] \in CollectorServices(agent) => objects[id].selector = SelectorOf(agent)

AllThere == \A id \in Current : id \in DOMAIN objects /\ Carries(id[1], Wanted[id], objects[id])

ObjectsInv ==
    /\ ServicesSelect
    /\ Settled => Buildable(agent, "rewrite" \in gates) /\ AllThere

LEMMA BuiltBuildable ==
    ASSUME NEW a, WellFormed(a), NEW g, NEW unlucky \in BOOLEAN, BuildOutcome(a, g, unlucky) = "built"
    PROVE  Buildable(a, "rewrite" \in g)
<1>1. /\ ~(PanicsOnConfig(a.config, a.otel) /\ (a.config.parse = "null" \/ unlucky))
      /\ a.config.parse # "bad" /\ ~ConfigMapsFail(a, "rewrite" \in g) /\ ~TABuildFails(a)
  BY DEF BuildOutcome
<1>2. a.config.parse # "null"
  BY <1>1 DEF PanicsOnConfig
<1>3. a.config.parse \in {"ok", "null", "bad", "mistyped"}
  BY DEF WellFormed, Submittable, InSchema, Fields, IsConfig
<1> QED BY <1>1, <1>2, <1>3 DEF Buildable

LEMMA ApplyObjects ==
    ASSUME AgentInv, ObjectsInv, stored, NEW desired, desired = Wanted,
           Buildable(agent, "rewrite" \in gates),
           Apply(desired), UNCHANGED <<gates, stored, agent, ops>>
    PROVE  ObjectsInv'
<1>1. agent.mode \in Modes
  BY DEF AgentInv, TypeOK
<1>2. ASSUME NEW id \in DOMAIN desired
      PROVE  Carries(id[1], desired[id], Merged(id, desired[id]))
  <2>1. Fits(agent, "rewrite" \in gates, id[1], id[2], desired[id])
    BY <1>1, DesiredFits DEF Wanted
  <2>2. /\ id[1] \in Workloads =>
             {"labels", "podLabels", "volumes", "account", "container"} \subseteq DOMAIN desired[id]
        /\ id[1] = "Service" => {"labels", "selector", "ports"} \subseteq DOMAIN desired[id]
        /\ id[1] = "ConfigMap" => {"labels", "data"} \subseteq DOMAIN desired[id]
    BY <2>1, Zenon DEF Fits, FitsWorkload, FitsService, FitsConfigMap
  <2>3. id[1] = "Service" /\ id \in DOMAIN objects =>
          {"labels", "selector", "ports"} \subseteq DOMAIN objects[id]
    BY DEF ObjectsInv, ServicesSelect
  <2> QED BY <2>2, <2>3, MergedCarries
<1>3. ASSUME NEW id \in DOMAIN desired, id[1] = "Service", id[2] \in CollectorServices(agent)
      PROVE  Merged(id, desired[id]).selector = SelectorOf(agent)
  <2>1. Fits(agent, "rewrite" \in gates, id[1], id[2], desired[id])
    BY <1>1, DesiredFits DEF Wanted
  <2>2. FitsService(agent, id[2], desired[id])
    BY <1>3, <2>1 DEF Fits
  <2>3. TAService(agent.name) \notin CollectorServices(agent)
    BY NamesApart
  <2>4. "selector" \in DOMAIN desired[id] /\ desired[id].selector = SelectorOf(agent)
    BY <1>3, <2>2, <2>3 DEF FitsService
  <2>5. id \in DOMAIN objects =>
          /\ {"labels", "selector", "ports"} \subseteq DOMAIN objects[id]
          /\ objects[id].selector = SelectorOf(agent)
    BY <1>3 DEF ObjectsInv, ServicesSelect
  <2> QED BY <1>3, <2>4, <2>5, MergedServiceSelector
<1>4. ASSUME NEW id \in DOMAIN objects', id[1] = "Service"
      PROVE  /\ {"labels", "selector", "ports"} \subseteq DOMAIN objects'[id]
             /\ id[2] \in CollectorServices(agent) => objects'[id].selector = SelectorOf(agent)
  <2>1. CASE id \in DOMAIN desired /\ objects'[id] = Merged(id, desired[id])
    <3>1. {"labels", "selector", "ports"} \subseteq DOMAIN objects'[id]
      BY <1>2, <1>4, <2>1 DEF Carries
    <3> QED BY <1>3, <1>4, <2>1, <3>1
  <2>2. CASE id \in DOMAIN objects /\ objects'[id] = objects[id]
    BY <1>4, <2>2 DEF ObjectsInv, ServicesSelect
  <2> QED BY <2>1, <2>2, ApplyParts
<1>5. ServicesSelect'
  BY <1>4 DEF ServicesSelect, CollectorServices, SelectorOf
<1>6. ASSUME ~pending' PROVE AllThere'
  <2>1. DOMAIN desired = Current /\ Current' = Current /\ Wanted' = Wanted
    BY DEF Wanted, Current, ById
  <2>2. \A id \in DOMAIN desired : id \in DOMAIN objects' /\ objects'[id] = Merged(id, desired[id])
    BY <1>6, AllWritten
  <2>3. \A id \in DOMAIN desired : id \in DOMAIN objects' /\ Carries(id[1], desired[id], objects'[id])
    BY <1>2, <2>2
  <2> QED BY <2>1, <2>3 DEF AllThere
<1> QED BY <1>5, <1>6 DEF ObjectsInv, Settled

LEMMA ObjectsStep == AgentInv /\ ObjectsInv /\ [Next]_vars => ObjectsInv'
<1> SUFFICES ASSUME AgentInv, ObjectsInv, [Next]_vars PROVE ObjectsInv'
  OBVIOUS
<1>1. CASE UNCHANGED <<gates, stored, agent, pending, objects>>
  BY <1>1 DEF ObjectsInv, ServicesSelect, AllThere, Settled, Current, Wanted
<1>2. CASE /\ objects' = objects /\ (pending' \/ ~stored' \/ agent'.mgmt # "managed")
           /\ stored => agent'.ns = agent.ns /\ agent'.name = agent.name
  <2>1. CASE ~stored
    <3>1. DOMAIN objects' = {}
      BY <1>2, <2>1 DEF AgentInv
    <3>2. ServicesSelect'
      BY <3>1 DEF ServicesSelect
    <3> QED BY <1>2, <3>2 DEF ObjectsInv, Settled
  <2>2. CASE stored
    <3>1. SelectorOf(agent') = SelectorOf(agent) /\ CollectorServices(agent') = CollectorServices(agent)
      BY <1>2, <2>2, SelectorByName DEF CollectorServices
    <3>2. ServicesSelect'
      BY <1>2, <3>1 DEF ObjectsInv, ServicesSelect
    <3> QED BY <1>2, <3>2 DEF ObjectsInv, Settled
  <2> QED BY <2>1, <2>2
<1>3. ASSUME NEW b, Submittable(b), Admit(b), UNCHANGED <<gates, objects>>,
             stored => b.ns = agent.ns /\ b.name = agent.name
      PROVE  ObjectsInv'
  <2>1. CASE UNCHANGED <<stored, agent, pending, outcome>>
    BY <1>1, <1>3, <2>1
  <2>2. CASE stored' = TRUE /\ pending' = TRUE /\ agent'.ns = b.ns /\ agent'.name = b.name
    BY <1>2, <1>3, <2>2
  <2> QED BY <1>3, <2>1, <2>2, AdmitTyped
<1>4. ASSUME NEW a \in Submissions, CreateAgent(a) PROVE ObjectsInv'
  <2>1. Submittable(a)
    BY SubmissionsAssumption DEF Submittable
  <2> QED BY <1>3, <1>4, <2>1 DEF CreateAgent
<1>5. ASSUME NEW p \in Patches, PatchAgent(p) PROVE ObjectsInv'
  <2>1. stored /\ Admit(Over(p, agent)) /\ UNCHANGED <<gates, objects>>
    BY <1>5 DEF PatchAgent
  <2>2. /\ Submittable(Over(p, agent))
        /\ Over(p, agent).ns = agent.ns /\ Over(p, agent).name = agent.name
    BY <2>1, PatchedSubmittable
  <2> QED BY <1>3, <2>1, <2>2
<1>6. ASSUME DeleteAgent PROVE ObjectsInv'
  <2>1. ~stored' /\ DOMAIN objects' = {}
    BY <1>6 DEF DeleteAgent
  <2> QED BY <2>1 DEF ObjectsInv, ServicesSelect, Settled
<1>7. ASSUME NEW g \in Gates, Restart(g) PROVE ObjectsInv'
  BY <1>2, <1>7 DEF Restart, AgentInv, TypeOK
<1>8. ASSUME NEW unlucky \in BOOLEAN, Reconcile(unlucky) PROVE ObjectsInv'
  <2>1. stored /\ UNCHANGED <<gates, stored, agent, ops>>
    BY <1>8 DEF Reconcile, AgentInv
  <2>2. CASE agent.mgmt = "unmanaged" /\ objects' = objects
    BY <1>2, <2>1, <2>2
  <2>3. CASE UNCHANGED <<pending, objects>>
    BY <1>1, <2>1, <2>3
  <2>4. CASE /\ BuildOutcome(agent, gates, unlucky) = "built"
             /\ \E built \in {BuildCollector(agent, gates)} : \E desired \in {ById(built)} : Apply(desired)
    <3>1. Buildable(agent, "rewrite" \in gates)
      BY <2>1, <2>4, BuiltBuildable DEF AgentInv
    <3>2. PICK desired : desired = Wanted /\ Apply(desired)
      BY <2>4 DEF Wanted
    <3> QED BY <2>1, <3>1, <3>2, ApplyObjects
  <2> QED BY <1>8, <2>2, <2>3, <2>4 DEF Reconcile
<1> QED BY <1>1, <1>4, <1>5, <1>6, <1>7, <1>8 DEF Next, vars

----------------------------------------------------------------------------
\* What is there for an agent that is settled, with what the proofs know of it.

LEMMA InIds ==
    ASSUME NEW kind, NEW name, NEW body, NEW built, Object(kind, name, body) \subseteq built
    PROVE  <<kind, name>> \in Ids(built)
<1> DEFINE id == <<kind, name>>
           o == <<id, body>>
<1>1. o \in built
  BY DEF Object
<1> HIDE DEF id
<1>2. o[1] = id
  OBVIOUS
<1> HIDE DEF o
<1> QED BY <1>1, <1>2 DEF Ids, id

\* The kind of the collector's workload.
WorkloadKind(a) ==
    CASE a.mode = "deployment" -> "Deployment" [] a.mode = "statefulset" -> "StatefulSet"
      [] a.mode = "daemonset" -> "DaemonSet" [] OTHER -> ""

LEMMA CollectorBuilt ==
    ASSUME NEW a, NEW g, a.mode \in Modes, a.mode # "sidecar"
    PROVE  WorkloadKind(a) \in Workloads /\ CollectorId(WorkloadKind(a), a) \in Ids(BuildCollector(a, g))
<1>1. CASE a.mode = "deployment"
  <2>1. Deployment(a) \subseteq BuildCollector(a, g)
    BY <1>1 DEF BuildCollector, Build
  <2>2. WorkloadKind(a) = "Deployment"
    BY <1>1 DEF WorkloadKind
  <2> QED BY <2>1, <2>2, InIds DEF Deployment, CollectorId, Workloads
<1>2. CASE a.mode = "statefulset"
  <2>1. StatefulSet(a) \subseteq BuildCollector(a, g)
    BY <1>2 DEF BuildCollector, Build
  <2>2. WorkloadKind(a) = "StatefulSet"
    BY <1>2 DEF WorkloadKind
  <2>3. PICK body : StatefulSet(a) = Object("StatefulSet", Collector(a.name), body)
    BY Zenon DEF StatefulSet
  <2> QED BY <2>1, <2>2, <2>3, InIds DEF CollectorId, Workloads
<1>3. CASE a.mode = "daemonset"
  <2>1. DaemonSet(a) \subseteq BuildCollector(a, g)
    BY <1>3 DEF BuildCollector, Build
  <2>2. WorkloadKind(a) = "DaemonSet"
    BY <1>3 DEF WorkloadKind
  <2>3. PICK body : DaemonSet(a) = Object("DaemonSet", Collector(a.name), body)
    BY Zenon DEF DaemonSet
  <2> QED BY <2>1, <2>2, <2>3, InIds DEF CollectorId, Workloads
<1> QED BY <1>1, <1>2, <1>3 DEF Modes

LEMMA AroundBuilt ==
    ASSUME NEW a, NEW g
    PROVE  /\ <<"Service", MonitoringName(a.name)>> \in Ids(BuildCollector(a, g))
           /\ <<"ConfigMap", ConfigMapName(a.name)>> \in Ids(BuildCollector(a, g))
           /\ ~IsEmpty(a.prom) => <<"ConfigMap", PrometheusConfigMap(a.name)>> \in Ids(BuildCollector(a, g))
           /\ a.account = "" => <<"ServiceAccount", ServiceAccountOf(a.name)>> \in Ids(BuildCollector(a, g))
<1> DEFINE all == BuildCollector(a, g)
<1>0. MonitoringService(a) \cup ConfigMaps(a, "rewrite" \in g) \cup ServiceAccount(a) \subseteq all
  BY DEF BuildCollector, Build
<1> HIDE DEF all
<1>1. <<"Service", MonitoringName(a.name)>> \in Ids(all)
  <2>1. PICK body : MonitoringService(a) = Object("Service", MonitoringName(a.name), body)
    BY Zenon DEF MonitoringService
  <2> QED BY <1>0, <2>1, InIds
<1>2. <<"ConfigMap", ConfigMapName(a.name)>> \in Ids(all)
  <2>1. PICK body : Object("ConfigMap", ConfigMapName(a.name), body) \subseteq ConfigMaps(a, "rewrite" \in g)
    BY Zenon DEF ConfigMaps
  <2> QED BY <1>0, <2>1, InIds
<1>3. ASSUME ~IsEmpty(a.prom) PROVE <<"ConfigMap", PrometheusConfigMap(a.name)>> \in Ids(all)
  <2>1. PICK body : Object("ConfigMap", PrometheusConfigMap(a.name), body) \subseteq ConfigMaps(a, "rewrite" \in g)
    BY <1>3, Zenon DEF ConfigMaps
  <2> QED BY <1>0, <2>1, InIds
<1>4. ASSUME a.account = "" PROVE <<"ServiceAccount", ServiceAccountOf(a.name)>> \in Ids(all)
  <2>1. PICK body : ServiceAccount(a) = Object("ServiceAccount", ServiceAccountOf(a.name), body)
    BY <1>4, Zenon DEF ServiceAccount
  <2> QED BY <1>0, <2>1, InIds
<1> QED BY <1>1, <1>2, <1>3, <1>4 DEF all

LEMMA AllocatorBuilt ==
    ASSUME NEW a, NEW g, a.ta
    PROVE  /\ <<"ConfigMap", TAConfigMap(a.name)>> \in Ids(BuildCollector(a, g))
           /\ <<"Deployment", TargetAllocator(a.name)>> \in Ids(BuildCollector(a, g))
           /\ <<"Service", TAService(a.name)>> \in Ids(BuildCollector(a, g))
           /\ <<"ServiceAccount", <<"target-allocator", "service-acct">>>> \in Ids(BuildCollector(a, g))
<1> DEFINE all == BuildCollector(a, g)
<1>0. TAConfigMapObject(a) \cup TADeployment(a) \cup TAServiceAccount(a) \cup TAServiceObject(a) \subseteq all
  BY DEF BuildCollector, TABuild
<1> HIDE DEF all
<1>1. <<"ConfigMap", TAConfigMap(a.name)>> \in Ids(all)
  <2>1. PICK body : TAConfigMapObject(a) = Object("ConfigMap", TAConfigMap(a.name), body)
    BY Zenon DEF TAConfigMapObject
  <2> QED BY <1>0, <2>1, InIds
<1>2. <<"Deployment", TargetAllocator(a.name)>> \in Ids(all)
  <2>1. PICK body : TADeployment(a) = Object("Deployment", TargetAllocator(a.name), body)
    BY Zenon DEF TADeployment
  <2> QED BY <1>0, <2>1, InIds
<1>3. <<"Service", TAService(a.name)>> \in Ids(all)
  <2>1. PICK body : TAServiceObject(a) = Object("Service", TAService(a.name), body)
    BY Zenon DEF TAServiceObject
  <2> QED BY <1>0, <2>1, InIds
<1>4. <<"ServiceAccount", <<"target-allocator", "service-acct">>>> \in Ids(all)
  <2>1. PICK body : TAServiceAccount(a) = Object("ServiceAccount", <<"target-allocator", "service-acct">>, body)
    BY Zenon DEF TAServiceAccount
  <2> QED BY <1>0, <2>1, InIds
<1> QED BY <1>1, <1>2, <1>3, <1>4 DEF all

\* What is known of every object of a settled agent.
LEMMA ThereAndFits ==
    ASSUME AgentInv, ObjectsInv, Settled, NEW id \in Current
    PROVE  /\ id \in DOMAIN objects
           /\ Carries(id[1], Wanted[id], objects[id])
           /\ Fits(agent, "rewrite" \in gates, id[1], id[2], Wanted[id])
           /\ id = <<id[1], id[2]>>
<1>1. agent.mode \in Modes
  BY DEF AgentInv, TypeOK, Settled
<1>2. id \in DOMAIN Wanted
  BY DEF Wanted, Current, ById
<1>3. id = <<id[1], id[2]>> /\ Fits(agent, "rewrite" \in gates, id[1], id[2], Wanted[id])
  BY <1>1, <1>2, DesiredFits DEF Wanted
<1> QED BY <1>3 DEF ObjectsInv, AllThere

LEMMA WorkloadThere ==
    ASSUME AgentInv, ObjectsInv, Settled, NEW id \in Current, id[1] \in Workloads
    PROVE  /\ FitsWorkload(agent, id[1], id[2], Wanted[id])
           /\ objects[id].volumes = Wanted[id].volumes /\ objects[id].account = Wanted[id].account
           /\ objects[id].container = Wanted[id].container
           /\ Selects(Wanted[id].podLabels, objects[id].podLabels)
           /\ objects[id].podLabels \in PodsOf(Current)
<1>1. objects[id].podLabels \in PodsOf(Current)
  BY DEF PodsOf
<1> QED BY <1>1, ThereAndFits DEF Fits, Carries

LEMMA ServiceThere ==
    ASSUME AgentInv, ObjectsInv, Settled, NEW name, <<"Service", name>> \in Current
    PROVE  LET id == <<"Service", name>>
           IN  /\ id \in DOMAIN objects
               /\ FitsService(agent, name, Wanted[id])
               /\ objects[id].ports = Wanted[id].ports
               /\ Selects(Wanted[id].labels, objects[id].labels)
               /\ Selects(Wanted[id].selector, objects[id].selector)
<1> DEFINE id == <<"Service", name>>
<1>1. id[1] = "Service" /\ id[2] = name
  OBVIOUS
<1> HIDE DEF id
<1>2. id \in Current
  BY DEF id
<1>3. /\ id \in DOMAIN objects
      /\ Carries("Service", Wanted[id], objects[id])
      /\ Fits(agent, "rewrite" \in gates, "Service", name, Wanted[id])
  BY <1>1, <1>2, ThereAndFits
<1>4. /\ id \in DOMAIN objects
      /\ FitsService(agent, name, Wanted[id])
      /\ objects[id].ports = Wanted[id].ports
      /\ Selects(Wanted[id].labels, objects[id].labels)
      /\ Selects(Wanted[id].selector, objects[id].selector)
  BY <1>3 DEF Fits, Carries
<1> QED BY <1>4 DEF id

LEMMA ConfigMapThere ==
    ASSUME AgentInv, ObjectsInv, Settled, NEW name, <<"ConfigMap", name>> \in Current
    PROVE  LET id == <<"ConfigMap", name>>
           IN  /\ FitsConfigMap(agent, "rewrite" \in gates, name, Wanted[id])
               /\ objects[id].data = Wanted[id].data
<1> DEFINE id == <<"ConfigMap", name>>
<1>1. id[1] = "ConfigMap" /\ id[2] = name
  OBVIOUS
<1> HIDE DEF id
<1>2. id \in Current
  BY DEF id
<1>3. /\ Carries("ConfigMap", Wanted[id], objects[id])
      /\ Fits(agent, "rewrite" \in gates, "ConfigMap", name, Wanted[id])
  BY <1>1, <1>2, ThereAndFits
<1>4. /\ FitsConfigMap(agent, "rewrite" \in gates, name, Wanted[id])
      /\ objects[id].data = Wanted[id].data
  BY <1>3 DEF Fits, Carries
<1> QED BY <1>4 DEF id

\* The collector's pods are there unless its mode is sidecar.
LEMMA CollectorPods ==
    ASSUME AgentInv, ObjectsInv, Settled, agent.mode # "sidecar"
    PROVE  \E labels \in PodsOf(Current) :
              Selects(AgentLabels(agent, Collector(agent.name)), labels) /\ Selects(SelectorOf(agent), labels)
<1> DEFINE id == CollectorId(WorkloadKind(agent), agent)
           a == agent
<1>1. a.mode \in Modes
  BY DEF AgentInv, TypeOK, Settled
<1>2. WorkloadKind(a) \in Workloads /\ id \in Current
  BY <1>1, CollectorBuilt DEF Current
<1>3. id[1] = WorkloadKind(a) /\ id[2] = Collector(a.name)
  BY DEF CollectorId
<1> HIDE DEF id
<1>4. /\ FitsWorkload(a, id[1], id[2], Wanted[id])
      /\ Selects(Wanted[id].podLabels, objects[id].podLabels)
      /\ objects[id].podLabels \in PodsOf(Current)
  BY <1>2, <1>3, WorkloadThere
<1>5. Collector(a.name) # TargetAllocator(a.name)
  BY NamesApart
<1>6. Wanted[id].podLabels = AgentLabels(a, Collector(a.name))
  BY <1>3, <1>4, <1>5 DEF FitsWorkload
<1>7. Selects(SelectorOf(a), AgentLabels(a, Collector(a.name)))
  BY AgentSelects DEF AgentLabels
<1>8. Selects(AgentLabels(a, Collector(a.name)), objects[id].podLabels)
  BY <1>4, <1>6
<1>9. Selects(SelectorOf(a), objects[id].podLabels)
  BY <1>7, <1>8, SelectsAll
<1> QED BY <1>4, <1>8, <1>9

----------------------------------------------------------------------------
\* One reference after another.

AgentVolume(a) ==
    Volume(<<"otc-internal", "">>, <<"ConfigMap", ConfigMapName(a.name)>>,
           {Entry.agent} \cup (IF a.otel # Nil THEN {Entry.otel} ELSE {}))

PrometheusVolume(a) ==
    Volume(<<"prometheus-config", "">>, <<"ConfigMap", PrometheusConfigMap(a.name)>>, {Entry.prometheus})

UserVolume(map) == Volume(<<"configmap", map>>, <<"User", <<map, "">>>>, {})

LEMMA OneItem ==
    ASSUME NEW x
    PROVE  ToSet(<<x>>) = {x}
BY DEF ToSet

LEMMA VolumeSet ==
    ASSUME NEW a, WellFormed(a)
    PROVE  ToSet(Volumes(a)) =
             {AgentVolume(a)} \cup (IF IsEmpty(a.prom) THEN {} ELSE {PrometheusVolume(a)})
               \cup {UserVolume(a.configMaps[k]) : k \in DOMAIN a.configMaps}
<1> DEFINE v == AgentVolume(a)
           p == PrometheusVolume(a)
           maps == a.configMaps
           s == <<v>>
           t == IF IsEmpty(a.prom) THEN <<>> ELSE <<p>>
           u == [k \in DOMAIN maps |-> UserVolume(maps[k])]
<1>1. Volumes(a) = s \o t \o u
  BY DEF Volumes, AgentVolume, PrometheusVolume, UserVolume
<1>2. maps \in Seq(STRING)
  BY DEF WellFormed, Submittable, InSchema, Fields
<1> HIDE DEF v, p, maps
<1>3. IsSequence(s) /\ IsSequence(t)
  BY Single, Empty
<1>4. u \in Seq({UserVolume(maps[k]) : k \in DOMAIN maps}) /\ ToSet(u) = {UserVolume(maps[k]) : k \in DOMAIN maps}
  <2>1. DOMAIN maps = 1 .. Len(maps) /\ Len(maps) \in Nat
    BY <1>2
  <2>2. u \in Seq({UserVolume(maps[k]) : k \in DOMAIN maps})
    BY <2>1
  <2> QED BY <2>2 DEF ToSet
<1>5. ToSet(s) = {v} /\ ToSet(t) = IF IsEmpty(a.prom) THEN {} ELSE {p}
  <2>1. ToSet(<<>>) = {}
    BY DEF ToSet
  <2> QED BY <2>1, OneItem
<1> HIDE DEF s, t, u
<1>6. IsSequence(u) /\ IsSequence(s \o t)
  BY <1>3, <1>4, Joined DEF IsSequence
<1>7. ToSet(s \o t \o u) = ToSet(s) \cup ToSet(t) \cup ToSet(u)
  BY <1>3, <1>6, JoinedSet
<1> QED BY <1>1, <1>4, <1>5, <1>7 DEF v, p, maps

\* The collector's volumes.
LEMMA CollectorVolumesResolve ==
    ASSUME AgentInv, ObjectsInv, Settled, NEW w, w.volumes = Volumes(agent),
           w.container.mounts = Container(agent).mounts
    PROVE  VolumesResolve(Current, w)
<1> DEFINE a == agent
           cm == <<"ConfigMap", ConfigMapName(a.name)>>
           pm == <<"ConfigMap", PrometheusConfigMap(a.name)>>
<1>0. WellFormed(a)
  BY DEF AgentInv, Settled
<1>1. ToSet(w.volumes) =
             {AgentVolume(a)} \cup (IF IsEmpty(a.prom) THEN {} ELSE {PrometheusVolume(a)})
               \cup {UserVolume(a.configMaps[k]) : k \in DOMAIN a.configMaps}
  BY <1>0, VolumeSet
<1>2. /\ cm \in Current
      /\ ~IsEmpty(a.prom) => pm \in Current
  BY AroundBuilt DEF Current
<1>3. {Entry.agent} \cup (IF a.otel # Nil THEN {Entry.otel} ELSE {}) \subseteq DOMAIN objects[cm].data
  BY <1>2, ConfigMapThere DEF FitsConfigMap
<1>4. ~IsEmpty(a.prom) => {Entry.prometheus} \subseteq DOMAIN objects[pm].data
  BY <1>2, ConfigMapThere DEF FitsConfigMap
<1>5. /\ AgentVolume(a).source = cm /\ AgentVolume(a).name = <<"otc-internal", "">>
      /\ AgentVolume(a).keys = {Entry.agent} \cup (IF a.otel # Nil THEN {Entry.otel} ELSE {})
  BY DEF Volume, AgentVolume
<1>6. /\ PrometheusVolume(a).source = pm /\ PrometheusVolume(a).name = <<"prometheus-config", "">>
      /\ PrometheusVolume(a).keys = {Entry.prometheus}
  BY DEF Volume, PrometheusVolume
<1>7. \A map : UserVolume(map).source[1] # "ConfigMap"
  <2>1. \A map : UserVolume(map).source = <<"User", <<map, "">>>>
    BY DEF Volume, UserVolume
  <2>2. \A x : <<"User", x>>[1] = "User"
    OBVIOUS
  <2> QED BY <2>1, <2>2
<1> HIDE DEF cm, pm
<1>8. \A v \in ToSet(w.volumes) :
         v.source[1] = "ConfigMap" => v.source \in Current /\ v.keys \subseteq DOMAIN objects[v.source].data
  BY <1>1, <1>2, <1>3, <1>4, <1>5, <1>6, <1>7
<1>9. ToSet(w.container.mounts) \subseteq {v.name : v \in ToSet(w.volumes)}
  <2> DEFINE m == <<"otc-internal", "">>
             n == <<"prometheus-config", "">>
             s == <<m>>
             t == IF IsEmpty(a.prom) THEN <<>> ELSE <<n>>
  <2>1. w.container.mounts = s \o t
    BY DEF Container
  <2> HIDE DEF m, n
  <2>2. IsSequence(s) /\ IsSequence(t)
    BY Single, Empty
  <2>3. ToSet(s) = {m} /\ ToSet(t) = IF IsEmpty(a.prom) THEN {} ELSE {n}
    <3>1. ToSet(<<>>) = {}
      BY DEF ToSet
    <3> QED BY <3>1, OneItem
  <2> HIDE DEF s, t
  <2>4. ToSet(w.container.mounts) = {m} \cup (IF IsEmpty(a.prom) THEN {} ELSE {n})
    BY <2>1, <2>2, <2>3, JoinedSet
  <2>5. /\ AgentVolume(a).name = m /\ PrometheusVolume(a).name = n
        /\ AgentVolume(a) \in ToSet(w.volumes)
        /\ ~IsEmpty(a.prom) => PrometheusVolume(a) \in ToSet(w.volumes)
    BY <1>1, <1>5, <1>6 DEF m, n
  <2> QED BY <2>4, <2>5
<1> QED BY <1>8, <1>9 DEF VolumesResolve

\* Those of the allocator.
LEMMA AllocatorVolumesResolve ==
    ASSUME AgentInv, ObjectsInv, Settled, agent.ta, NEW w, w.volumes = TAVolumes(agent),
           w.container = TAContainer(agent)
    PROVE  VolumesResolve(Current, w)
<1> DEFINE a == agent
           cm == <<"ConfigMap", TAConfigMap(a.name)>>
           u == Volume(<<"ta-internal", "">>, cm, {"targetallocator.yaml"})
           v == Volume(<<"ta-client", "">>, <<"Secret", <<"ta-client-cert", "">>>>, {"ca.crt"})
           x == Volume(<<"ta-secret", "">>, <<"Secret", <<"cert", "">>>>, {"tls.crt", "tls.key"})
<1>1. cm \in Current
  BY AllocatorBuilt DEF Current
<1>2. "targetallocator.yaml" \in DOMAIN objects[cm].data
  BY <1>1, ConfigMapThere DEF FitsConfigMap
<1>3. w.volumes = <<u, v, x>>
  BY DEF TAVolumes
<1>4. /\ u.source = cm /\ u.keys = {"targetallocator.yaml"} /\ u.name = <<"ta-internal", "">>
      /\ v.source = <<"Secret", <<"ta-client-cert", "">>>> /\ v.name = <<"ta-client", "">>
      /\ x.source = <<"Secret", <<"cert", "">>>> /\ x.name = <<"ta-secret", "">>
  BY DEF Volume
<1> HIDE DEF cm, u, v, x
<1>5. v.source[1] # "ConfigMap" /\ x.source[1] # "ConfigMap"
  <2>1. \A secret : <<"Secret", secret>>[1] = "Secret"
    OBVIOUS
  <2>2. v.source[1] = "Secret" /\ x.source[1] = "Secret"
    BY <1>4, <2>1, Zenon
  <2> QED BY <2>2
<1>6. \A i, j, k : ToSet(<<i, j, k>>) = {i, j, k}
  BY DEF ToSet
<1>7. ToSet(w.volumes) = {u, v, x}
  BY <1>3, <1>6
<1>8. w.container.mounts = <<u.name, v.name, x.name>>
  <2> DEFINE i == <<"ta-internal", "">>
             j == <<"ta-client", "">>
             k == <<"ta-secret", "">>
  <2>1. TAContainer(a).mounts = <<i, j, k>>
    BY Zenon DEF TAContainer
  <2>2. u.name = i /\ v.name = j /\ x.name = k
    BY <1>4
  <2> HIDE DEF i, j, k
  <2> QED BY <2>1, <2>2
<1>9. ToSet(w.container.mounts) = {u.name, v.name, x.name}
  BY <1>6, <1>8
<1>10. ToSet(w.container.mounts) \subseteq {y.name : y \in ToSet(w.volumes)}
  BY <1>7, <1>9
<1>11. \A y \in ToSet(w.volumes) :
         y.source[1] = "ConfigMap" => y.source \in Current /\ y.keys \subseteq DOMAIN objects[y.source].data
  BY <1>1, <1>2, <1>4, <1>5, <1>7
<1> QED BY <1>10, <1>11 DEF VolumesResolve

LEMMA WorkloadResolves ==
    ASSUME AgentInv, ObjectsInv, Settled, NEW id \in Current, id[1] \in Workloads
    PROVE  /\ VolumesResolve(Current, objects[id])
           /\ \/ <<"ServiceAccount", objects[id].account>> \in Current
              \/ objects[id].account \in {<<agent.account, "">>, <<agent.taAccount, "">>}
<1> DEFINE a == agent
           w == objects[id]
<1>1. /\ FitsWorkload(a, id[1], id[2], Wanted[id])
      /\ w.volumes = Wanted[id].volumes /\ w.account = Wanted[id].account
      /\ w.container = Wanted[id].container
  BY WorkloadThere
<1> HIDE DEF w
<1>2. CASE w.volumes = Volumes(a) /\ w.account = ServiceAccountName(a)
             /\ w.container.mounts = Container(a).mounts
  <2>1. VolumesResolve(Current, w)
    BY <1>2, CollectorVolumesResolve
  <2>2. a.account = "" => <<"ServiceAccount", w.account>> \in Current
    BY <1>2, AroundBuilt DEF ServiceAccountName, Current
  <2>3. a.account # "" => w.account = <<a.account, "">>
    BY <1>2 DEF ServiceAccountName
  <2> QED BY <2>1, <2>2, <2>3 DEF w
<1>3. CASE a.ta /\ w.volumes = TAVolumes(a) /\ w.account = TAServiceAccountName(a) /\ w.container = TAContainer(a)
  <2>1. VolumesResolve(Current, w)
    BY <1>3, AllocatorVolumesResolve
  <2>2. a.taAccount = "" => <<"ServiceAccount", w.account>> \in Current
    BY <1>3, AllocatorBuilt DEF TAServiceAccountName, Current
  <2>3. a.taAccount # "" => w.account = <<a.taAccount, "">>
    BY <1>3 DEF TAServiceAccountName
  <2> QED BY <2>1, <2>2, <2>3 DEF w
<1> QED BY <1>1, <1>2, <1>3 DEF FitsWorkload

\* Services and budgets select pods.
LEMMA ServiceSelectsPods ==
    ASSUME AgentInv, ObjectsInv, Settled, NEW name, NEW id, id = <<"Service", name>>, id \in Current
    PROVE  PodsSelected(Current, id)
<1> DEFINE a == agent
<1>1. /\ id \in DOMAIN objects
      /\ FitsService(a, name, Wanted[id])
      /\ Selects(Wanted[id].selector, objects[id].selector)
  BY ServiceThere
<1>2. id[1] = "Service" /\ id[2] = name
  OBVIOUS
<1>3. CASE name \in CollectorServices(a)
  <2>1. objects[id].selector = SelectorOf(a)
    BY <1>1, <1>2, <1>3 DEF ObjectsInv, ServicesSelect
  <2>2. a.mode # "sidecar" => \E labels \in PodsOf(Current) : Selects(SelectorOf(a), labels)
    BY CollectorPods
  <2> QED BY <2>1, <2>2 DEF PodsSelected
<1>4. CASE name = TAService(a.name) /\ a.ta /\ Wanted[id].selector = TALabels(a, TargetAllocator(a.name))
  <2> DEFINE ta == <<"Deployment", TargetAllocator(a.name)>>
             own == TALabels(a, TargetAllocator(a.name))
             pods == VersionedTALabels(a, TargetAllocator(a.name))
             sel == objects[id].selector
  <2>1. ta \in Current
    BY <1>4, AllocatorBuilt DEF Current
  <2>2. ta[1] = "Deployment" /\ ta[2] = TargetAllocator(a.name)
    OBVIOUS
  <2>3. Collector(a.name) # TargetAllocator(a.name)
    BY NamesApart
  <2> HIDE DEF ta
  <2>4. /\ FitsWorkload(a, ta[1], ta[2], Wanted[ta])
        /\ Selects(Wanted[ta].podLabels, objects[ta].podLabels)
        /\ objects[ta].podLabels \in PodsOf(Current)
    BY <2>1, <2>2, WorkloadThere DEF Workloads
  <2>5. Selects(pods, objects[ta].podLabels)
    BY <2>2, <2>3, <2>4 DEF FitsWorkload
  <2>6. ASSUME ~SelectsTooMuch(id) PROVE Selects(sel, pods)
    <3>1. DOMAIN sel \subseteq DOMAIN TALabels(a, <<>>) \ {"version"}
      BY <1>4, <2>6 DEF SelectsTooMuch
    <3>2. DOMAIN sel \subseteq DOMAIN own \ {"version"}
      BY <3>1, AllocatorLabels
    <3>3. \A key \in DOMAIN own : sel[key] = own[key]
      BY <1>1, <1>4 DEF Selects
    <3>4. \A key \in DOMAIN own \ {"version"} : key \in DOMAIN pods /\ pods[key] = own[key]
      BY AllocatorLabels
    <3> HIDE DEF sel, own, pods
    <3> QED BY <3>2, <3>3, <3>4 DEF Selects
  <2>7. ~SelectsTooMuch(id) => Selects(sel, objects[ta].podLabels)
    BY <2>5, <2>6, SelectsAll
  <2> QED BY <2>4, <2>7 DEF PodsSelected
<1> QED BY <1>1, <1>3, <1>4 DEF FitsService

LEMMA BudgetSelectsPods ==
    ASSUME AgentInv, ObjectsInv, Settled, NEW id \in Current, id[1] = "PodDisruptionBudget"
    PROVE  PodsSelected(Current, id)
<1>1. objects[id] = Wanted[id] /\ Wanted[id].selector = AgentLabels(agent, Collector(agent.name))
  BY ThereAndFits DEF Carries, Fits, FitsOther, Workloads
<1>2. agent.mode # "sidecar" =>
        \E labels \in PodsOf(Current) : Selects(AgentLabels(agent, Collector(agent.name)), labels)
  BY CollectorPods
<1> QED BY <1>1, <1>2 DEF PodsSelected

\* The last of the spec's ports of a name is a port of the agent.
LEMMA SpecPortThere ==
    ASSUME NEW a, WellFormed(a), a.config.parse = "ok", NEW p \in servicePortsFromCfg(a)
    PROVE  \E q \in AgentPorts(a) : q.name = p.name
<1> DEFINE ports == a.ports
           same == {k \in DOMAIN ports : ports[k].name = p.name}
           last == {k \in DOMAIN ports :
                      \A j \in DOMAIN ports : ports[j].name = ports[k].name => j <= k}
<1>1. ports \in Seq(ToSet(ports))
  BY DEF WellFormed, Submittable, InSchema, Fields, ArePorts
<1>2. Len(ports) \in Nat /\ DOMAIN ports = 1 .. Len(ports)
  BY <1>1
<1>3. PICK i \in DOMAIN ports : p = ports[i]
  BY DEF servicePortsFromCfg
<1>4. i \in same
  BY <1>3
<1> DEFINE T == {m \in Nat : \E k \in same : Len(ports) - k = m}
<1>5. T \subseteq Nat /\ T # {}
  <2>1. Len(ports) - i \in Nat
    BY <1>2, <1>4
  <2> QED BY <1>4, <2>1
<1>6. PICK m \in T : \A n \in T : m <= n
  <2> HIDE DEF T
  <2> QED BY <1>5, FirstNumber
<1>7. PICK k \in same : Len(ports) - k = m
  OBVIOUS
<1>8. ASSUME NEW j \in same PROVE j <= k
  <2>1. Len(ports) - j \in Nat /\ j \in Nat /\ k \in Nat
    BY <1>2
  <2>2. Len(ports) - j \in T
    BY <2>1
  <2>3. m <= Len(ports) - j
    BY <1>6, <2>2
  <2> QED BY <1>2, <1>7, <2>1, <2>3
<1>9. k \in last /\ ports[k].name = p.name
  BY <1>7, <1>8
<1>10. {ports[n] : n \in last} \subseteq AgentPorts(a)
  BY DEF AgentPorts, getContainerPorts
<1> HIDE DEF last, ports
<1> QED BY <1>9, <1>10

LEMMA BackendThere ==
    ASSUME AgentInv, ObjectsInv, Settled, NEW p \in servicePortsFromCfg(agent)
    PROVE  BackendResolves(Current, Backend(agent, p))
<1> DEFINE a == agent
           id == <<"Service", ServiceName(a.name)>>
<1>1. Backend(a, p).service = id /\ Backend(a, p).port = p.name
  BY Zenon DEF Backend
<1>2. a.config.parse \in {"ok", "mistyped"}
  BY DEF ObjectsInv, Buildable
<1>3. CASE a.config.parse = "ok"
  <2>1. WellFormed(a)
    BY DEF AgentInv, Settled
  <2>2. PICK q \in AgentPorts(a) : q.name = p.name
    BY <1>3, <2>1, SpecPortThere
  <2>3. id \in Current
    <3>1. ServiceName(a.name) \in ReceiverServices(a)
      BY DEF ReceiverServices
    <3> QED BY <2>2, <3>1, ServicesBuilt DEF Current, ServiceId
  <2>4. objects[id].ports = Wanted[id].ports /\ FitsService(a, ServiceName(a.name), Wanted[id])
    BY <2>3, ServiceThere
  <2>5. objects[id].ports = AgentPorts(a)
    BY <2>4 DEF FitsService
  <2> HIDE DEF id
  <2> QED BY <1>1, <2>2, <2>3, <2>5 DEF BackendResolves
<1>4. CASE a.config.parse = "mistyped"
  BY <1>4 DEF BackendResolves
<1> QED BY <1>2, <1>3, <1>4

\* A monitor finds the monitoring service.
LEMMA MonitorResolves ==
    ASSUME AgentInv, ObjectsInv, Settled, NEW id \in Current, id[1] = "ServiceMonitor"
    PROVE  \E s \in Current : /\ s[1] = "Service" /\ Selects(objects[id].selector, objects[s].labels)
                              /\ \E p \in objects[s].ports : p.name = objects[id].port
<1> DEFINE s == <<"Service", MonitoringName(agent.name)>>
<1>1. /\ objects[id] = Wanted[id]
      /\ Selects(Wanted[id].selector, SelectorOf(agent)) /\ Wanted[id].port = MonitoringPort
  BY ThereAndFits DEF Carries, Fits, FitsOther, Workloads
<1>2. s \in Current
  BY AroundBuilt DEF Current
<1>3. /\ FitsService(agent, MonitoringName(agent.name), Wanted[s])
      /\ objects[s].ports = Wanted[s].ports /\ Selects(Wanted[s].labels, objects[s].labels)
  BY <1>2, ServiceThere
<1>4. s[1] = "Service"
  OBVIOUS
<1> HIDE DEF s
<1>5. Selects(SelectorOf(agent), Wanted[s].labels) /\ \E p \in Wanted[s].ports : p.name = MonitoringPort
  BY <1>3 DEF FitsService
<1>6. Selects(objects[id].selector, objects[s].labels)
  BY <1>1, <1>3, <1>5, SelectsAll
<1> QED BY <1>1, <1>2, <1>3, <1>4, <1>5, <1>6

\* Collector and allocator find each other.
LEMMA AllocatorFound ==
    ASSUME AgentInv, ObjectsInv, Settled, agent.ta
    PROVE  AllocatorResolves(Current)
<1> DEFINE a == agent
           rewrite == "rewrite" \in gates
           pm == <<"ConfigMap", PrometheusConfigMap(a.name)>>
           tm == <<"ConfigMap", TAConfigMap(a.name)>>
           ts == <<"Service", TAService(a.name)>>
           td == <<"Deployment", TargetAllocator(a.name)>>
           prometheus == objects[pm].data[Entry.prometheus]
           told == objects[tm].data["targetallocator.yaml"]
           endpoints == IF "rewrite" \in gates THEN {prometheus.ta} ELSE ToSet(prometheus.config.scrape)
<1>1. /\ a.prom.config # Nil /\ a.prom.config.scrape # Nil
      /\ {"config", "ta"} \subseteq DOMAIN a.prom /\ "scrape" \in DOMAIN a.prom.config
      /\ ~IsEmpty(a.prom)
  <2>1. getScrapeConfigsFromPromConfig(a.prom) # Nil
    BY DEF ObjectsInv, Buildable, TABuildFails, GetPromConfigFails
  <2>2. IsPrometheus(a.prom)
    BY DEF AgentInv, Settled, WellFormed, Submittable, InSchema, Fields
  <2> QED BY <2>1, <2>2 DEF getScrapeConfigsFromPromConfig, IsPrometheus, IsEmpty
<1>2. pm \in Current /\ tm \in Current /\ ts \in Current /\ td \in Current
  BY <1>1, AroundBuilt, AllocatorBuilt DEF Current
<1>3. prometheus = ReplacedPrometheus(a, rewrite)
  BY <1>2, ConfigMapThere DEF FitsConfigMap
<1>4. told = TAConfigMapData(a)
  BY <1>2, ConfigMapThere DEF FitsConfigMap
<1>5. told.config = a.prom.config /\ told.label_selector = SelectorOf(a)
  BY <1>4 DEF TAConfigMapData, SelectorOf
<1>6. /\ rewrite => prometheus.config.scrape = Nil
      /\ \A e \in endpoints : e = TAService(a.name)
  <2> DEFINE prom == a.prom
             s == TAService(a.name)
             here == objects[pm].data[Entry.prometheus]
  <2>1. CASE rewrite
    <3>1. here = [prom EXCEPT !.config.scrape = Nil, !.ta = s]
      BY <1>3, <2>1 DEF ReplacedPrometheus, ReplacePrometheusConfig, AddTAConfigToPromConfig
    <3> HIDE DEF prom, s, here
    <3>2. here.ta = s /\ here.config.scrape = Nil
      BY <1>1, <3>1 DEF prom
    <3> QED BY <2>1, <3>2 DEF here, s
  <2>2. CASE ~rewrite
    <3>1. here = [prom EXCEPT !.config.scrape = [k \in DOMAIN prom.config.scrape |-> s]]
      BY <1>3, <2>2 DEF ReplacedPrometheus, ReplacePrometheusConfig, AddHTTPSDConfigToPromConfig
    <3> HIDE DEF prom, s, here
    <3>2. here.config.scrape = [k \in DOMAIN prom.config.scrape |-> s]
      BY <1>1, <3>1 DEF prom
    <3>3. \A e \in ToSet(here.config.scrape) : e = s
      BY <3>2 DEF ToSet
    <3> QED BY <2>2, <3>3 DEF here, s
  <2> QED BY <2>1, <2>2
<1>7. {p.target : p \in objects[ts].ports} \subseteq {TargetAllocatorContainerPort}
  <2>1. objects[ts].ports = Wanted[ts].ports /\ FitsService(a, TAService(a.name), Wanted[ts])
    BY <1>2, ServiceThere
  <2>2. TAService(a.name) \notin CollectorServices(a)
    BY NamesApart
  <2> QED BY <2>1, <2>2 DEF FitsService
<1>8. objects[td].container.ports = {TargetAllocatorContainerPort}
  <2>1. td[1] = "Deployment" /\ td[2] = TargetAllocator(a.name)
    OBVIOUS
  <2>2. Collector(a.name) # TargetAllocator(a.name)
    BY NamesApart
  <2> HIDE DEF td
  <2>3. FitsWorkload(a, td[1], td[2], Wanted[td]) /\ objects[td].container = Wanted[td].container
    BY <1>2, <2>1, WorkloadThere DEF Workloads
  <2>4. objects[td].container = TAContainer(a)
    BY <2>1, <2>2, <2>3 DEF FitsWorkload
  <2>5. TAContainer(a).ports = {TargetAllocatorContainerPort}
    BY Zenon DEF TAContainer
  <2> QED BY <2>4, <2>5
<1>9. a.mode # "sidecar" => \E labels \in PodsOf(Current) : Selects(told.label_selector, labels)
  BY <1>5, CollectorPods
<1>10. \A labels \in PodsOf(Current) :
         Selects(told.label_selector, labels) => labels["component"] = <<AgentComponent>>
  <2>1. "component" \in DOMAIN SelectorOf(a) /\ SelectorOf(a)["component"] = <<AgentComponent>>
    BY DEF SelectorOf, SelectorLabels
  <2> QED BY <1>5, <2>1 DEF Selects
<1>11. \A e \in endpoints :
         /\ <<"Service", e>> \in Current
         /\ {p.target : p \in objects[<<"Service", e>>].ports} \subseteq objects[td].container.ports
  BY <1>2, <1>6, <1>7, <1>8
<1> QED BY <1>5, <1>6, <1>9, <1>10, <1>11, Zenon DEF AllocatorResolves

LEMMA EachResolves ==
    ASSUME AgentInv, ObjectsInv, Settled, NEW id \in Current
    PROVE  ObjectResolves(Current, id)
<1> DEFINE o == objects[id]
<1>1. CASE id[1] \in Workloads
  <2> DEFINE found == /\ VolumesResolve(Current, o)
                      /\ <<"ServiceAccount", o.account>> \in Current
                           \/ o.account \in {<<agent.account, "">>, <<agent.taAccount, "">>}
  <2>1. found
    BY <1>1, WorkloadResolves
  <2>2. ObjectResolves(Current, id) = found
    BY <1>1 DEF ObjectResolves, Workloads
  <2> QED BY <2>1, <2>2
<1>2. CASE id[1] = "Service"
  <2>1. id = <<"Service", id[2]>>
    BY <1>2, ThereAndFits
  <2>2. PodsSelected(Current, id)
    BY <2>1, ServiceSelectsPods
  <2> QED BY <1>2, <2>2 DEF ObjectResolves, Workloads
<1>3. CASE id[1] = "PodDisruptionBudget"
  <2>1. PodsSelected(Current, id)
    BY <1>3, BudgetSelectsPods
  <2> QED BY <1>3, <2>1 DEF ObjectResolves, Workloads
<1>4. CASE id[1] = "Ingress"
  <2>1. objects[id] = Wanted[id] /\ \A r \in Wanted[id].rules :
          \E p \in servicePortsFromCfg(agent) : r.backend = Backend(agent, p)
    BY <1>4, ThereAndFits DEF Carries, Fits, FitsOther, Workloads
  <2>2. \A r \in objects[id].rules : BackendResolves(Current, r.backend)
    BY <2>1, BackendThere
  <2> QED BY <1>4, <2>2 DEF ObjectResolves, Workloads
<1>5. CASE id[1] = "Route"
  <2>1. objects[id] = Wanted[id] /\ \E p \in servicePortsFromCfg(agent) : Wanted[id].backend = Backend(agent, p)
    BY <1>5, ThereAndFits DEF Carries, Fits, FitsOther, Workloads
  <2>2. BackendResolves(Current, objects[id].backend)
    BY <2>1, BackendThere
  <2> QED BY <1>5, <2>2 DEF ObjectResolves, Workloads
<1>6. CASE id[1] = "ServiceMonitor"
  <2> DEFINE found == \E s \in Current : /\ s[1] = "Service" /\ Selects(o.selector, objects[s].labels)
                                  /\ \E p \in objects[s].ports : p.name = o.port
  <2>1. found
    BY <1>6, MonitorResolves
  <2>2. ObjectResolves(Current, id) = found
    BY <1>6 DEF ObjectResolves, Workloads
  <2> QED BY <2>1, <2>2
<1>7. CASE id[1] \notin Workloads \cup {"Service", "PodDisruptionBudget", "Ingress", "Route", "ServiceMonitor"}
  BY <1>7 DEF ObjectResolves
<1> QED BY <1>1, <1>2, <1>3, <1>4, <1>5, <1>6, <1>7

\* Once an agent is reconciled its objects fit together (the builders of
\* internal/manifests/collector and targetallocator, and what mutate.go merges), whatever was
\* submitted, patched or left by earlier reconciliations: keys, mounts, accounts, selectors,
\* backends and monitors resolve, and collector and allocator find each other.
THEOREM AlwaysReferencesResolve == Spec => []ReferencesResolve
<1>1. Init => ObjectsInv
  <2>1. Init => DOMAIN objects = {} /\ ~stored
    BY DEF Init
  <2> QED BY <2>1 DEF ObjectsInv, ServicesSelect, Settled
<1>2. AgentInv /\ ObjectsInv => ReferencesResolve
  <2> SUFFICES ASSUME AgentInv, ObjectsInv, Settled
               PROVE  /\ Current \subseteq DOMAIN objects
                      /\ \A id \in Current : ObjectResolves(Current, id)
                      /\ agent.ta => AllocatorResolves(Current)
    BY Zenon DEF ReferencesResolve
  <2>1. Current \subseteq DOMAIN objects
    BY ThereAndFits
  <2> QED BY <2>1, EachResolves, AllocatorFound
<1> QED BY <1>1, <1>2, AgentInvariant, ObjectsStep, PTL DEF Spec
=============================================================================
