------------------------- MODULE AutoMonitorProofs -------------------------
(***************************************************************************)
(* Proof, for any workloads, services, languages and monitor settings and  *)
(* any number of changes, failures and restarts, that without RestartPods  *)
(* the operator never changes a pod template by itself.                    *)
(***************************************************************************)
EXTENDS AutoMonitor, FiniteSetTheorems, SequenceTheorems, TLAPS

\* Without RestartPods neither the service handler nor the pass at the start ever
\* has a workload in hand.
HandsOff ==
    /\ DOMAIN template = Workload
    /\ ~restartPods => todo = Idle /\ patching = Idle

\* At the start nothing is in hand.
LEMMA HandsOffInit == Init => HandsOff
BY DEF Init, HandsOff

\* A write that leaves the template alone stores it as it is: the webhook finds it
\* not safe to mutate.
LEMMA WriteKeepsTemplate ==
    ASSUME HandsOff, ~restartPods, NEW w \in Workload, Write(w, template[w], FALSE)
    PROVE  \A v \in Workload : template'[v] = template[v]
BY DEF HandsOff, Write, Admitted, safeToMutate

\* Only a handler or a pass at the start that RestartPods allows takes workloads.
LEMMA HandsOffNext == HandsOff /\ [Next]_vars => HandsOff'
<1> SUFFICES ASSUME HandsOff, [Next]_vars PROVE HandsOff'
  OBVIOUS
<1> USE DEF HandsOff, Idle, serviceVars, procVars, bounds
<1>1. ASSUME NEW s \in Service PROVE
        /\ \A selector : ChangeService(s, selector) => HandsOff'
        /\ SyncService(s) \/ Resync(s) => HandsOff'
  BY DEF ChangeService, SyncService, Resync
<1>2. ASSUME NEW w \in Workload, NEW annotations, EditTemplate(w, annotations) PROVE HandsOff'
  BY <1>2 DEF EditTemplate, Write
<1>3. ASSUME NEW w \in Workload, ScaleWorkload(w) \/ UpdateStatus(w) \/ SyncWorkload(w)
      PROVE  HandsOff'
  BY <1>3 DEF ScaleWorkload, UpdateStatus, SyncWorkload, Write
<1>4. CASE TakeEvent
  BY <1>4 DEF TakeEvent
<1>5. CASE MutateAndPatchAll
  BY <1>5 DEF MutateAndPatchAll
<1>6. ASSUME NEW p \in Proc, MonitorStep(p) PROVE HandsOff'
  <2>1. PICK w \in Workload : MutateCopy(p, w)
    BY <1>6 DEF MonitorStep
  <2>2. w \in todo[p] /\ template' = template /\ restartPods' = restartPods
    BY <2>1 DEF MutateCopy
  <2> QED BY <2>2
<1>7. ASSUME NEW p \in Proc, SendPatch(p) PROVE HandsOff'
  <2>1. patching[p] # {} /\ restartPods' = restartPods /\ DOMAIN template' = DOMAIN template
    BY <1>7 DEF SendPatch, Write
  <2> QED BY <2>1
<1>8. ASSUME NEW p \in Proc, PatchFails(p) PROVE HandsOff'
  BY <1>8 DEF PatchFails
<1>9. CASE Restart
  BY <1>9 DEF Restart
<1>10. CASE UNCHANGED vars
  BY <1>10 DEF vars
<1> QED
  BY <1>1, <1>2, <1>3, <1>4, <1>5, <1>6, <1>7, <1>8, <1>9, <1>10 DEF Next

\* What a step may do to a pod template when RestartPods is off.
LEMMA StepKeepsTemplate ==
    ASSUME HandsOff, [Next]_vars, ~restartPods, NEW v \in Workload, edits'[v] = edits[v],
           edits \in [Workload -> Nat]
    PROVE  template'[v] = template[v]
<1> USE DEF HandsOff, serviceVars, procVars, bounds
<1>1. ASSUME NEW s \in Service PROVE
        /\ \A selector : ChangeService(s, selector) => template' = template
        /\ SyncService(s) \/ Resync(s) => template' = template
  BY DEF ChangeService, SyncService, Resync
<1>2. ASSUME NEW w \in Workload, NEW annotations, EditTemplate(w, annotations)
      PROVE  template'[v] = template[v]
  <2>1. v # w
    BY <1>2 DEF EditTemplate
  <2> QED BY <1>2, <2>1 DEF EditTemplate, Write
<1>3. ASSUME NEW w \in Workload, ScaleWorkload(w) PROVE template'[v] = template[v]
  BY <1>3, WriteKeepsTemplate DEF ScaleWorkload
<1>4. ASSUME NEW w \in Workload, UpdateStatus(w) \/ SyncWorkload(w) PROVE template' = template
  BY <1>4 DEF UpdateStatus, SyncWorkload
<1>5. CASE TakeEvent \/ MutateAndPatchAll \/ Restart
  BY <1>5 DEF TakeEvent, MutateAndPatchAll, Restart
<1>6. ASSUME NEW p \in Proc, MonitorStep(p) \/ PatchFails(p) PROVE template' = template
  BY <1>6 DEF MonitorStep, MutateCopy, PatchFails
<1>7. ASSUME NEW p \in Proc, SendPatch(p) PROVE FALSE
  <2>1. patching[p] # {}
    BY <1>7 DEF SendPatch
  <2> QED BY <2>1 DEF Idle
<1>8. CASE UNCHANGED vars
  BY <1>8 DEF vars
<1> QED BY <1>1, <1>2, <1>3, <1>4, <1>5, <1>6, <1>7, <1>8 DEF Next

\* The counters of edits, which tell the user's changes from the operator's.
EditsCounted == edits \in [Workload -> Nat]

\* No edits at the start.
LEMMA EditsCountedInit == Init => EditsCounted
BY DEF Init, EditsCounted

\* Only a user's edit counts.
LEMMA EditsCountedNext == EditsCounted /\ [Next]_vars => EditsCounted'
<1> SUFFICES ASSUME EditsCounted, [Next]_vars PROVE EditsCounted'
  OBVIOUS
<1>1. ASSUME NEW w \in Workload, NEW annotations, EditTemplate(w, annotations) PROVE EditsCounted'
  BY <1>1 DEF EditsCounted, EditTemplate
<1>2. ASSUME NEW s \in Service PROVE
        /\ \A selector : ChangeService(s, selector) => edits' = edits
        /\ SyncService(s) \/ Resync(s) => edits' = edits
  BY DEF ChangeService, SyncService, Resync
<1>3. ASSUME NEW w \in Workload, ScaleWorkload(w) \/ UpdateStatus(w) \/ SyncWorkload(w)
      PROVE  edits' = edits
  BY <1>3 DEF ScaleWorkload, UpdateStatus, SyncWorkload
<1>4. CASE TakeEvent \/ MutateAndPatchAll \/ Restart
  BY <1>4 DEF TakeEvent, MutateAndPatchAll, Restart, EditsCounted
<1>5. ASSUME NEW p \in Proc, MonitorStep(p) \/ SendPatch(p) \/ PatchFails(p) PROVE edits' = edits
  BY <1>5 DEF MonitorStep, MutateCopy, SendPatch, PatchFails
<1>6. CASE UNCHANGED vars
  BY <1>6 DEF vars, EditsCounted
<1>7. edits' = edits => EditsCounted'
  BY DEF EditsCounted
<1> QED BY <1>1, <1>2, <1>3, <1>4, <1>5, <1>6, <1>7 DEF Next

\* Without RestartPods the annotations of a pod template change only with an edit
\* by its user, whatever services come and go (monitor.go, safeToMutate).
THEOREM NeverUninvitedRestart == Spec => NoUninvitedRestart
<1>1. HandsOff /\ EditsCounted /\ [Next]_vars =>
        [\A w \in Workload :
             template'[w] # template[w] => restartPods \/ edits'[w] # edits[w]]_vars
  BY StepKeepsTemplate DEF EditsCounted
<1> QED
  BY <1>1, HandsOffInit, HandsOffNext, EditsCountedInit, EditsCountedNext, PTL DEF Spec, NoUninvitedRestart

-----------------------------------------------------------------------------
\* Types.

\* Mutating annotations yields annotations.
LEMMA MutateType ==
    ASSUME NEW a \in SUBSET AnyKey, NEW w \in Workload
    PROVE  Mutate(a, LanguagesToAnnotate(w)) \in SUBSET AnyKey
<1>1. LanguagesToAnnotate(w) \subseteq Language
  BY MonitorAssumption DEF LanguagesToAnnotate
<1>2. \A l \in Language : Keys(l) \subseteq AnyKey
  BY DEF AnyKey
<1>3. UNION {Keys(l) : l \in LanguagesToAnnotate(w)} \subseteq AnyKey
  BY <1>1, <1>2
<1> QED BY <1>3 DEF Mutate

\* What a write of annotations does to templates, events and the count of failures.
LEMMA WriteType ==
    ASSUME TypeOK, NEW w \in Workload, NEW a \in SUBSET AnyKey, NEW b, Write(w, a, b)
    PROVE  /\ template' \in [Workload -> SUBSET AnyKey]
           /\ unseen' \subseteq Workload
           /\ failures' \in 0..MaxFailures
<1>1. Admitted(w, a, b) \in SUBSET AnyKey
  BY MutateType DEF Admitted
<1>2. PICK called \in BOOLEAN :
        LET stored == IF called THEN Admitted(w, a, b) ELSE a
        IN  /\ called \/ failures < MaxFailures
            /\ failures' = IF called THEN failures ELSE failures + 1
            /\ template' = [template EXCEPT ![w] = stored]
            /\ unseen' = unseen \cup (IF b \/ stored # template[w] THEN {w} ELSE {})
  BY DEF Write
<1>3. template' \in [Workload -> SUBSET AnyKey]
  BY <1>1, <1>2 DEF TypeOK
<1>4. unseen' \subseteq Workload
  BY <1>2 DEF TypeOK
<1>5. failures' \in 0..MaxFailures
  BY <1>2, MonitorBoundAssumption DEF TypeOK
<1> QED BY <1>3, <1>4, <1>5

\* The notifications of a start are a sequence.
LEMMA AddEventsType ==
    ASSUME NEW store \in [Service -> {NoService} \cup Selector], NEW events \in AddEvents(store)
    PROVE  events \in Seq([old : {NoService} \cup Selector, new : {NoService} \cup Selector])
<1> DEFINE there == {s \in Service : store[s] # NoService}
<1>1. Cardinality(there) \in Nat
  BY ServicesAssumption, FS_Subset, FS_CardinalityType
<1>2. PICK order \in [1..Cardinality(there) -> there] :
        events = [n \in DOMAIN order |-> [old |-> NoService, new |-> store[order[n]]]]
  BY DEF AddEvents
<1>3. events \in [1..Cardinality(there) ->
                    [old : {NoService} \cup Selector, new : {NoService} \cup Selector]]
  BY <1>2
<1> QED BY <1>1, <1>3, SeqDef

\* Init establishes the types.
LEMMA TypeInit == Init => TypeOK
<1> SUFFICES ASSUME Init PROVE TypeOK
  OBVIOUS
<1>1. notifications \in Seq([old : {NoService} \cup Selector, new : {NoService} \cup Selector])
  BY AddEventsType DEF Init
<1>2. template \in [Workload -> SUBSET AnyKey] /\ cache \in [Workload -> {Nil} \cup SUBSET AnyKey]
  BY DEF Init, AnyKey, Decoded
<1>3. /\ todo \in [Proc -> SUBSET Workload] /\ patching \in [Proc -> SUBSET Patches]
      /\ copy \in [Proc -> [Workload -> {Nil} \cup SUBSET AnyKey]]
      /\ shared \subseteq todo["event"]
  BY DEF Init, Idle, NoCopies
<1>4. /\ edits \in [Workload -> 0..MaxEdits]
      /\ changes \in 0..MaxServiceChanges /\ failures \in 0..MaxFailures /\ restarts \in 0..MaxRestarts
  BY MonitorBoundAssumption DEF Init
<1>5. /\ restartPods \in BOOLEAN /\ started \in BOOLEAN
      /\ services \in [Service -> {NoService} \cup Selector]
      /\ serviceStore \in [Service -> {NoService} \cup Selector]
      /\ unseen \subseteq Workload
      /\ ~restartPods => todo = Idle
  BY DEF Init
<1> QED BY <1>1, <1>2, <1>3, <1>4, <1>5 DEF TypeOK


\* The annotations that a patch leaves on a template.
LEMMA PatchedType ==
    ASSUME TypeOK, NEW p \in Proc, NEW patch \in patching[p]
    PROVE  patch.workload \in Workload /\ Patched(p, patch) \in SUBSET AnyKey
<1>1. patch \in Patches
  BY DEF TypeOK
<1>2. patch.workload \in Workload /\ patch.from \subseteq AnyKey /\ patch.to \subseteq AnyKey
  BY <1>1 DEF Patches
<1>3. template[patch.workload] \subseteq AnyKey
  BY <1>2 DEF TypeOK
<1> QED BY <1>2, <1>3 DEF Patched

\* The handler takes a notification.
LEMMA TakeEventType == ASSUME TypeOK, TakeEvent PROVE TypeOK'
<1> DEFINE N == [old : {NoService} \cup Selector, new : {NoService} \cup Selector]
           listed == {w \in Workload :
                        restartPods /\ LabelsOf[w] \in {Head(notifications).old, Head(notifications).new}}
<1>1. notifications' \in Seq(N)
  BY DEF TakeEvent, TypeOK
<1>2. /\ todo' = [todo EXCEPT !["event"] = listed]
      /\ copy' = [copy EXCEPT !["event"] = [w \in Workload |-> IF w \in listed THEN cache[w] ELSE Nil]]
      /\ shared' = listed
  BY DEF TakeEvent
<1>3. listed \subseteq Workload /\ (~restartPods => listed = {})
  OBVIOUS
<1> HIDE DEF listed
<1>4. todo' \in [Proc -> SUBSET Workload] /\ shared' \subseteq todo'["event"]
  BY <1>2, <1>3 DEF TypeOK, Proc
<1>5. ~restartPods => todo' = Idle
  <2> SUFFICES ASSUME ~restartPods PROVE todo' = Idle
    OBVIOUS
  <2>1. todo = Idle /\ todo' = [todo EXCEPT !["event"] = {}]
    BY <1>2, <1>3 DEF TypeOK
  <2> QED BY <2>1 DEF Idle, Proc
<1>6. copy' \in [Proc -> [Workload -> {Nil} \cup SUBSET AnyKey]]
  <2>1. [w \in Workload |-> IF w \in listed THEN cache[w] ELSE Nil]
          \in [Workload -> {Nil} \cup SUBSET AnyKey]
    BY DEF TypeOK
  <2> QED BY <1>2, <2>1 DEF TypeOK
<1>7. UNCHANGED <<restartPods, services, serviceStore, template, cache, unseen, started, patching,
                   edits, changes, failures, restarts>>
  BY DEF TakeEvent, bounds
<1> QED BY <1>1, <1>4, <1>5, <1>6, <1>7 DEF TypeOK

\* The pass at the start lists all workloads.
LEMMA MutateAndPatchAllType == ASSUME TypeOK, MutateAndPatchAll PROVE TypeOK'
<1>1. [w \in Workload |-> Decoded(template[w])] \in [Workload -> {Nil} \cup SUBSET AnyKey]
  BY DEF TypeOK, Decoded
<1>2. /\ todo' \in [Proc -> SUBSET Workload] /\ todo'["event"] = todo["event"]
      /\ ~restartPods => todo' = todo
  BY DEF MutateAndPatchAll, TypeOK, Proc
<1>3. copy' \in [Proc -> [Workload -> {Nil} \cup SUBSET AnyKey]]
  BY <1>1 DEF MutateAndPatchAll, TypeOK
<1>4. started' \in BOOLEAN
      /\ UNCHANGED <<restartPods, services, serviceStore, notifications, template, cache, unseen,
                     shared, patching, edits, changes, failures, restarts>>
  BY DEF MutateAndPatchAll, bounds, serviceVars
<1> QED BY <1>2, <1>3, <1>4 DEF TypeOK

\* A copy is mutated, and with it perhaps the map in the cache.
LEMMA MutateCopyType ==
    ASSUME TypeOK, NEW p \in Proc, NEW w \in Workload, MutateCopy(p, w) PROVE TypeOK'
<1> DEFINE a == Ann(copy[p][w])
           mutated == Mutate(a, LanguagesToAnnotate(w))
<1>1. a \in SUBSET AnyKey /\ mutated \in SUBSET AnyKey
  <2>1. copy[p][w] \in {Nil} \cup SUBSET AnyKey
    BY DEF TypeOK
  <2>2. a \in SUBSET AnyKey
    BY <2>1 DEF Ann
  <2> QED BY <2>2, MutateType
<1>2. /\ w \in todo[p] /\ todo' = [todo EXCEPT ![p] = @ \ {w}]
      /\ shared' = IF p = "event" THEN shared \ {w} ELSE shared
  BY DEF MutateCopy
<1>3. todo' \in [Proc -> SUBSET Workload] /\ shared' \subseteq todo'["event"]
  BY <1>2 DEF TypeOK, Proc
<1>4. restartPods
  BY <1>2 DEF TypeOK, Idle
<1>5. patching' \in [Proc -> SUBSET Patches]
  <2>1. {[workload |-> w, from |-> a, to |-> mutated]} \in SUBSET Patches
    BY <1>1 DEF Patches
  <2>2. \/ patching' = [patching EXCEPT ![p] = {[workload |-> w, from |-> a, to |-> mutated]}]
        \/ patching' = patching
    BY DEF MutateCopy
  <2> QED BY <2>1, <2>2 DEF TypeOK
<1>6. cache' \in [Workload -> {Nil} \cup SUBSET AnyKey]
  <2>1. cache' = [cache EXCEPT ![w] = mutated] \/ cache' = cache
    BY DEF MutateCopy
  <2> QED BY <1>1, <2>1 DEF TypeOK
<1>7. copy' \in [Proc -> [Workload -> {Nil} \cup SUBSET AnyKey]]
  BY DEF MutateCopy, TypeOK
<1>8. UNCHANGED <<restartPods, services, serviceStore, notifications, template, unseen, started,
                   edits, changes, failures, restarts>>
  BY DEF MutateCopy, bounds, serviceVars
<1> QED BY <1>3, <1>4, <1>5, <1>6, <1>7, <1>8 DEF TypeOK

\* The operator starts again.
LEMMA RestartType == ASSUME TypeOK, Restart PROVE TypeOK'
<1>1. notifications' \in Seq([old : {NoService} \cup Selector, new : {NoService} \cup Selector])
  BY AddEventsType DEF Restart, TypeOK
<1>2. cache' \in [Workload -> {Nil} \cup SUBSET AnyKey]
  BY DEF Restart, TypeOK, Decoded
<1>3. /\ todo' \in [Proc -> SUBSET Workload] /\ patching' \in [Proc -> SUBSET Patches]
      /\ copy' \in [Proc -> [Workload -> {Nil} \cup SUBSET AnyKey]]
      /\ shared' \subseteq todo'["event"] /\ todo' = Idle
  BY DEF Restart, Idle, NoCopies
<1>4. restarts' \in 0..MaxRestarts
  BY MonitorBoundAssumption DEF Restart, TypeOK
<1>5. /\ serviceStore' = services /\ started' \in BOOLEAN /\ unseen' \subseteq Workload
      /\ UNCHANGED <<restartPods, services, template, edits, changes, failures>>
  BY DEF Restart
<1> QED BY <1>1, <1>2, <1>3, <1>4, <1>5 DEF TypeOK

\* Every step keeps the types.
LEMMA TypeNext == TypeOK /\ [Next]_vars => TypeOK'
<1> SUFFICES ASSUME TypeOK, [Next]_vars PROVE TypeOK'
  OBVIOUS
<1> DEFINE N == [old : {NoService} \cup Selector, new : {NoService} \cup Selector]
<1> USE DEF serviceVars, procVars, bounds
<1>1. ASSUME NEW s \in Service, NEW selector \in {NoService} \cup Selector, ChangeService(s, selector)
      PROVE  TypeOK'
  <2>1. services' \in [Service -> {NoService} \cup Selector]
    BY <1>1 DEF ChangeService, TypeOK
  <2>2. changes' \in 0..MaxServiceChanges
    BY <1>1, MonitorBoundAssumption DEF ChangeService, TypeOK
  <2> QED BY <1>1, <2>1, <2>2 DEF ChangeService, TypeOK
<1>2. ASSUME NEW s \in Service, SyncService(s) PROVE TypeOK'
  <2>1. serviceStore' \in [Service -> {NoService} \cup Selector]
    BY <1>2 DEF SyncService, TypeOK
  <2>2. [old |-> serviceStore[s], new |-> services[s]] \in N
    BY DEF TypeOK
  <2>3. notifications' \in Seq(N)
    BY <1>2, <2>2 DEF SyncService, TypeOK
  <2> QED BY <1>2, <2>1, <2>3 DEF SyncService, TypeOK
<1>3. ASSUME NEW s \in Service, Resync(s) PROVE TypeOK'
  <2>1. [old |-> serviceStore[s], new |-> serviceStore[s]] \in N
    BY DEF TypeOK
  <2>2. notifications' \in Seq(N)
    BY <1>3, <2>1 DEF Resync
  <2> QED BY <1>3, <2>2 DEF Resync, TypeOK
<1>4. ASSUME NEW w \in Workload, NEW annotations \in SUBSET (UserKey \cup ({"inject"} \X Language)),
             EditTemplate(w, annotations)
      PROVE  TypeOK'
  <2>1. {"inject"} \X Language \subseteq AnyKey
    BY DEF AnyKey, Keys
  <2>2. (template[w] \ UserKey) \cup annotations \in SUBSET AnyKey
    BY <2>1 DEF TypeOK, AnyKey
  <2>3. Write(w, (template[w] \ UserKey) \cup annotations, TRUE)
    BY <1>4 DEF EditTemplate
  <2>4. /\ template' \in [Workload -> SUBSET AnyKey] /\ unseen' \subseteq Workload
        /\ failures' \in 0..MaxFailures
    BY <2>2, <2>3, WriteType
  <2>5. edits' \in [Workload -> 0..MaxEdits]
    BY <1>4, MonitorBoundAssumption DEF EditTemplate, TypeOK
  <2> QED BY <1>4, <2>4, <2>5 DEF EditTemplate, TypeOK
<1>5. ASSUME NEW w \in Workload, ScaleWorkload(w) PROVE TypeOK'
  <2>1. template[w] \in SUBSET AnyKey
    BY DEF TypeOK
  <2>2. Write(w, template[w], FALSE)
    BY <1>5 DEF ScaleWorkload
  <2>3. /\ template' \in [Workload -> SUBSET AnyKey] /\ unseen' \subseteq Workload
        /\ failures' \in 0..MaxFailures
    BY <2>1, <2>2, WriteType
  <2> QED BY <1>5, <2>3 DEF ScaleWorkload, TypeOK
<1>6. ASSUME NEW w \in Workload, UpdateStatus(w) PROVE TypeOK'
  BY <1>6 DEF UpdateStatus, TypeOK
<1>7. ASSUME NEW w \in Workload, SyncWorkload(w) PROVE TypeOK'
  <2>1. cache' \in [Workload -> {Nil} \cup SUBSET AnyKey]
    BY <1>7 DEF SyncWorkload, TypeOK, Decoded
  <2> QED BY <1>7, <2>1 DEF SyncWorkload, TypeOK
<1>8. ASSUME NEW p \in Proc, SendPatch(p) PROVE TypeOK'
  <2>1. PICK patch \in patching[p] :
          /\ patching' = [patching EXCEPT ![p] = {}]
          /\ Write(patch.workload, Patched(p, patch), Patched(p, patch) # template[patch.workload])
          /\ UNCHANGED <<restartPods, serviceVars, cache, started, todo, copy, shared,
                         edits, changes, restarts>>
    BY <1>8 DEF SendPatch
  <2>2. patch.workload \in Workload /\ Patched(p, patch) \in SUBSET AnyKey
    BY PatchedType
  <2>3. /\ template' \in [Workload -> SUBSET AnyKey] /\ unseen' \subseteq Workload
        /\ failures' \in 0..MaxFailures
    BY <2>1, <2>2, WriteType
  <2>4. patching' \in [Proc -> SUBSET Patches]
    BY <2>1 DEF TypeOK
  <2> QED BY <2>1, <2>3, <2>4 DEF TypeOK
<1>9. ASSUME NEW p \in Proc, PatchFails(p) PROVE TypeOK'
  <2>1. patching' \in [Proc -> SUBSET Patches]
    BY <1>9 DEF PatchFails, TypeOK
  <2>2. failures' \in 0..MaxFailures
    BY <1>9, MonitorBoundAssumption DEF PatchFails, TypeOK
  <2> QED BY <1>9, <2>1, <2>2 DEF PatchFails, TypeOK
<1>10. CASE UNCHANGED vars
  BY <1>10 DEF vars, TypeOK
<1> QED
  BY <1>1, <1>2, <1>3, <1>4, <1>5, <1>6, <1>7, <1>8, <1>9, <1>10, TakeEventType,
     MutateAndPatchAllType, MutateCopyType, RestartType DEF Next, MonitorStep

\* Templates, caches, copies and patches hold annotations of the languages and the
\* users' own, whatever fails and restarts, and without RestartPods the monitor has
\* no workload in hand.
THEOREM MonitorTypeCorrect == Spec => []TypeOK
BY TypeInit, TypeNext, PTL DEF Spec

-----------------------------------------------------------------------------
\* The users' annotations.

\* Mutating leaves the users' annotations alone.
LEMMA MutateKeepsUserKeys ==
    ASSUME NEW a, NEW chosen \in SUBSET Language
    PROVE  Mutate(a, chosen) \cap UserKey = a \cap UserKey
<1>1. \A l \in Language : Keys(l) \cap UserKey = {}
  BY UserKeyAssumption
<1> QED BY <1>1 DEF Mutate

\* A patch in hand changes none of the users' annotations from what the copy had.
PatchesKeepUserKeys ==
    \A p \in Proc : \A patch \in patching[p] : patch.to \cap UserKey = patch.from \cap UserKey

\* A patch is made by mutating a copy.
LEMMA PatchesNext == TypeOK /\ PatchesKeepUserKeys /\ [Next]_vars => PatchesKeepUserKeys'
<1> SUFFICES ASSUME TypeOK, PatchesKeepUserKeys, [Next]_vars PROVE PatchesKeepUserKeys'
  OBVIOUS
<1> USE DEF serviceVars, procVars, bounds
<1>0. patching' = patching => PatchesKeepUserKeys'
  BY DEF PatchesKeepUserKeys
<1>1. ASSUME NEW s \in Service PROVE
        /\ \A selector : ChangeService(s, selector) => patching' = patching
        /\ SyncService(s) \/ Resync(s) => patching' = patching
  BY DEF ChangeService, SyncService, Resync
<1>2. ASSUME NEW w \in Workload PROVE
        /\ \A annotations : EditTemplate(w, annotations) => patching' = patching
        /\ ScaleWorkload(w) \/ UpdateStatus(w) \/ SyncWorkload(w) => patching' = patching
  BY DEF EditTemplate, ScaleWorkload, UpdateStatus, SyncWorkload
<1>3. TakeEvent \/ MutateAndPatchAll \/ UNCHANGED vars => patching' = patching
  BY DEF TakeEvent, MutateAndPatchAll, vars
<1>4. CASE Restart
  BY <1>4 DEF Restart, Idle, PatchesKeepUserKeys
<1>5. ASSUME NEW p \in Proc, NEW w \in Workload, MutateCopy(p, w) PROVE PatchesKeepUserKeys'
  <2> DEFINE a == Ann(copy[p][w])
             mutated == Mutate(a, LanguagesToAnnotate(w))
  <2>1. LanguagesToAnnotate(w) \in SUBSET Language
    BY MonitorAssumption DEF LanguagesToAnnotate
  <2>2. mutated \cap UserKey = a \cap UserKey
    BY <2>1, MutateKeepsUserKeys
  <2>3. \/ patching' = [patching EXCEPT ![p] = {[workload |-> w, from |-> a, to |-> mutated]}]
        \/ patching' = patching
    BY <1>5 DEF MutateCopy
  <2> HIDE DEF a, mutated
  <2>4. ASSUME NEW q \in Proc, NEW patch \in patching'[q]
        PROVE  patch \in patching[q] \/ (patch.from = a /\ patch.to = mutated)
    <3>1. patching'[q] = patching[q] \/ patching'[q] = {[workload |-> w, from |-> a, to |-> mutated]}
      BY <2>3 DEF TypeOK
    <3> QED BY <3>1
  <2> QED BY <2>2, <2>4 DEF PatchesKeepUserKeys
<1>6. ASSUME NEW p \in Proc, SendPatch(p) \/ PatchFails(p) PROVE PatchesKeepUserKeys'
  <2>1. patching' = [patching EXCEPT ![p] = {}]
    BY <1>6 DEF SendPatch, PatchFails
  <2> QED BY <2>1 DEF TypeOK, PatchesKeepUserKeys
<1> QED BY <1>0, <1>1, <1>2, <1>3, <1>4, <1>5, <1>6 DEF Next, MonitorStep

\* A write stores the users' annotations it brings, and touches one template.
LEMMA WriteKeepsUserKeys ==
    ASSUME TypeOK, NEW w \in Workload, NEW a, NEW b, Write(w, a, b)
    PROVE  /\ template'[w] \cap UserKey = a \cap UserKey
           /\ \A v \in Workload \ {w} : template'[v] = template[v]
<1>1. LanguagesToAnnotate(w) \in SUBSET Language
  BY MonitorAssumption DEF LanguagesToAnnotate
<1>2. Admitted(w, a, b) \cap UserKey = a \cap UserKey
  BY <1>1, MutateKeepsUserKeys DEF Admitted
<1>3. PICK stored : /\ stored \in {Admitted(w, a, b), a}
                    /\ template' = [template EXCEPT ![w] = stored]
  BY DEF Write
<1> QED BY <1>2, <1>3 DEF TypeOK

\* Which step may take an annotation from its user.
LEMMA StepKeepsUserKeys ==
    ASSUME TypeOK, PatchesKeepUserKeys, [Next]_vars, NEW v \in Workload, edits'[v] = edits[v],
           template'[v] \cap UserKey # template[v] \cap UserKey
    PROVE  \E patch \in patching["event"] :
               patch.workload = v /\ patch.from \cap UserKey # template[v] \cap UserKey
<1> USE DEF serviceVars, procVars, bounds
<1>1. ASSUME NEW s \in Service PROVE
        /\ \A selector : ChangeService(s, selector) => template' = template
        /\ SyncService(s) \/ Resync(s) => template' = template
  BY DEF ChangeService, SyncService, Resync
<1>2. ASSUME NEW w \in Workload, NEW annotations, EditTemplate(w, annotations) PROVE FALSE
  <2>1. v # w
    BY <1>2 DEF EditTemplate, TypeOK
  <2>2. Write(w, (template[w] \ UserKey) \cup annotations, TRUE)
    BY <1>2 DEF EditTemplate
  <2> QED BY <2>1, <2>2, WriteKeepsUserKeys
<1>3. ASSUME NEW w \in Workload, ScaleWorkload(w) PROVE FALSE
  <2>1. Write(w, template[w], FALSE)
    BY <1>3 DEF ScaleWorkload
  <2> QED BY <2>1, WriteKeepsUserKeys
<1>4. ASSUME NEW w \in Workload, UpdateStatus(w) \/ SyncWorkload(w) PROVE template' = template
  BY <1>4 DEF UpdateStatus, SyncWorkload
<1>5. TakeEvent \/ MutateAndPatchAll \/ Restart \/ UNCHANGED vars => template' = template
  BY DEF TakeEvent, MutateAndPatchAll, Restart, vars
<1>6. ASSUME NEW p \in Proc, MonitorStep(p) \/ PatchFails(p) PROVE template' = template
  BY <1>6 DEF MonitorStep, MutateCopy, PatchFails
<1>7. ASSUME NEW p \in Proc, SendPatch(p)
      PROVE  \E patch \in patching["event"] :
                 patch.workload = v /\ patch.from \cap UserKey # template[v] \cap UserKey
  <2>1. PICK patch \in patching[p] :
          Write(patch.workload, Patched(p, patch), Patched(p, patch) # template[patch.workload])
    BY <1>7 DEF SendPatch
  <2>2. patch.workload \in Workload
    BY PatchedType
  <2>3. patch.workload = v /\ template'[v] \cap UserKey = Patched(p, patch) \cap UserKey
    BY <2>1, <2>2, WriteKeepsUserKeys
  <2>4. patch.to \cap UserKey = patch.from \cap UserKey
    BY DEF PatchesKeepUserKeys
  <2>5. CASE p = "startup"
    BY <2>3, <2>4, <2>5 DEF Patched
  <2>6. CASE p = "event"
    BY <2>3, <2>4, <2>6 DEF Patched
  <2> QED BY <2>5, <2>6 DEF Proc
<1> QED BY <1>1, <1>2, <1>3, <1>4, <1>5, <1>6, <1>7 DEF Next

\* A user's annotations change without an edit only when the handler's patch, which
\* replaces them all, was made from a copy older than the edit (getAnnotationsPatch):
\* neither the webhook nor the pass at the start loses one, for any languages and any
\* number of workloads, failures and restarts.
THEOREM UserKeysLostOnlyToStaleHandler == Spec => LostOnlyToStaleHandler
<1>1. Init => PatchesKeepUserKeys
  BY DEF Init, Idle, PatchesKeepUserKeys
<1>2. TypeOK /\ PatchesKeepUserKeys /\ [Next]_vars =>
        [\A w \in Workload :
           edits'[w] = edits[w] /\ template'[w] \cap UserKey # template[w] \cap UserKey =>
               \E patch \in patching["event"] :
                   /\ patch.workload = w
                   /\ patch.from \cap UserKey # template[w] \cap UserKey]_vars
  BY StepKeepsUserKeys
<1> QED
  BY <1>1, <1>2, TypeInit, TypeNext, PatchesNext, PTL DEF Spec, LostOnlyToStaleHandler
=============================================================================
