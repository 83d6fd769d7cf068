-------------------------- MODULE ReconcilerProofs --------------------------
(***************************************************************************)
(* Proof, for any objects, specs and number of changes, failures and       *)
(* writes of others, that the prune by UID protects every desired object   *)
(* that was listed and is still the same.                                  *)
(***************************************************************************)
EXTENDS Reconciler, TLAPS

TypesUsed ==
    /\ store \in [Object -> Stored]
    /\ cache \in [Object -> Stored]
    /\ owned \subseteq Object \X UID
    /\ pc \in {"idle", "list", "apply", "prune", "status"}
    /\ spec \in Specs /\ instance \in Specs
    /\ pc = "apply" => todo \subseteq DOMAIN Desired[instance]
    /\ pc = "prune" => todo = {}

\* An object that has the UID it was listed with has that UID in the cache too: the
\* cache may lag behind the API server but never goes back, and a UID is not given
\* out twice.
ListedIsCached ==
    \A o \in Object, uid \in UID :
        <<o, uid>> \in owned /\ store[o].uid = uid => cache[o].uid = uid

\* Of every desired object that was reconciled without an error and still is the one
\* that was listed, the UID is among those to be kept.
ConfirmedKept ==
    pc = "prune" \/ (pc = "apply" /\ ~failed) =>
        \A o \in DOMAIN Desired[instance] \ todo, uid \in UID :
            <<o, uid>> \in owned /\ store[o].uid = uid => uid \in desiredUIDs

PruneInv == TypesUsed /\ ListedIsCached /\ ConfirmedKept

\* Nothing is listed at first.
LEMMA PruneInit == Init => PruneInv
BY DEF Init, PruneInv, TypesUsed, ListedIsCached, ConfirmedKept, Stored

\* A new object has a UID that no listed object has.
LEMMA FreshIsNew ==
    ASSUME Fresh # {}, NEW uid, uid = CHOOSE u \in Fresh : TRUE
    PROVE  uid \in UID /\ \A o \in Object : <<o, uid>> \notin owned
<1>1. uid \in Fresh
  OBVIOUS
<1> QED BY <1>1 DEF Fresh

\* An object that is gone has no listed UID.
LEMMA AbsentHasNoUID == Absent.uid \notin UID
BY ObjectAssumption DEF Absent

\* One desired object is reconciled.
LEMMA ApplyPreserves ==
    ASSUME PruneInv, NEW o \in Object, reconcileDesiredObject(o) PROVE PruneInv'
<1> USE AbsentHasNoUID DEF PruneInv, TypesUsed, ListedIsCached, ConfirmedKept,
            reconcileDesiredObject, Write, NoWrite, Done, Fail, Requeue, Exists, bounds
<1>0. Desired[instance][o] \in Value
  BY SpecAssumption
<1>1. CASE CreateObject(o)
  <2>1. CASE Exists(o)
    BY <1>1, <2>1 DEF CreateObject
  <2>2. CASE ~Exists(o)
    <3> DEFINE uid == CHOOSE u \in Fresh : TRUE
               new == [uid |-> uid, selector |-> Desired[instance][o].selector,
                       body |-> Desired[instance][o].body]
    <3>1. uid \in UID /\ \A x \in Object : <<x, uid>> \notin owned
      BY <1>1, <2>2, FreshIsNew DEF CreateObject
    <3>2. new \in Stored
      BY <1>0, <3>1 DEF Stored, Value
    <3>3. store' = [store EXCEPT ![o] = new]
      BY <1>1, <2>2 DEF CreateObject
    <3> QED BY <1>1, <2>2, <3>1, <3>2, <3>3 DEF CreateObject
  <2> QED BY <2>1, <2>2
<1>2. CASE KeepObject(o)
  BY <1>2 DEF KeepObject
<1>3. CASE UpdateObject(o)
  <2>1. CASE store[o] = cache[o]
    <3>1. Merged(o) \in Stored /\ Merged(o).uid = cache[o].uid
      BY <1>0, <1>3 DEF UpdateObject, Merged, Stored, Value
    <3> QED BY <1>3, <2>1, <3>1 DEF UpdateObject
  <2>2. CASE store[o] # cache[o]
    BY <1>3, <2>2 DEF UpdateObject
  <2> QED BY <2>1, <2>2
<1>4. CASE DeleteImmutable(o)
  <2>1. Absent \in Stored
    BY DEF Stored
  <2> QED BY <1>4, <2>1 DEF DeleteImmutable
<1>5. CASE WriteFails(o)
  BY <1>5 DEF WriteFails
<1> QED BY <1>1, <1>2, <1>3, <1>4, <1>5

\* The cache catches up, or another client writes: a UID stays or its object goes.
LEMMA ClusterPreserves ==
    ASSUME PruneInv, NEW o \in Object, SyncCache(o) \/ Meddle(o) PROVE PruneInv'
<1> USE AbsentHasNoUID DEF PruneInv, TypesUsed, ListedIsCached, ConfirmedKept,
            requestVars, Exists, Write
<1>1. CASE SyncCache(o)
  BY <1>1 DEF SyncCache
<1>2. CASE Meddle(o)
  <2>1. PICK content \in Stored : /\ content = Absent \/ content.uid = store[o].uid
                                  /\ store' = [store EXCEPT ![o] = content]
    BY <1>2 DEF Meddle, Stored
  <2> QED BY <1>2, <2>1 DEF Meddle
<1> QED BY <1>1, <1>2

\* One listed object is pruned.
LEMMA PrunePreserves ==
    ASSUME PruneInv, NEW o \in Object, NEW uid \in UID, Prune(o, uid) PROVE PruneInv'
<1>1. Absent \in Stored
  BY DEF Stored
<1> QED BY <1>1, AbsentHasNoUID DEF PruneInv, TypesUsed, ListedIsCached, ConfirmedKept, Prune, Write, NoWrite

\* Every step preserves the invariant.
LEMMA PruneNext == PruneInv /\ [Next]_vars => PruneInv'
<1> SUFFICES ASSUME PruneInv, [Next]_vars PROVE PruneInv'
  OBVIOUS
<1> USE DEF PruneInv, TypesUsed, ListedIsCached, ConfirmedKept, Requeue, requestVars
<1>1. ASSUME NEW s \in Specs, ChangeSpec(s) PROVE PruneInv'
  BY <1>1 DEF ChangeSpec
<1>2. CASE Start
  BY <1>2 DEF Start
<1>3. CASE ListOwned
  <2>1. \A o \in Object : cache[o] # Absent => cache[o].uid \in UID
    BY DEF Stored
  <2>2. owned' \subseteq Object \X UID /\ \A p \in owned' : cache[p[1]].uid = p[2]
    BY <1>3, <2>1, ObjectAssumption DEF ListOwned
  <2> QED BY <1>3, <2>2 DEF ListOwned
<1>4. CASE AppliedAll
  BY <1>4 DEF AppliedAll
<1>5. CASE PrunedAll
  BY <1>5 DEF PrunedAll
<1>6. CASE UpdateStatus \/ StatusFails
  BY <1>6 DEF UpdateStatus, StatusFails, Finish
<1>7. CASE UNCHANGED vars
  BY <1>7 DEF vars
<1> QED
  BY <1>1, <1>2, <1>3, <1>4, <1>5, <1>6, <1>7, ApplyPreserves, ClusterPreserves, PrunePreserves
     DEF Next, Reconcile

\* The prune of a reconcile never deletes a desired object that still is the one it
\* listed, however stale the cache was and whatever others did to the objects in
\* between (common.go, reconcileDesiredObjectUIDs and pruneStaleObjects).
THEOREM AlwaysKeepsConfirmedObjects == Spec => KeepsConfirmedObjects
<1>1. PruneInv => \A o \in Object, uid \in UID :
           Prune(o, uid) /\ o \in DOMAIN Desired[instance] /\ Exists(o) => store[o].uid # uid
  BY DEF PruneInv, TypesUsed, ConfirmedKept, Prune, Stale
<1>2. PruneInv /\ [Next]_vars =>
        [\A o \in Object, uid \in UID :
           Prune(o, uid) /\ o \in DOMAIN Desired[instance] /\ Exists(o) => store[o].uid # uid]_vars
  BY <1>1
<1> QED BY <1>2, PruneInit, PruneNext, PTL DEF Spec, KeepsConfirmedObjects

-----------------------------------------------------------------------------
\* Types.

QueueOK ==
    /\ unseen \subseteq Object
    /\ queued \in BOOLEAN /\ failed \in BOOLEAN
    /\ todo \subseteq Object
    /\ desiredUIDs \subseteq UID
    /\ overlooked \subseteq Object \ Listed

CountsOK ==
    /\ specChanges \in 0..MaxSpecChanges
    /\ meddling \in 0..MaxMeddling
    /\ failures \in 0..MaxFailures

\* Nothing has happened at first.
LEMMA TypeInit == Init => QueueOK /\ CountsOK
<1>1. Init => QueueOK
  BY DEF Init, QueueOK
<1>2. Init => CountsOK
  BY BoundAssumption DEF Init, CountsOK
<1> QED BY <1>1, <1>2

\* What is in the cache has a UID.
LEMMA CachedHasUID ==
    ASSUME TypesUsed, NEW o \in Object, cache[o] # Absent PROVE cache[o].uid \in UID
BY DEF TypesUsed, Stored

\* Of a desired object only UIDs are kept, be it created, found or deleted.
LEMMA ApplyKeepsQueue ==
    ASSUME TypesUsed, QueueOK, NEW o \in Object, reconcileDesiredObject(o) PROVE QueueOK'
<1> USE DEF QueueOK, Write, NoWrite, Done, Fail, Requeue
<1>1. CASE CreateObject(o)
  <2>1. CASE Exists(o)
    BY <1>1, <2>1 DEF CreateObject
  <2>2. CASE ~Exists(o)
    <3>1. Fresh # {}
      BY <1>1, <2>2 DEF CreateObject
    <3>2. (CHOOSE u \in Fresh : TRUE) \in UID
      BY <3>1, FreshIsNew
    <3> QED BY <1>1, <2>2, <3>2 DEF CreateObject
  <2> QED BY <2>1, <2>2
<1>2. CASE KeepObject(o)
  BY <1>2, CachedHasUID DEF KeepObject
<1>3. CASE UpdateObject(o)
  BY <1>3, CachedHasUID DEF UpdateObject
<1>4. CASE DeleteImmutable(o)
  <2>1. cache[o].uid \in UID
    BY <1>4, CachedHasUID DEF DeleteImmutable, ErrImmutableChange
  <2>2. CASE Exists(o)
    BY <1>4, <2>1, <2>2 DEF DeleteImmutable
  <2>3. CASE ~Exists(o)
    BY <1>4, <2>3 DEF DeleteImmutable
  <2> QED BY <2>2, <2>3
<1>5. CASE WriteFails(o)
  BY <1>5 DEF WriteFails
<1> QED BY <1>1, <1>2, <1>3, <1>4, <1>5 DEF reconcileDesiredObject

\* Every step keeps the types of queue and request.
LEMMA QueueNext == PruneInv /\ QueueOK /\ [Next]_vars => QueueOK'
<1> SUFFICES ASSUME PruneInv, QueueOK, [Next]_vars PROVE QueueOK'
  OBVIOUS
<1>0. TypesUsed
  BY DEF PruneInv
<1>1. ASSUME NEW o \in Object, reconcileDesiredObject(o) PROVE QueueOK'
  BY <1>0, <1>1, ApplyKeepsQueue
<1> USE DEF QueueOK, Requeue, requestVars
<1>2. ASSUME NEW s \in Specs, ChangeSpec(s) PROVE QueueOK'
  BY <1>2 DEF ChangeSpec
<1>3. ASSUME NEW o \in Object, SyncCache(o) \/ Meddle(o) PROVE QueueOK'
  BY <1>3 DEF SyncCache, Meddle, Write
<1>4. CASE Start
  BY <1>4 DEF Start
<1>5. CASE ListOwned
  BY <1>0, <1>5, SpecAssumption DEF ListOwned, TypesUsed
<1>6. CASE AppliedAll \/ PrunedAll
  BY <1>6 DEF AppliedAll, PrunedAll
<1>7. ASSUME NEW o \in Object, NEW uid \in UID, Prune(o, uid) PROVE QueueOK'
  BY <1>7 DEF Prune, Write, NoWrite
<1>8. CASE UpdateStatus \/ StatusFails
  BY <1>8 DEF UpdateStatus, StatusFails, Finish
<1>9. CASE UNCHANGED vars
  BY <1>9 DEF vars
<1> QED BY <1>1, <1>2, <1>3, <1>4, <1>5, <1>6, <1>7, <1>8, <1>9 DEF Next, Reconcile

\* The counters stay within the bounds.
LEMMA CountsNext == CountsOK /\ [Next]_vars => CountsOK'
<1> SUFFICES ASSUME CountsOK, [Next]_vars PROVE CountsOK'
  OBVIOUS
<1> USE BoundAssumption DEF CountsOK, bounds
<1>1. ASSUME NEW s \in Specs, ChangeSpec(s) PROVE CountsOK'
  BY <1>1 DEF ChangeSpec
<1>2. ASSUME NEW o \in Object, SyncCache(o) \/ Meddle(o) PROVE CountsOK'
  BY <1>2 DEF SyncCache, Meddle
<1>3. ASSUME NEW o \in Object, reconcileDesiredObject(o) PROVE CountsOK'
  BY <1>3 DEF reconcileDesiredObject, CreateObject, KeepObject, UpdateObject, DeleteImmutable, WriteFails
<1>4. CASE Start \/ ListOwned \/ AppliedAll \/ PrunedAll
  BY <1>4 DEF Start, ListOwned, AppliedAll, PrunedAll
<1>5. ASSUME NEW o \in Object, NEW uid \in UID, Prune(o, uid) PROVE CountsOK'
  BY <1>5 DEF Prune
<1>6. CASE UpdateStatus \/ StatusFails
  BY <1>6 DEF UpdateStatus, StatusFails
<1>7. CASE UNCHANGED vars
  BY <1>7 DEF vars
<1> QED BY <1>1, <1>2, <1>3, <1>4, <1>5, <1>6, <1>7 DEF Next, Reconcile

\* Only objects that exist are listed and kept by their UID, and what the operator and
\* others write is an object or its absence, whatever fails (controllers/common.go).
THEOREM ReconcilerTypeCorrect == Spec => []TypeOK
<1>1. PruneInv /\ QueueOK /\ CountsOK => TypeOK
  BY DEF PruneInv, TypesUsed, QueueOK, CountsOK, TypeOK
<1> QED BY <1>1, PruneInit, PruneNext, TypeInit, QueueNext, CountsNext, PTL DEF Spec
=============================================================================
