----------------------------- MODULE Reconciler -----------------------------
(***************************************************************************)
(* The reconciliation of one AmazonCloudWatchAgent (controllers/): list    *)
(* the objects owned, create or update each desired object, delete what    *)
(* was listed and is not desired, update the status.  The steps read the   *)
(* informer cache, which lags behind the API server, and write to the API  *)
(* server, where other clients write too; every write may fail.            *)
(*                                                                         *)
(* An object is a kind and a name.  Of its content the model keeps the     *)
(* uid, the field that may not change (a selector) and the rest (body).    *)
(* Two copies with the same content have the same resource version.        *)
(***************************************************************************)
EXTENDS Integers, FiniteSets

CONSTANTS
    Object,             \* kinds and names of the objects some spec asks for
    Listed,             \* those of the six kinds that are listed and watched
    Workload,           \* Deployments, StatefulSets, DaemonSets
    UID,
    Specs,              \* the states of the AmazonCloudWatchAgent
    Managed,            \* those with ManagementState managed
    Desired,            \* BuildCollector: [Specs -> object |-> selector and body]
    StatusOf,           \* the workload UpdateCollectorStatus reads, or NoObject
    NoObject,
    MaxSpecChanges,     \* bound on changes of the AmazonCloudWatchAgent
    MaxMeddling,        \* bound on writes by other clients
    MaxFailures         \* bound on failing writes

Field == {"a", "b"}

Value == [selector : Field, body : Field]

ASSUME ObjectAssumption ==
    /\ Listed \subseteq Object
    /\ Workload \subseteq Listed
    /\ NoObject \notin Object \cup UID
    /\ IsFiniteSet(UID)

ASSUME SpecAssumption ==
    /\ Managed \subseteq Specs
    /\ StatusOf \in [Specs -> Workload \cup {NoObject}]
    /\ \A s \in Specs :
           /\ DOMAIN Desired[s] \subseteq Object
           /\ Desired[s] \in [DOMAIN Desired[s] -> Value]
           /\ StatusOf[s] # NoObject => StatusOf[s] \in DOMAIN Desired[s]

ASSUME BoundAssumption ==
    {MaxSpecChanges, MaxMeddling, MaxFailures} \subseteq Nat

Absent == [uid |-> NoObject, selector |-> "a", body |-> "a"]

Stored == {Absent} \cup [uid : UID, selector : Field, body : Field]

VARIABLES
    spec,           \* the AmazonCloudWatchAgent, as the cache has it
    store,          \* the API server: the content of each object, or Absent
    cache,          \* the informer cache
    unseen,         \* objects with watch events the cache has not received
    queued,         \* the request is in the work queue
    pc,             \* of Reconcile: "idle", "list", "apply", "prune", "status"
    instance,       \* the copy of spec it works on
    owned,          \* previouslyOwnedObjects: pairs <<object, uid>>
    todo,           \* the desired objects not yet reconciled
    desiredUIDs,    \* the UIDs of existingObjectMap
    failed,         \* whether errs or pruneErrs is not empty
    overlooked,     \* history: objects of kinds neither listed nor watched that another
                    \* client changed, or that a copy since outdated was found good for
    specChanges, meddling, failures     \* bounded by the constants

requestVars == <<pc, instance, owned, todo, desiredUIDs, failed>>
bounds == <<specChanges, meddling, failures>>

vars == <<spec, store, unseen, cache, queued, requestVars, overlooked, bounds>>

Exists(o) == store[o] # Absent

\* A uid that nothing refers to any more stands for one never used before.
Fresh == UID \ ({store[o].uid : o \in Object} \cup {cache[o].uid : o \in Object}
                  \cup {p[2] : p \in owned} \cup desiredUIDs)

\* A write to the API server, which sends it to those who watch.
Write(o, content) ==
    /\ store' = [store EXCEPT ![o] = content]
    /\ unseen' = unseen \cup {o}

NoWrite == UNCHANGED <<store, unseen>>

Init ==
    /\ spec \in Specs
    /\ store = [o \in Object |-> Absent]
    /\ cache = store
    /\ unseen = {}
    /\ queued = TRUE
    /\ pc = "idle"
    /\ instance = spec
    /\ owned = {}
    /\ todo = {}
    /\ desiredUIDs = {}
    /\ failed = FALSE
    /\ overlooked = {}
    /\ specChanges = 0 /\ meddling = 0 /\ failures = 0

-----------------------------------------------------------------------------
\* The cluster.

ChangeSpec(s) ==
    /\ specChanges < MaxSpecChanges
    /\ s # spec
    /\ spec' = s
    /\ queued' = TRUE
    /\ specChanges' = specChanges + 1
    /\ UNCHANGED <<store, unseen, cache, requestVars, overlooked, meddling, failures>>

\* The cache catches up with one object.  A change of an object the controller
\* Owns queues the request; the other kinds do not.
SyncCache(o) ==
    /\ o \in unseen
    /\ unseen' = unseen \ {o}
    /\ cache' = [cache EXCEPT ![o] = store[o]]
    /\ queued' = (queued \/ o \in Listed)
    /\ UNCHANGED <<spec, store, requestVars, overlooked, bounds>>

\* Somebody else deletes or edits an object.
Meddle(o) ==
    /\ meddling < MaxMeddling
    /\ Exists(o)
    /\ \/ Write(o, Absent)
       \/ \E f \in Field : f # store[o].body /\ Write(o, [store[o] EXCEPT !.body = f])
    /\ overlooked' = overlooked \cup ({o} \ Listed)
    /\ meddling' = meddling + 1
    /\ UNCHANGED <<spec, cache, queued, requestVars, specChanges, failures>>

-----------------------------------------------------------------------------
\* Reconcile.

\* Reconcile reads the instance; an unmanaged one ends it.  (A deleted instance
\* ends it too and is left to the garbage collector.)
Start ==
    /\ pc = "idle"
    /\ queued
    /\ queued' = FALSE
    /\ instance' = spec
    /\ pc' = IF spec \in Managed THEN "list" ELSE "idle"
    /\ UNCHANGED <<spec, store, unseen, cache, owned, todo, desiredUIDs, failed, overlooked, bounds>>

\* findCloudWatchAgentOwnedObjects, before anything is reconciled.
ListOwned ==
    /\ pc = "list"
    /\ owned' = {<<o, cache[o].uid>> : o \in {l \in Listed : cache[l] # Absent}}
    /\ todo' = DOMAIN Desired[instance]
    /\ desiredUIDs' = {}
    /\ failed' = FALSE
    /\ pc' = "apply"
    /\ UNCHANGED <<spec, store, unseen, cache, queued, instance, overlooked, bounds>>

\* The request ends with an error: it is queued again.
Requeue ==
    /\ pc' = "idle"
    /\ queued' = TRUE
    /\ owned' = {}
    /\ todo' = {}
    /\ desiredUIDs' = {}
    /\ failed' = FALSE
    /\ UNCHANGED <<instance, overlooked>>

\* The status patch, when it changes something, queues the request as well.
Finish ==
    /\ pc' = "idle"
    /\ queued' \in {queued, TRUE}
    /\ owned' = {}
    /\ todo' = {}
    /\ desiredUIDs' = {}
    /\ failed' = FALSE
    /\ UNCHANGED <<instance, overlooked>>

\* A desired object is done; uids are those its existing copy adds.
Done(o, uids) ==
    /\ todo' = todo \ {o}
    /\ desiredUIDs' = desiredUIDs \cup uids
    /\ overlooked' = IF cache[o] = store[o] THEN overlooked \ {o}
                                           ELSE overlooked \cup ({o} \ Listed)
    /\ UNCHANGED <<pc, instance, owned, failed, queued>>

\* crudErr is collected and the next object is tried.
Fail(o) ==
    /\ todo' = todo \ {o}
    /\ failed' = TRUE
    /\ UNCHANGED <<pc, instance, owned, desiredUIDs, queued, overlooked>>

\* Selector changes of workloads cannot be made by an update.
ErrImmutableChange(o) ==
    /\ o \in Workload
    /\ cache[o] # Absent
    /\ cache[o].selector # Desired[instance][o].selector

\* MutateFuncFor on the cached object.  body stands for the fields that the
\* desired object sets: a merge overrides those and keeps the others.
Merged(o) ==
    [cache[o] EXCEPT !.body = Desired[instance][o].body,
                     !.selector = Desired[instance][o].selector]

\* CreateOrUpdate where the cache has no such object.
CreateObject(o) ==
    /\ cache[o] = Absent
    /\ IF Exists(o)
       THEN Fail(o) /\ NoWrite       \* AlreadyExists
       ELSE LET uid == CHOOSE u \in Fresh : TRUE
            IN  /\ Fresh # {}
                /\ Write(o, [uid |-> uid, selector |-> Desired[instance][o].selector,
                             body |-> Desired[instance][o].body])
                /\ Done(o, {uid})
    /\ UNCHANGED <<spec, cache, bounds>>

\* CreateOrUpdate where the mutate function changes nothing.
KeepObjectUnlisted(o) ==
    /\ cache[o] # Absent
    /\ ~ErrImmutableChange(o)
    /\ Merged(o) = cache[o]
    /\ Done(o, {})
    /\ UNCHANGED <<spec, store, unseen, cache, bounds>>
KeepObject(o) ==
    /\ cache[o] # Absent
    /\ ~ErrImmutableChange(o)
    /\ Merged(o) = cache[o]
    /\ Done(o, {cache[o].uid})
    /\ UNCHANGED <<spec, store, unseen, cache, bounds>>

\* CreateOrUpdate with a change.  The update carries the cached resource version.
\* This is the last try of RetryOnConflict; the ones before it change nothing.
UpdateObject(o) ==
    /\ cache[o] # Absent
    /\ ~ErrImmutableChange(o)
    /\ Merged(o) # cache[o]
    /\ IF store[o] = cache[o]
       THEN Write(o, Merged(o)) /\ Done(o, {cache[o].uid})
       ELSE Fail(o) /\ NoWrite       \* Conflict, or NotFound
    /\ UNCHANGED <<spec, cache, bounds>>

\* An immutable change: the object is deleted, by name, for the next reconcile to
\* create; when it is gone already the reconcile ends with that error.
DeleteImmutableIgnored(o) ==
    /\ ErrImmutableChange(o)
    /\ Done(o, {cache[o].uid})
    /\ UNCHANGED <<spec, store, unseen, cache, bounds>>
DeleteImmutable(o) ==
    /\ ErrImmutableChange(o)
    /\ IF Exists(o)
       THEN Write(o, Absent) /\ Done(o, {cache[o].uid})
       ELSE Requeue /\ NoWrite
    /\ UNCHANGED <<spec, cache, bounds>>

\* The API server refuses a write for reasons of its own.
WriteFails(o) ==
    /\ failures < MaxFailures
    /\ failures' = failures + 1
    /\ IF ErrImmutableChange(o) THEN Requeue ELSE Fail(o)
    /\ UNCHANGED <<spec, store, unseen, cache, specChanges, meddling>>

reconcileDesiredObject(o) ==
    /\ pc = "apply"
    /\ o \in todo
    /\ CreateObject(o) \/ KeepObject(o) \/ UpdateObject(o) \/ DeleteImmutable(o) \/ WriteFails(o)

\* The objects are all done: an error ends the reconcile before the prune.
AppliedAll ==
    /\ pc = "apply"
    /\ todo = {}
    /\ IF failed
       THEN Requeue
       ELSE pc' = "prune" /\ UNCHANGED <<queued, instance, owned, todo, desiredUIDs, failed, overlooked>>
    /\ UNCHANGED <<spec, store, unseen, cache, bounds>>

Stale == {p \in owned : p[2] \notin desiredUIDs}

\* pruneStaleObjects deletes, by name, what was listed and has no desired UID.
Prune(o, uid) ==
    /\ pc = "prune"
    /\ <<o, uid>> \in Stale
    /\ owned' = owned \ {<<o, uid>>}
    /\ \/ /\ Exists(o)
          /\ Write(o, Absent)
          /\ UNCHANGED <<failed, failures>>
       \/ /\ ~Exists(o)
          /\ failed' = TRUE
          /\ NoWrite
          /\ UNCHANGED failures
       \/ /\ failures < MaxFailures
          /\ failures' = failures + 1
          /\ failed' = TRUE
          /\ NoWrite
    /\ UNCHANGED <<spec, cache, queued, pc, instance, todo, desiredUIDs, overlooked, specChanges, meddling>>

PrunedAll ==
    /\ pc = "prune"
    /\ Stale = {}
    /\ IF failed
       THEN Requeue
       ELSE pc' = "status" /\ UNCHANGED <<queued, instance, owned, todo, desiredUIDs, failed, overlooked>>
    /\ UNCHANGED <<spec, store, unseen, cache, bounds>>

\* HandleReconcileStatus reads the workload from the cache and patches the status.
UpdateStatus ==
    /\ pc = "status"
    /\ IF StatusOf[instance] # NoObject /\ cache[StatusOf[instance]] = Absent
       THEN Requeue
       ELSE Finish
    /\ UNCHANGED <<spec, store, unseen, cache, bounds>>

StatusFails ==
    /\ pc = "status"
    /\ failures < MaxFailures
    /\ failures' = failures + 1
    /\ Requeue
    /\ UNCHANGED <<spec, store, unseen, cache, specChanges, meddling>>

Reconcile ==
    \/ Start
    \/ ListOwned
    \/ \E o \in Object : reconcileDesiredObject(o)
    \/ AppliedAll
    \/ \E o \in Object, uid \in UID : Prune(o, uid)
    \/ PrunedAll
    \/ UpdateStatus
    \/ StatusFails

Next ==
    \/ \E s \in Specs : ChangeSpec(s)
    \/ \E o \in Object : SyncCache(o) \/ Meddle(o)
    \/ Reconcile

\* The work queue is served and the informers keep watching.
Fairness ==
    /\ WF_vars(Reconcile)
    /\ \A o \in Object : WF_vars(SyncCache(o))

Spec == Init /\ [][Next]_vars /\ Fairness

-----------------------------------------------------------------------------

\* The variables have the types of the objects and of the controller's locals.
TypeOK ==
    /\ spec \in Specs /\ instance \in Specs
    /\ store \in [Object -> Stored]
    /\ cache \in [Object -> Stored]
    /\ unseen \subseteq Object
    /\ queued \in BOOLEAN /\ failed \in BOOLEAN
    /\ pc \in {"idle", "list", "apply", "prune", "status"}
    /\ owned \subseteq Object \X UID
    /\ todo \subseteq Object
    /\ desiredUIDs \subseteq UID
    /\ overlooked \subseteq Object \ Listed
    /\ specChanges \in 0..MaxSpecChanges
    /\ meddling \in 0..MaxMeddling
    /\ failures \in 0..MaxFailures

InPlace(o) ==
    /\ Exists(o)
    /\ store[o].body = Desired[spec][o].body
    /\ store[o].selector = Desired[spec][o].selector

\* The cache has received all events whenever a reconcile lists its objects.
FreshLists == pc = "list" => unseen = {}

Reconciled ==
    spec \in Managed =>
        /\ \A o \in DOMAIN Desired[spec] \ overlooked : InPlace(o)
        /\ \A o \in Listed \ DOMAIN Desired[spec] : ~Exists(o)

\* Whatever others did, whatever failed and however stale the cache was: once
\* that ends, every desired object is in place and every listed object that is
\* not desired is gone, for good.  The kinds the controller neither lists nor
\* watches (autoscalers, budgets, monitors, routes) are in place as well, unless
\* another client changed or deleted one, or the last reconcile found it good in
\* a copy that was outdated: nothing tells the controller to look again.  Stale
\* lists must end too: a list from before a deletion makes the prune delete, by
\* name, the object created since, and its deletion can be missing from the next
\* list in turn.
EventuallyReconciled == <>[]FreshLists => <>[]Reconciled

\* Pruning by UID protects what the reconcile has just confirmed: an object that
\* is desired is not pruned while it is the one that was listed.
KeepsConfirmedObjects ==
    [][\A o \in Object, uid \in UID :
           Prune(o, uid) /\ o \in DOMAIN Desired[instance] /\ Exists(o)
               => store[o].uid # uid]_vars
=============================================================================
