----------------------------- MODULE AutoMonitor -----------------------------
(***************************************************************************)
(* The auto monitor of the operator (pkg/instrumentation/auto): it puts    *)
(* the instrumentation annotations on the pod templates of the workloads   *)
(* that a Service selects.  Three callers do so at the same time: the      *)
(* handler of the service informer, the pass over all workloads at the     *)
(* start, and the admission webhook on every write of a workload.          *)
(*                                                                         *)
(* The handler works on shallow copies of the cached workloads: it changes *)
(* the very annotation map the informer cache holds, whether or not the    *)
(* patch that follows succeeds, and the patch replaces all annotations by  *)
(* that map.  A workload without annotations has a nil map, which is not   *)
(* shared.                                                                 *)
(*                                                                         *)
(* Workloads are of one kind: the three kinds are handled alike.           *)
(***************************************************************************)
EXTENDS Naturals, Sequences, FiniteSets

CONSTANTS
    Workload, Service, Namespace, Label,
    Language,           \* instrumentation.SupportedTypes
    UserKey,            \* other annotations
    NamespaceOf,        \* of workloads and services
    LabelsOf,           \* of the pod template of each workload
    MonitorAllServices, Languages, CustomSelector, Exclude,     \* MonitorConfig
    ExcludedNamespaces,
    NoService,          \* there is no such service
    Nil,                \* the nil map
    MaxServiceChanges, MaxEdits, MaxFailures, MaxRestarts   \* bounds

Selector == SUBSET Label

\* buildAnnotations: the keys of a language.
Keys(l) == {"inject", "auto"} \X {l}

AnyKey == (UNION {Keys(l) : l \in Language}) \cup UserKey

ASSUME MonitorAssumption ==
    /\ NamespaceOf \in [Workload \cup Service -> Namespace]
    /\ LabelsOf \in [Workload -> Selector \ {{}}]
    /\ MonitorAllServices \in BOOLEAN
    /\ Languages \subseteq Language
    /\ CustomSelector \in [Workload -> SUBSET Language]
    /\ Exclude \in [Workload -> SUBSET Language]
    /\ ExcludedNamespaces \subseteq Namespace
    /\ \A selector \in Selector : selector # NoService
    /\ \A a \in SUBSET AnyKey : a # Nil

ASSUME ServicesAssumption == IsFiniteSet(Service)

ASSUME UserKeyAssumption == UserKey \cap UNION {Keys(l) : l \in Language} = {}

ASSUME MonitorBoundAssumption ==
    {MaxServiceChanges, MaxEdits, MaxFailures, MaxRestarts} \subseteq Nat

\* The goroutine of the informer's handler, and the one of MutateAndPatchAll.
Proc == {"event", "startup"}

VARIABLES
    restartPods,    \* MonitorConfig.RestartPods
    services,       \* API server: the selector of each service, or NoService
    serviceStore,   \* the store of the service informer
    notifications,  \* for the handler: selectors before and after
    template,       \* API server: the annotations of each pod template
    cache,          \* the workload informer: annotations, or Nil
    unseen,         \* workloads with a watch event for the informer
    started,        \* MutateAndPatchAll was called
    todo,           \* of each Proc: the workloads listed and not yet handled
    copy,           \* of each Proc: their annotations
    shared,         \* those whose copy of the handler is the map in the cache
    patching,       \* of each Proc: the workloads with a patch to send
    edits,          \* of the pod template of each workload, by its user
    changes, failures, restarts     \* bounded by the constants

serviceVars == <<services, serviceStore, notifications>>
procVars == <<started, todo, copy, shared, patching>>
bounds == <<changes, failures, restarts>>

vars == <<restartPods, serviceVars, template, cache, unseen, procVars, edits, bounds>>

Ann(a) == IF a = Nil THEN {} ELSE a

\* An object as it is decoded: an empty map becomes nil.
Decoded(a) == IF a = {} THEN Nil ELSE a

Idle == [p \in Proc |-> {}]

NoCopies == [p \in Proc |-> [w \in Workload |-> Nil]]

\* The notifications of a start: one Add for each service, in any order.
AddEvents(store) ==
    LET there == {s \in Service : store[s] # NoService}
    IN  {[n \in DOMAIN order |-> [old |-> NoService, new |-> store[order[n]]]] :
             order \in {f \in [1..Cardinality(there) -> there] :
                            \A s \in there : \E n \in DOMAIN f : f[n] = s}}

\* NewMonitor returns when its informers have their stores.
Init ==
    /\ restartPods \in BOOLEAN
    /\ services \in [Service -> {NoService} \cup Selector]
    /\ serviceStore = services
    /\ notifications \in AddEvents(services)
    /\ template \in [Workload -> SUBSET UserKey]
    /\ cache = [w \in Workload |-> Decoded(template[w])]
    /\ unseen = {}
    /\ started = FALSE
    /\ todo = Idle
    /\ copy = NoCopies
    /\ shared = {}
    /\ patching = Idle
    /\ edits = [w \in Workload |-> 0]
    /\ changes = 0 /\ failures = 0 /\ restarts = 0

-----------------------------------------------------------------------------
\* MutateObject.

\* isWorkloadAutoMonitored.
Monitored(w) ==
    /\ MonitorAllServices
    /\ NamespaceOf[w] \notin ExcludedNamespaces
    /\ \E s \in Service :
           /\ serviceStore[s] \notin {NoService, {}}
           /\ NamespaceOf[s] = NamespaceOf[w]
           /\ serviceStore[s] \subseteq LabelsOf[w]

LanguagesToAnnotate(w) ==
    (CustomSelector[w] \cup (IF Monitored(w) THEN Languages ELSE {})) \ Exclude[w]

\* mutate: a language chosen gets the keys it lacks, one not chosen loses its
\* keys if it has them all.
MutateNew(annotations, chosen) ==
    (annotations \cup UNION {Keys(l) : l \in {m \in chosen : Keys(m) \cap annotations = {}}})
        \ UNION {Keys(l) : l \in {m \in Language \ chosen : Keys(m) \subseteq annotations}}
Mutate(annotations, chosen) ==
    (annotations \cup UNION {Keys(l) : l \in chosen})
        \ UNION {Keys(l) : l \in {m \in Language \ chosen : Keys(m) \subseteq annotations}}

safeToMutateAlways(templateChanged) == TRUE
safeToMutate(templateChanged) == restartPods \/ templateChanged

\* What the webhook makes of a write of w.
Admitted(w, annotations, templateChanged) ==
    IF safeToMutate(templateChanged)
    THEN Mutate(annotations, LanguagesToAnnotate(w))
    ELSE annotations

\* A write of w reaches the API server.  The webhook's failure policy is Ignore:
\* a write it does not answer is stored as it is.
Write(w, annotations, templateChanged) ==
    \E called \in BOOLEAN :
        LET stored == IF called THEN Admitted(w, annotations, templateChanged) ELSE annotations
        IN  /\ called \/ failures < MaxFailures
            /\ failures' = IF called THEN failures ELSE failures + 1
            /\ template' = [template EXCEPT ![w] = stored]
            /\ unseen' = unseen \cup (IF templateChanged \/ stored # template[w] THEN {w} ELSE {})

-----------------------------------------------------------------------------
\* The cluster.

ChangeService(s, selector) ==
    /\ changes < MaxServiceChanges
    /\ selector # services[s]
    /\ services' = [services EXCEPT ![s] = selector]
    /\ changes' = changes + 1
    /\ UNCHANGED <<restartPods, serviceStore, notifications, template, cache, unseen, procVars,
                   edits, failures, restarts>>

\* The user changes the pod template of w; annotations are those the user sets, on
\* top of the operator's keys.
EditTemplate(w, annotations) ==
    /\ edits[w] < MaxEdits
    /\ edits' = [edits EXCEPT ![w] = @ + 1]
    /\ Write(w, (template[w] \ UserKey) \cup annotations, TRUE)
    /\ UNCHANGED <<restartPods, serviceVars, cache, procVars, changes, restarts>>

\* A write of w that leaves its pod template alone, as scaling does.
ScaleWorkload(w) ==
    /\ Write(w, template[w], FALSE)
    /\ UNCHANGED <<restartPods, serviceVars, cache, procVars, edits, changes, restarts>>

\* The status of w changes; no webhook is called.
UpdateStatus(w) ==
    /\ unseen' = unseen \cup {w}
    /\ UNCHANGED <<restartPods, serviceVars, template, cache, procVars, edits, bounds>>

SyncWorkload(w) ==
    /\ w \in unseen
    /\ unseen' = unseen \ {w}
    /\ cache' = [cache EXCEPT ![w] = Decoded(template[w])]
    /\ shared' = shared \ {w}
    /\ UNCHANGED <<restartPods, serviceVars, template, started, todo, copy, patching,
                   edits, bounds>>

SyncService(s) ==
    /\ serviceStore[s] # services[s]
    /\ serviceStore' = [serviceStore EXCEPT ![s] = services[s]]
    /\ notifications' = Append(notifications, [old |-> serviceStore[s], new |-> services[s]])
    /\ UNCHANGED <<restartPods, services, template, cache, unseen, procVars, edits, bounds>>

\* informerResyncPeriod: a service is notified as if it had been updated.
Resync(s) ==
    /\ notifications = <<>>
    /\ serviceStore[s] # NoService
    /\ notifications' = <<[old |-> serviceStore[s], new |-> serviceStore[s]]>>
    /\ UNCHANGED <<restartPods, services, serviceStore, template, cache, unseen, procVars,
                   edits, bounds>>

-----------------------------------------------------------------------------
\* The monitor.

\* onServiceEvent lists the workloads whose labels are those of the selector
\* before or after, in whatever namespace.
TakeEventAlways ==
    /\ todo["event"] = {} /\ patching["event"] = {}
    /\ notifications # <<>>
    /\ notifications' = Tail(notifications)
    /\ LET e == Head(notifications)
           listed == {w \in Workload : LabelsOf[w] \in {e.old, e.new}}
       IN  /\ todo' = [todo EXCEPT !["event"] = listed]
           /\ copy' = [copy EXCEPT !["event"] = [w \in Workload |-> IF w \in listed THEN cache[w] ELSE Nil]]
           /\ shared' = listed
    /\ UNCHANGED <<restartPods, services, serviceStore, template, cache, unseen, started, patching,
                   edits, bounds>>
TakeEvent ==
    /\ todo["event"] = {} /\ patching["event"] = {}
    /\ notifications # <<>>
    /\ notifications' = Tail(notifications)
    /\ LET e == Head(notifications)
           listed == {w \in Workload : restartPods /\ LabelsOf[w] \in {e.old, e.new}}
       IN  /\ todo' = [todo EXCEPT !["event"] = listed]
           /\ copy' = [copy EXCEPT !["event"] = [w \in Workload |-> IF w \in listed THEN cache[w] ELSE Nil]]
           /\ shared' = listed
    /\ UNCHANGED <<restartPods, services, serviceStore, template, cache, unseen, started, patching,
                   edits, bounds>>

\* MutateAndPatchAll lists the workloads from the API server.
MutateAndPatchAll ==
    /\ ~started
    /\ started' = TRUE
    /\ IF restartPods
       THEN /\ todo' = [todo EXCEPT !["startup"] = Workload]
            /\ copy' = [copy EXCEPT !["startup"] = [w \in Workload |-> Decoded(template[w])]]
       ELSE UNCHANGED <<todo, copy>>
    /\ UNCHANGED <<restartPods, serviceVars, template, cache, unseen, shared, patching,
                   edits, bounds>>

\* MutateObject on the copy.  The handler goes on to the next workload when nothing
\* changes; the pass at the start sends its patch all the same.
MutateCopy(p, w) ==
    LET mutated == Mutate(Ann(copy[p][w]), LanguagesToAnnotate(w))
        changed == mutated # Ann(copy[p][w])
    IN  /\ w \in todo[p]
        /\ patching[p] = {}
        /\ todo' = [todo EXCEPT ![p] = @ \ {w}]
        /\ IF changed \/ p = "startup"
           THEN patching' = [patching EXCEPT ![p] = {[workload |-> w, from |-> Ann(copy[p][w]),
                                                      to |-> mutated]}]
           ELSE UNCHANGED patching
        /\ IF p = "event" /\ w \in shared /\ copy[p][w] # Nil
           THEN cache' = [cache EXCEPT ![w] = mutated]
           ELSE UNCHANGED cache
        /\ copy' = [copy EXCEPT ![p][w] = Nil]
        /\ shared' = IF p = "event" THEN shared \ {w} ELSE shared
        /\ UNCHANGED <<restartPods, serviceVars, template, unseen, started, edits, bounds>>

\* The annotations after a patch: the handler replaces them all, the pass at the
\* start merges the difference to what it had listed.
PatchedReplacing(p, patch) == patch.to
Patched(p, patch) ==
    IF p = "event"
    THEN patch.to
    ELSE (template[patch.workload] \cup (patch.to \ patch.from)) \ (patch.from \ patch.to)

SendPatch(p) ==
    \E patch \in patching[p] :
        /\ patching' = [patching EXCEPT ![p] = {}]
        /\ Write(patch.workload, Patched(p, patch), Patched(p, patch) # template[patch.workload])
        /\ UNCHANGED <<restartPods, serviceVars, cache, started, todo, copy, shared,
                       edits, changes, restarts>>

\* An error is logged and that is all.
PatchFails(p) ==
    /\ patching[p] # {}
    /\ failures < MaxFailures
    /\ failures' = failures + 1
    /\ patching' = [patching EXCEPT ![p] = {}]
    /\ UNCHANGED <<restartPods, serviceVars, template, cache, unseen, started, todo, copy, shared,
                   edits, changes, restarts>>

\* The operator ends, or crashes (on the tombstone of a service, DeleteFunc
\* panics), and starts again.
Restart ==
    /\ restarts < MaxRestarts
    /\ restarts' = restarts + 1
    /\ serviceStore' = services
    /\ notifications' \in AddEvents(services)
    /\ cache' = [w \in Workload |-> Decoded(template[w])]
    /\ unseen' = {}
    /\ started' = FALSE
    /\ todo' = Idle
    /\ copy' = NoCopies
    /\ shared' = {}
    /\ patching' = Idle
    /\ UNCHANGED <<restartPods, services, template, edits, changes, failures>>

MonitorStep(p) == \E w \in Workload : MutateCopy(p, w)

Next ==
    \/ \E s \in Service :
           \/ \E selector \in {NoService} \cup Selector : ChangeService(s, selector)
           \/ SyncService(s)
           \/ Resync(s)
    \/ \E w \in Workload :
           \/ \E annotations \in SUBSET (UserKey \cup ({"inject"} \X Language)) : EditTemplate(w, annotations)
           \/ ScaleWorkload(w)
           \/ UpdateStatus(w)
           \/ SyncWorkload(w)
    \/ TakeEvent
    \/ MutateAndPatchAll
    \/ \E p \in Proc : MonitorStep(p) \/ SendPatch(p) \/ PatchFails(p)
    \/ Restart

\* The informers keep watching and resyncing and the goroutines keep running.
\* Patches do not fail for ever (MaxFailures).
Fairness ==
    /\ \A w \in Workload : WF_vars(SyncWorkload(w))
    /\ \A s \in Service : WF_vars(SyncService(s)) /\ SF_vars(Resync(s))
    /\ WF_vars(TakeEvent)
    /\ WF_vars(MutateAndPatchAll)
    /\ \A p \in Proc : WF_vars(MonitorStep(p)) /\ WF_vars(SendPatch(p))

Spec == Init /\ [][Next]_vars /\ Fairness

-----------------------------------------------------------------------------

Patches == [workload : Workload, from : SUBSET AnyKey, to : SUBSET AnyKey]

\* The variables have the types of the objects and of the code's locals, and
\* without RestartPods the monitor lists no workloads.
TypeOK ==
    /\ restartPods \in BOOLEAN /\ started \in BOOLEAN
    /\ services \in [Service -> {NoService} \cup Selector]
    /\ serviceStore \in [Service -> {NoService} \cup Selector]
    /\ notifications \in Seq([old : {NoService} \cup Selector, new : {NoService} \cup Selector])
    /\ template \in [Workload -> SUBSET AnyKey]
    /\ cache \in [Workload -> {Nil} \cup SUBSET AnyKey]
    /\ unseen \subseteq Workload /\ shared \subseteq todo["event"]
    /\ todo \in [Proc -> SUBSET Workload]
    /\ copy \in [Proc -> [Workload -> {Nil} \cup SUBSET AnyKey]]
    /\ patching \in [Proc -> SUBSET Patches]
    /\ ~restartPods => todo = Idle
    /\ edits \in [Workload -> 0..MaxEdits]
    /\ changes \in 0..MaxServiceChanges /\ failures \in 0..MaxFailures /\ restarts \in 0..MaxRestarts

\* Without RestartPods the operator restarts no pods: the annotations of a pod
\* template change only with an edit of the template by its user, who restarts
\* the pods anyway.
NoUninvitedRestart ==
    [][\A w \in Workload :
           template'[w] # template[w] => restartPods \/ edits'[w] # edits[w]]_vars

\* The cache differs from the API server and no event is on its way: the handler
\* changed the cached map and its patch failed.
Polluted(w) == w \notin unseen /\ Ann(cache[w]) # template[w]

\* A service selects w by exactly the labels of w.
ExactlySelected(w) ==
    \E s \in Service : services[s] = LabelsOf[w] /\ NamespaceOf[s] = NamespaceOf[w]

Instrumented(w) == \A l \in LanguagesToAnnotate(w) : Keys(l) \subseteq template[w]

\* With RestartPods, a workload that a service keeps selecting by all its labels
\* gets and keeps its annotations, whatever patches failed, webhooks did not
\* answer and users edited before; unless the cache stays polluted.
EventuallyInstrumented ==
    restartPods =>
        \A w \in Workload :
            <>[](ExactlySelected(w) /\ ~Polluted(w)) => <>[]Instrumented(w)

\* Test_OptOutByRemovingService, "auto restart true, delete while operator
\* running" (monitor_test.go): once no service selects a workload, the operator's
\* annotations are gone.
OptOutTakesEffect ==
    restartPods =>
        \A w \in Workload :
            <>[](LanguagesToAnnotate(w) = {} /\ \A s \in Service : services[s] = serviceStore[s])
                => <>[](\A l \in Language : ~(Keys(l) \subseteq template[w]))

\* What users put on a pod template stays as they set it, except that the handler's
\* patch replaces all annotations by those of its copy: it undoes an edit made since
\* the workload was cached, and nothing else does (getAnnotationsPatch, monitor.go).
LostOnlyToStaleHandler ==
    [][\A w \in Workload :
           edits'[w] = edits[w] /\ template'[w] \cap UserKey # template[w] \cap UserKey =>
               \E patch \in patching["event"] :
                   /\ patch.workload = w
                   /\ patch.from \cap UserKey # template[w] \cap UserKey]_vars
=============================================================================
