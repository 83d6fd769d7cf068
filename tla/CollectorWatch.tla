--------------------------- MODULE CollectorWatch ---------------------------
(***************************************************************************)
(* The collector watcher (collector/collector.go) feeding the allocator:   *)
(* one List at start, then one Watch after another, each open for at most  *)
(* watcherTimeout; every event ends in a call of allocator.SetCollectors.  *)
(*                                                                         *)
(* The Kubernetes API server is external.  A Watch without a resource      *)
(* version first sends an ADDED event for every pod there is, then the     *)
(* changes in order; what happens while no Watch is open is never sent.    *)
(* collectorMap outlives a Watch and nothing is listed again, so the       *)
(* deletion of a pod between two watches is missed: the history variable   *)
(* missed collects those pods.                                             *)
(***************************************************************************)
EXTENDS Allocator, Sequences

CONSTANT MaxEvents      \* bound on the events of pod changes in flight

ASSUME MaxEventsAssumption == MaxEvents \in Nat

VARIABLES
    pods,           \* API server: state of the pod of each name
    phase,          \* of Client.Watch: "listing", "connecting", "watching"
    events,         \* sent on the open watch and not yet received
    collectorMap,   \* the keys of collectorMap
    missed          \* history: pods whose deletion no watch will report

clientVars == <<phase, events, collectorMap>>

watchVars == <<vars, pods, clientVars, missed>>

Live == {p \in Collector : pods[p] # "absent"}

EventType == {"ADDED", "MODIFIED", "DELETED"}

Event == [type : EventType, pod : Collector]

WatchInit ==
    /\ Init
    /\ pods \in [Collector -> {"absent", "running"}]
    /\ phase = "listing"
    /\ events = <<>>
    /\ collectorMap = {}
    /\ missed = {}

-----------------------------------------------------------------------------
\* The API server.

\* A change of a pod reaches the watch that is open.
Send(type, p) ==
    IF phase = "watching"
    THEN /\ Len(events) < MaxEvents
         /\ events' = Append(events, [type |-> type, pod |-> p])
    ELSE UNCHANGED events

CreatePod(p) ==
    /\ pods[p] = "absent"
    /\ pods' = [pods EXCEPT ![p] = "running"]
    /\ Send("ADDED", p)
    /\ missed' = missed \ {p}
    /\ UNCHANGED <<vars, phase, collectorMap>>

\* The pod gets a deletion timestamp.
TerminatePod(p) ==
    /\ pods[p] = "running"
    /\ pods' = [pods EXCEPT ![p] = "terminating"]
    /\ Send("MODIFIED", p)
    /\ UNCHANGED <<vars, phase, collectorMap, missed>>

DeletePod(p) ==
    /\ pods[p] # "absent"
    /\ pods' = [pods EXCEPT ![p] = "absent"]
    /\ Send("DELETED", p)
    /\ missed' = IF phase = "watching" THEN missed ELSE missed \cup {p}
    /\ UNCHANGED <<vars, phase, collectorMap>>

-----------------------------------------------------------------------------
\* Client.Watch.

\* The List before the first watch: pods with a deletion timestamp are left out.
List ==
    /\ phase = "listing"
    /\ collectorMap' = {p \in Collector : pods[p] = "running"}
    /\ SetCollectors(collectorMap')
    /\ phase' = "connecting"
    /\ missed' = {}
    /\ UNCHANGED <<pods, events>>

\* restartWatch: the new watch starts with the pods there are, in any order.
OpenWatchFromNow ==
    /\ phase = "connecting"
    /\ phase' = "watching"
    /\ events' = <<>>
    /\ UNCHANGED <<vars, pods, collectorMap, missed>>
OpenWatch ==
    /\ phase = "connecting"
    /\ phase' = "watching"
    /\ \E order \in [1..Cardinality(Live) -> Live] :
           /\ \A p \in Live : \E n \in DOMAIN order : order[n] = p
           /\ events' = [n \in DOMAIN order |-> [type |-> "ADDED", pod |-> order[n]]]
    /\ UNCHANGED <<vars, pods, collectorMap, missed>>

\* collectorMap after one event; MODIFIED and other types leave it alone.
HandledIgnoringDeleted(map, event) ==
    IF event.type = "ADDED" THEN map \cup {event.pod} ELSE map
Handled(map, event) ==
    CASE event.type = "ADDED"   -> map \cup {event.pod}
      [] event.type = "DELETED" -> map \ {event.pod}
      [] OTHER                  -> map

\* runWatch receives an event.  The deletion timestamp of an ADDED pod is not
\* looked at here.
HandleEventNoCall ==
    /\ phase = "watching"
    /\ events # <<>>
    /\ collectorMap' = Handled(collectorMap, Head(events))
    /\ events' = Tail(events)
    /\ IF Head(events).type = "DELETED" THEN UNCHANGED vars ELSE SetCollectors(collectorMap')
    /\ UNCHANGED <<pods, phase, missed>>
HandleEvent ==
    /\ phase = "watching"
    /\ events # <<>>
    /\ collectorMap' = Handled(collectorMap, Head(events))
    /\ events' = Tail(events)
    /\ SetCollectors(collectorMap')
    /\ UNCHANGED <<pods, phase, missed>>

\* The timeout of the context, a closed channel or an object that is no pod end
\* the watch; what it had sent and was not received is lost.
EndWatch ==
    /\ phase = "watching"
    /\ phase' = "connecting"
    /\ events' = <<>>
    /\ missed' = missed \cup {p \in Collector \ Live :
                     \E n \in DOMAIN events : events[n] = [type |-> "DELETED", pod |-> p]}
    /\ UNCHANGED <<vars, pods, collectorMap>>

\* A failed List is os.Exit, a failed Watch ends the actor and with it the run
\* group: the process ends and the container is started again.
Exit ==
    /\ phase \in {"listing", "connecting"}
    /\ phase' = "listing"
    /\ collectorMap' = {}
    /\ collectors' = {}
    /\ numTargets' = [c \in {} |-> 0]
    /\ members' = {}
    /\ targetItems' = [i \in {} |-> Unassigned]
    /\ mapping' = {}
    /\ missed' = {}
    /\ UNCHANGED <<pods, events>>

\* Target discovery calls SetTargets from a goroutine of its own.
Discover(targets) ==
    /\ SetTargets(targets)
    /\ UNCHANGED <<pods, clientVars, missed>>

WatchNext ==
    \/ \E p \in Collector : CreatePod(p) \/ TerminatePod(p) \/ DeletePod(p)
    \/ List
    \/ OpenWatch
    \/ HandleEvent
    \/ EndWatch
    \/ Exit
    \/ \E targets \in SUBSET Item : Discover(targets)

\* The goroutine of Client.Watch keeps running.
WatchFairness ==
    /\ WF_watchVars(List)
    /\ WF_watchVars(OpenWatch)
    /\ WF_watchVars(HandleEvent)

WatchSpec == WatchInit /\ [][WatchNext]_watchVars /\ WatchFairness

-----------------------------------------------------------------------------

\* The variables have the types of the code's fields and of the API's objects.
WatchTypeOK ==
    /\ TypeOK
    /\ pods \in [Collector -> {"absent", "running", "terminating"}]
    /\ phase \in {"listing", "connecting", "watching"}
    /\ events \in Seq(Event)
    /\ collectorMap \in SUBSET Collector
    /\ missed \in SUBSET Collector

\* Whether p is in collectorMap once the events in flight are handled: the last
\* one about p decides, and if there is none, p stays as it is.
Replayed(p) ==
    LET about == {n \in DOMAIN events : events[n].pod = p /\ events[n].type # "MODIFIED"}
    IN  IF about = {}
        THEN p \in collectorMap
        ELSE \E n \in about : /\ \A m \in about : m <= n
                              /\ events[n].type = "ADDED"

\* No pod is lost: while a watch is open, every pod that exists is in
\* collectorMap or on its way there, however many watches timed out before.
LivePodsTracked == phase = "watching" => \A p \in Live : Replayed(p)

\* collectorMap holds on to a pod that is gone only if its deletion fell between
\* two watches or was dropped with the end of one.
GoneOnlyIfMissed ==
    phase # "listing" => \A p \in Collector \ Live : Replayed(p) => p \in missed

\* The allocator works with collectorMap, except that an empty map never
\* reaches it: then it keeps serving the last collectors it had.
AllocatorFollowsMap ==
    phase # "listing" => collectors = collectorMap \/ collectorMap = {}

\* While the watch stays open, a pod that stays up becomes a collector for good.
EventuallyCollector ==
    \A p \in Collector :
        <>[](phase = "watching" /\ pods[p] = "running") => <>[](p \in collectors)

\* While the watch stays open and some pod is always there, a pod whose deletion
\* was not missed stops being a collector: its targets are scraped by others.
EventuallyDropped ==
    \A p \in Collector :
        <>[](phase = "watching" /\ Live # {} /\ p \notin Live /\ p \notin missed)
            => <>[](p \notin collectors)
=============================================================================
