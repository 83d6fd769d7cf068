---------------------------- MODULE TargetServer ----------------------------
(***************************************************************************)
(* The overview of all targets that the HTTPS server answers when no       *)
(* collector is named, composed with the allocator it reads.               *)
(*                                                                         *)
(* TargetsHandler copies the names of the collectors under the read lock,  *)
(* then reads the targets of one collector after another, each under a     *)
(* read lock of its own: SetTargets and SetCollectors run in between.      *)
(* The overview is followed for one item; the other items of the answer    *)
(* are read by the same calls and do not influence it.                     *)
(***************************************************************************)
EXTENDS Allocator

VARIABLES
    open,       \* a request is being answered
    item,       \* the item followed
    todo,       \* collectors of the copy that are still to be read
    shown,      \* the collectors whose entry of displayData has the item
    ever,       \* history: the collectors that served the item at some time
    stayed      \* history: those that served it all the time since it opened

serverVars == <<open, item, todo, shown, ever, stayed>>

\* The collectors that served i by the index m.
ServedBy(m, i) == {c \in Collector : <<c, i>> \in m}

ServerInit ==
    /\ Init
    /\ open = FALSE
    /\ item = CHOOSE i \in Item : TRUE
    /\ todo = {} /\ shown = {} /\ ever = {} /\ stayed = {}

\* TargetsHandler without a collector_id: Collectors() copies the map.
OpenOverview(i) ==
    /\ ~open
    /\ open' = TRUE
    /\ item' = i
    /\ todo' = collectors
    /\ shown' = {}
    /\ ever' = ServedBy(mapping, i)
    /\ stayed' = ServedBy(mapping, i)
    /\ UNCHANGED vars

\* One turn of the loop of GetAllTargetsByJob; Go's map order is arbitrary.
ReadCollector(c) ==
    /\ open
    /\ c \in todo
    /\ todo' = todo \ {c}
    /\ shown' = IF item \in GetTargetsForCollector(c) THEN shown \cup {c} ELSE shown
    /\ UNCHANGED <<vars, open, item, ever, stayed>>

\* The answer is written.
AnswerOverview ==
    /\ open
    /\ todo = {}
    /\ open' = FALSE
    /\ shown' = {} /\ ever' = {} /\ stayed' = {}
    /\ UNCHANGED <<vars, item, todo>>

\* A step of the allocator, and what it does to the item that is followed.
Reallocate ==
    /\ Next
    /\ ever' = IF open THEN ever \cup ServedBy(mapping', item) ELSE ever
    /\ stayed' = stayed \cap ServedBy(mapping', item)
    /\ UNCHANGED <<open, item, todo, shown>>

ServerNext ==
    \/ \E i \in Item : OpenOverview(i)
    \/ \E c \in Collector : ReadCollector(c)
    \/ AnswerOverview
    \/ Reallocate

ServerSpec == ServerInit /\ [][ServerNext]_<<vars, serverVars>>

-----------------------------------------------------------------------------

\* The overview of GetAllTargetsByJob, though it takes the lock once per
\* collector, has the target under exactly the collector that serves it unless
\* the target was moved, added or removed while the overview was read; and it
\* never has a target under a collector that did not serve it meanwhile.
OverviewMisleadsOnlyIfMoved ==
    open /\ todo = {} =>
        /\ stayed \subseteq shown
        /\ shown \subseteq ever
        /\ ever = stayed => Cardinality(shown) <= 1
=============================================================================
