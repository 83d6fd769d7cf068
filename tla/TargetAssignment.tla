-------------------------- MODULE TargetAssignment --------------------------
(***************************************************************************)
(* What the target allocator promises its collectors, without the          *)
(* bookkeeping: at any time, each known target is served to one live       *)
(* collector, the one the hash ring picks for its URL.  The answer is a    *)
(* function of the current targets and collectors; how they came to be is  *)
(* forgotten, so a restarted allocator gives the answers of the old one.   *)
(***************************************************************************)
CONSTANTS Collector, Item, Locate(_, _), UrlOf

VARIABLES
    targets,    \* the targets known now
    live,       \* the collectors known now
    served      \* pairs <<collector, target>>: who is told to scrape what

vars == <<targets, live, served>>

Assign(cs, ts) ==
    IF cs = {} THEN {} ELSE {<<Locate(cs, UrlOf[t]), t>> : t \in ts}

Init ==
    /\ targets = {}
    /\ live = {}
    /\ served = {}

ChangeTargets(new) ==
    /\ targets' = new
    /\ served' = Assign(live, new)
    /\ UNCHANGED live

ChangeCollectors(new) ==
    /\ new # {}
    /\ live' = new
    /\ served' = Assign(new, targets)
    /\ UNCHANGED targets

Next ==
    \/ \E new \in SUBSET Item : ChangeTargets(new)
    \/ \E new \in SUBSET Collector : ChangeCollectors(new)

Spec == Init /\ [][Next]_vars
=============================================================================
