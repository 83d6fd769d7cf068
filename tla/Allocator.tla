----------------------------- MODULE Allocator -----------------------------
(***************************************************************************)
(* The consistent-hashing allocator of the target allocator                *)
(* (cmd/amazon-cloudwatch-agent-target-allocator/allocation).  SetTargets  *)
(* and SetCollectors each run under the allocator's write lock, so each is *)
(* one atomic action.  The loops of handleTargets and handleCollectors     *)
(* touch each item independently of the others; an action performs the     *)
(* whole loop at once and counts the decrements and increments it makes.   *)
(*                                                                         *)
(* An item stands for its hash (diff.Maps compares nothing else).  Its     *)
(* URL is all that LocateKey sees, so two items may share one.             *)
(*                                                                         *)
(* A definition placed right before another one of the same name with a    *)
(* suffix is that definition with a plausible slip in it; PROJECT.json     *)
(* names the property that catches it.                                     *)
(***************************************************************************)
EXTENDS Integers, FiniteSets

CONSTANTS
    Collector,      \* names of collector pods
    Item,           \* hashes of target items
    URL,            \* what LocateKey is given
    Locate(_, _),   \* consistent.LocateKey(members, url), the external library
    UrlOf,          \* the TargetURL of an item
    Unassigned      \* the empty CollectorName of a new item

ASSUME CollectorAssumption ==
    /\ IsFiniteSet(Collector)
    /\ Unassigned \notin Collector

ASSUME ItemAssumption ==
    /\ IsFiniteSet(Item)
    /\ UrlOf \in [Item -> URL]

\* With at least one member the ring always has an owner for a key.
ASSUME LocateAssumption ==
    \A members \in SUBSET Collector, url \in URL :
        members # {} => Locate(members, url) \in members

VARIABLES
    collectors,     \* the keys of c.collectors
    numTargets,     \* Collector.NumTargets of each of them
    members,        \* the members of c.consistentHasher
    targetItems,    \* c.targetItems: item |-> its CollectorName
    mapping         \* c.targetItemsPerJobPerCollector: pairs <<collector, item>>

vars == <<collectors, numTargets, members, targetItems, mapping>>

-----------------------------------------------------------------------------

\* diff.Maps on the keys of two maps.  The hash of a value is its key, both for
\* items and for collectors, so no key is both added and removed.
Maps(current, new) == [additions |-> new \ current, removals |-> current \ new]

\* The items of S that items assigns to c.
ItemsAt(items, S, c) == {i \in S : items[i] = c}

\* What LocateKey answers for each item of S; becomes its CollectorName.
Owners(ring, S) == [i \in S |-> Locate(ring, UrlOf[i])]

Pairs(items, S) == {<<items[i], i>> : i \in S}

-----------------------------------------------------------------------------

Init ==
    /\ collectors = {}
    /\ numTargets = [c \in {} |-> 0]
    /\ members = {}
    /\ targetItems = [i \in {} |-> Unassigned]
    /\ mapping = {}

\* SetTargets while no collector is known: the items are kept, unassigned, for
\* handleCollectors to allocate later.
SaveTargets(changes) ==
    LET kept == DOMAIN targetItems \ changes.removals
    IN  /\ targetItems' = [i \in kept \cup changes.additions |->
                               IF i \in kept THEN targetItems[i] ELSE Unassigned]
        /\ UNCHANGED <<collectors, numTargets, members, mapping>>

\* Removed items leave the collector that had them; items that are not there
\* yet go to their owner on the ring.
handleTargets(changes) ==
    LET removed == DOMAIN targetItems \cap changes.removals
        kept    == DOMAIN targetItems \ removed
        fresh   == changes.additions \ kept
        owners  == Owners(members, fresh)
    IN  /\ targetItems' = [i \in kept \cup fresh |->
                               IF i \in kept THEN targetItems[i] ELSE owners[i]]
        /\ mapping' = (mapping \ Pairs(targetItems, removed)) \cup Pairs(owners, fresh)
        /\ numTargets' = [c \in collectors |->
                              numTargets[c]
                                - Cardinality(ItemsAt(targetItems, removed, c))
                                + Cardinality(ItemsAt(owners, fresh, c))]
        /\ UNCHANGED <<collectors, members>>

SetTargets(targets) ==
    LET changes == Maps(DOMAIN targetItems, targets)
    IN  IF collectors = {} THEN SaveTargets(changes) ELSE handleTargets(changes)

\* consistentHasher.Remove and Add, one call per removal and addition.
RingAfterNoRemove(changes) == members \cup changes.additions
RingAfter(changes) == (members \ changes.removals) \cup changes.additions

\* The items that addTargetToTargetItems takes from a previous collector: those
\* whose CollectorName is a collector that is still there.
ReassignedNone(present) == {}
Reassigned(present) == {i \in DOMAIN targetItems : targetItems[i] \in present}

\* The collectors and the ring are updated, then every item is added anew: it
\* leaves its previous collector (the mapping of a removed collector went with
\* it) and goes to its owner on the new ring.
handleCollectors(changes) ==
    LET items   == DOMAIN targetItems
        present == (collectors \ changes.removals) \cup changes.additions
        ring    == RingAfter(changes)
        owners  == Owners(ring, items)
        moving  == Reassigned(present)
        count(c) == IF c \in changes.additions THEN 0 ELSE numTargets[c]
    IN  /\ collectors' = present
        /\ members' = ring
        /\ targetItems' = owners
        /\ mapping' = ({p \in mapping : p[1] \notin changes.removals}
                           \ Pairs(targetItems, moving)) \cup Pairs(owners, items)
        /\ numTargets' = [c \in present |->
                              count(c)
                                - Cardinality(ItemsAt(targetItems, moving, c))
                                + Cardinality(ItemsAt(owners, items, c))]

\* An empty set of collectors is ignored: the previous collectors stay.
SetCollectors(new) ==
    LET changes == Maps(collectors, new)
    IN  IF new = {} \/ changes.additions \cup changes.removals = {}
        THEN UNCHANGED vars
        ELSE handleCollectors(changes)

Next ==
    \/ \E targets \in SUBSET Item : SetTargets(targets)
    \/ \E new \in SUBSET Collector : SetCollectors(new)

Spec == Init /\ [][Next]_vars

-----------------------------------------------------------------------------

\* GetTargetsForCollectorAndJob, for all jobs: an item's job is part of its hash.
GetTargetsForCollector(c) == {i \in Item : <<c, i>> \in mapping}

\* The variables range over what their Go types and the code's maps allow.
TypeOK ==
    /\ collectors \in SUBSET Collector
    /\ members \in SUBSET Collector
    /\ DOMAIN targetItems \in SUBSET Item
    /\ targetItems \in [DOMAIN targetItems -> Collector \cup {Unassigned}]
    /\ mapping \in SUBSET (Collector \X Item)
    /\ numTargets \in [collectors -> Int]

\* The ring has exactly the known collectors as members, so the owner that
\* LocateKey answers can be dereferenced in c.collectors.
RingIsCollectors == members = collectors

\* Once a collector is known, every item is owned by a known collector and it is
\* the one the ring answers now, whatever the order in which targets and
\* collectors came and went.  handleTargets dereferences c.collectors at the
\* owner of a removed item without a check.
OwnedByLocate ==
    collectors # {} =>
        \A i \in DOMAIN targetItems : targetItems[i] = Locate(collectors, UrlOf[i])

\* Without a collector nothing is assigned.
UnassignedBefore ==
    collectors = {} => \A i \in DOMAIN targetItems : targetItems[i] = Unassigned

\* The index that answers the collectors' HTTP calls and the items agree: each
\* assigned item is served to its owner and to no other, and no collector is
\* served an item that is gone (the code would put a nil into the answer).
MappingIsOwnership ==
    mapping = Pairs(targetItems, {i \in DOMAIN targetItems : targetItems[i] # Unassigned})

\* NumTargets of a collector is the number of targets it is served: the
\* decrements and increments of every reassignment balance.
NumTargetsIsServed ==
    \A c \in collectors : numTargets[c] = Cardinality(GetTargetsForCollector(c))

\* What an induction over the steps of the allocator needs: the parts above and
\* the ring's members, with nothing assigned before the first collector.
IndInv ==
    /\ TypeOK
    /\ RingIsCollectors
    /\ UnassignedBefore
    /\ OwnedByLocate
    /\ MappingIsOwnership
    /\ NumTargetsIsServed

\* The allocator implements TargetAssignment: what collectors are served is a
\* function of the current targets and collectors alone.
Assignment ==
    INSTANCE TargetAssignment
        WITH targets <- DOMAIN targetItems, live <- collectors, served <- mapping

ImplementsAssignment == Assignment!Spec
=============================================================================
