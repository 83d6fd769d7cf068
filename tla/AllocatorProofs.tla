--------------------------- MODULE AllocatorProofs ---------------------------
(***************************************************************************)
(* For every number of collectors and items, and for every ring that       *)
(* answers a member, the invariants of Allocator hold, the allocator       *)
(* implements TargetAssignment, and the overview of TargetServer shows     *)
(* what it may while targets are being reallocated.  For any number of     *)
(* pods and events the collector watch, which feeds the allocator, forgets *)
(* no pod that exists and keeps one that is gone only when its deletion    *)
(* was missed, and the allocator follows collectorMap.                     *)
(***************************************************************************)
EXTENDS TargetServer, CollectorWatch, FiniteSetTheorems, WellFoundedInduction, TLAPS

-----------------------------------------------------------------------------
\* Facts about the helpers.

\* The sizes of two disjoint finite sets add up.
LEMMA DisjointUnionSize ==
    ASSUME NEW A, IsFiniteSet(A), NEW B, IsFiniteSet(B), A \cap B = {}
    PROVE  /\ Cardinality(A) \in Nat
           /\ Cardinality(B) \in Nat
           /\ Cardinality(A \cup B) = Cardinality(A) + Cardinality(B)
<1>1. /\ Cardinality(A) \in Nat
      /\ Cardinality(B) \in Nat
  BY FS_CardinalityType
<1>2. Cardinality(A \cup B) = Cardinality(A) + Cardinality(B) - Cardinality(A \cap B)
  BY FS_Union
<1>3. Cardinality(A \cap B) = 0
  BY FS_EmptySet
<1> QED BY <1>1, <1>2, <1>3

\* The owners the ring answers are members of it.
LEMMA OwnersAreMembers ==
    ASSUME NEW ring \in SUBSET Collector, ring # {}, NEW S \in SUBSET Item
    PROVE  /\ Owners(ring, S) \in [S -> Collector]
           /\ \A i \in S : /\ Owners(ring, S)[i] = Locate(ring, UrlOf[i])
                           /\ Owners(ring, S)[i] \in ring
                           /\ Owners(ring, S)[i] # Unassigned
BY CollectorAssumption, ItemAssumption, LocateAssumption DEF Owners

\* With the index in step with the items, a collector is served what it owns.
LEMMA ServedIsOwned ==
    ASSUME TypeOK, MappingIsOwnership, NEW c \in Collector
    PROVE  GetTargetsForCollector(c) = ItemsAt(targetItems, DOMAIN targetItems, c)
BY CollectorAssumption
   DEF TypeOK, MappingIsOwnership, GetTargetsForCollector, ItemsAt, Pairs

\* A collector's share of a set of items is finite.
LEMMA ItemsAtFinite ==
    ASSUME NEW f, NEW S \in SUBSET Item, NEW c
    PROVE  IsFiniteSet(ItemsAt(f, S, c)) /\ Cardinality(ItemsAt(f, S, c)) \in Nat
<1>1. IsFiniteSet(ItemsAt(f, S, c))
  BY FS_Subset, ItemAssumption DEF ItemsAt
<1> QED BY <1>1, FS_CardinalityType

\* Counting the items of a collector in two disjoint sets of items.
LEMMA ItemsAtSplit ==
    ASSUME NEW f, NEW S \in SUBSET Item, NEW T \in SUBSET Item, S \cap T = {}, NEW c
    PROVE  /\ Cardinality(ItemsAt(f, S, c)) \in Nat
           /\ Cardinality(ItemsAt(f, T, c)) \in Nat
           /\ Cardinality(ItemsAt(f, S \cup T, c))
                = Cardinality(ItemsAt(f, S, c)) + Cardinality(ItemsAt(f, T, c))
<1>1. /\ IsFiniteSet(ItemsAt(f, S, c))
      /\ IsFiniteSet(ItemsAt(f, T, c))
  BY ItemsAtFinite
<1>2. ItemsAt(f, S, c) \cap ItemsAt(f, T, c) = {}
  BY DEF ItemsAt
<1>3. ItemsAt(f, S \cup T, c) = ItemsAt(f, S, c) \cup ItemsAt(f, T, c)
  BY DEF ItemsAt
<1> QED BY <1>1, <1>2, <1>3, DisjointUnionSize

-----------------------------------------------------------------------------
\* The inductive invariant.

\* The allocator starts with nothing known and nothing assigned.
LEMMA InitEstablishes == Init => IndInv
<1> SUFFICES ASSUME Init PROVE IndInv
  OBVIOUS
<1>1. TypeOK
  BY DEF Init, TypeOK
<1>2. RingIsCollectors /\ UnassignedBefore /\ OwnedByLocate /\ MappingIsOwnership
  BY DEF Init, RingIsCollectors, UnassignedBefore, OwnedByLocate, MappingIsOwnership, Pairs
<1>3. NumTargetsIsServed
  BY DEF Init, NumTargetsIsServed
<1> QED BY <1>1, <1>2, <1>3 DEF IndInv

\* Saving targets without a collector assigns nothing.
LEMMA SaveTargetsPreserves ==
    ASSUME IndInv, collectors = {}, NEW targets \in SUBSET Item,
           SaveTargets(Maps(DOMAIN targetItems, targets))
    PROVE  IndInv'
<1> USE DEF IndInv, Maps
<1>1. /\ UNCHANGED <<collectors, numTargets, members, mapping>>
      /\ DOMAIN targetItems' = targets
      /\ \A i \in targets : targetItems'[i] = Unassigned
      /\ targetItems' \in [targets -> {Unassigned}]
  BY DEF SaveTargets, TypeOK, UnassignedBefore
<1>2. TypeOK'
  BY <1>1 DEF TypeOK
<1>3. RingIsCollectors' /\ UnassignedBefore' /\ OwnedByLocate'
  BY <1>1 DEF RingIsCollectors, UnassignedBefore, OwnedByLocate
<1>4. MappingIsOwnership'
  <2>1. mapping = {}
    BY DEF MappingIsOwnership, UnassignedBefore, Pairs
  <2> QED BY <1>1, <2>1 DEF MappingIsOwnership, Pairs
<1>5. NumTargetsIsServed'
  BY <1>1 DEF NumTargetsIsServed
<1> QED BY <1>2, <1>3, <1>4, <1>5

\* Removing and adding targets while there are collectors.
LEMMA handleTargetsPreserves ==
    ASSUME IndInv, collectors # {}, NEW targets \in SUBSET Item,
           handleTargets(Maps(DOMAIN targetItems, targets))
    PROVE  IndInv'
<1> DEFINE items   == DOMAIN targetItems
           removed == items \ targets
           kept    == items \cap targets
           fresh   == targets \ items
           owners  == Owners(members, fresh)
<1>1. /\ items \in SUBSET Item /\ removed \in SUBSET Item
      /\ kept \in SUBSET Item /\ fresh \in SUBSET Item
      /\ kept \cup fresh = targets /\ kept \cap fresh = {}
      /\ removed \cup kept = items /\ removed \cap kept = {}
      /\ members \in SUBSET Collector /\ members = collectors /\ members # {}
  BY DEF IndInv, TypeOK, RingIsCollectors
<1>2. /\ owners \in [fresh -> Collector]
      /\ \A i \in fresh : /\ owners[i] = Locate(collectors, UrlOf[i])
                          /\ owners[i] # Unassigned
  BY <1>1, OwnersAreMembers
<1>3. /\ items \cap (items \ targets) = removed
      /\ items \ removed = kept
      /\ (targets \ items) \ kept = fresh
  OBVIOUS
<1>4. /\ UNCHANGED <<collectors, members>>
      /\ targetItems' = [i \in kept \cup fresh |->
                            IF i \in kept THEN targetItems[i] ELSE owners[i]]
      /\ mapping' = (mapping \ Pairs(targetItems, removed)) \cup Pairs(owners, fresh)
      /\ numTargets' = [c \in collectors |->
                            numTargets[c]
                              - Cardinality(ItemsAt(targetItems, removed, c))
                              + Cardinality(ItemsAt(owners, fresh, c))]
  BY <1>3, Zenon DEF handleTargets, Maps
<1> HIDE DEF items, removed, kept, fresh, owners
<1>5. /\ DOMAIN targetItems' = targets
      /\ \A i \in kept : targetItems'[i] = targetItems[i]
      /\ \A i \in fresh : targetItems'[i] = owners[i]
      /\ \A i \in targets : i \in kept \/ i \in fresh
  BY <1>1, <1>4
<1>6. \A i \in items : /\ targetItems[i] \in Collector
                       /\ targetItems[i] # Unassigned
                       /\ targetItems[i] = Locate(collectors, UrlOf[i])
  BY <1>1, LocateAssumption, ItemAssumption, CollectorAssumption
     DEF IndInv, OwnedByLocate, items
<1>7. OwnedByLocate' /\ \A i \in targets : targetItems'[i] \in Collector /\ targetItems'[i] # Unassigned
  BY <1>1, <1>2, <1>4, <1>5, <1>6 DEF OwnedByLocate
<1>8. MappingIsOwnership'
  <2>1. mapping = Pairs(targetItems, items)
    BY <1>6 DEF IndInv, MappingIsOwnership, Pairs, items
  <2>2. mapping \ Pairs(targetItems, removed) = Pairs(targetItems, kept)
    BY <2>1, <1>1 DEF Pairs
  <2>3. Pairs(targetItems', targets) = Pairs(targetItems, kept) \cup Pairs(owners, fresh)
    BY <1>1, <1>5 DEF Pairs
  <2>4. {i \in DOMAIN targetItems' : targetItems'[i] # Unassigned} = targets
    BY <1>5, <1>7
  <2> QED BY <1>4, <2>2, <2>3, <2>4 DEF MappingIsOwnership
<1>9. \A c \in collectors :
          /\ numTargets'[c] \in Int
          /\ numTargets'[c] = Cardinality(ItemsAt(targetItems', targets, c))
  <2> SUFFICES ASSUME NEW c \in collectors
               PROVE  /\ numTargets'[c] \in Int
                      /\ numTargets'[c] = Cardinality(ItemsAt(targetItems', targets, c))
    OBVIOUS
  <2>1. numTargets[c] = Cardinality(ItemsAt(targetItems, items, c))
    BY ServedIsOwned DEF IndInv, NumTargetsIsServed, TypeOK, items
  <2>2. /\ ItemsAt(targetItems', kept, c) = ItemsAt(targetItems, kept, c)
        /\ ItemsAt(targetItems', fresh, c) = ItemsAt(owners, fresh, c)
    BY <1>5 DEF ItemsAt
  <2>3. /\ Cardinality(ItemsAt(targetItems, removed, c)) \in Nat
        /\ Cardinality(ItemsAt(targetItems, kept, c)) \in Nat
        /\ Cardinality(ItemsAt(targetItems, items, c))
             = Cardinality(ItemsAt(targetItems, removed, c))
               + Cardinality(ItemsAt(targetItems, kept, c))
    BY <1>1, ItemsAtSplit
  <2>4. /\ Cardinality(ItemsAt(targetItems', fresh, c)) \in Nat
        /\ Cardinality(ItemsAt(targetItems', targets, c))
             = Cardinality(ItemsAt(targetItems', kept, c))
               + Cardinality(ItemsAt(targetItems', fresh, c))
    <3>1. /\ Cardinality(ItemsAt(targetItems', fresh, c)) \in Nat
          /\ Cardinality(ItemsAt(targetItems', kept \cup fresh, c))
               = Cardinality(ItemsAt(targetItems', kept, c))
                 + Cardinality(ItemsAt(targetItems', fresh, c))
      BY <1>1, ItemsAtSplit
    <3> QED BY <3>1, <1>1
  <2>5. numTargets'[c] = numTargets[c]
                           - Cardinality(ItemsAt(targetItems, removed, c))
                           + Cardinality(ItemsAt(owners, fresh, c))
    BY <1>4
  <2> QED BY <2>1, <2>2, <2>3, <2>4, <2>5
<1>10. TypeOK'
  <2>1. mapping' \in SUBSET (Collector \X Item)
    BY <1>1, <1>2, <1>4 DEF IndInv, TypeOK, Pairs
  <2>2. targetItems' \in [DOMAIN targetItems' -> Collector \cup {Unassigned}]
    BY <1>4, <1>5, <1>7
  <2>3. numTargets' \in [collectors' -> Int]
    BY <1>4, <1>9
  <2> QED BY <1>4, <1>5, <2>1, <2>2, <2>3 DEF IndInv, TypeOK
<1>11. NumTargetsIsServed'
  <2>1. \A c \in Collector : GetTargetsForCollector(c)' = ItemsAt(targetItems', targets, c)
    BY <1>8, <1>10, <1>5, CollectorAssumption
       DEF TypeOK, MappingIsOwnership, GetTargetsForCollector, ItemsAt, Pairs
  <2> QED BY <1>9, <1>4, <2>1 DEF NumTargetsIsServed, IndInv, TypeOK
<1> QED BY <1>1, <1>4, <1>7, <1>8, <1>10, <1>11 DEF IndInv, RingIsCollectors, UnassignedBefore

\* Adding and removing collectors reallocates every item.
LEMMA handleCollectorsPreserves ==
    ASSUME IndInv, NEW new \in SUBSET Collector, new # {},
           handleCollectors(Maps(collectors, new))
    PROVE  IndInv'
<1> DEFINE items   == DOMAIN targetItems
           owners  == Owners(new, items)
           moving  == Reassigned(new)
           gone    == collectors \ new
<1>1. /\ items \in SUBSET Item
      /\ collectors \in SUBSET Collector
      /\ moving \in SUBSET items
  BY DEF IndInv, TypeOK, Reassigned
<1>2. /\ owners \in [items -> Collector]
      /\ \A i \in items : /\ owners[i] = Locate(new, UrlOf[i])
                          /\ owners[i] \in new
                          /\ owners[i] # Unassigned
  BY <1>1, OwnersAreMembers
<1>3. /\ (collectors \ (collectors \ new)) \cup (new \ collectors) = new
      /\ RingAfter(Maps(collectors, new)) = new
  BY DEF RingAfter, Maps, IndInv, RingIsCollectors
<1>4. /\ collectors' = new
      /\ members' = new
      /\ targetItems' = owners
      /\ mapping' = ({p \in mapping : p[1] \notin gone} \ Pairs(targetItems, moving))
                        \cup Pairs(owners, items)
      /\ numTargets' = [c \in new |->
                            (IF c \in new \ collectors THEN 0 ELSE numTargets[c])
                              - Cardinality(ItemsAt(targetItems, moving, c))
                              + Cardinality(ItemsAt(owners, items, c))]
  BY <1>3 DEF handleCollectors, Maps
<1> HIDE DEF items, owners, moving, gone
<1>5. /\ DOMAIN targetItems' = items
      /\ \A i \in items : targetItems'[i] = owners[i]
  BY <1>2, <1>4
<1>6. OwnedByLocate' /\ RingIsCollectors' /\ UnassignedBefore'
  BY <1>2, <1>4, <1>5 DEF OwnedByLocate, RingIsCollectors, UnassignedBefore
<1>7. MappingIsOwnership'
  <2>1. mapping = Pairs(targetItems, {i \in items : targetItems[i] # Unassigned})
    BY DEF IndInv, MappingIsOwnership, items
  <2>2. \A i \in items : \/ targetItems[i] = Unassigned
                         \/ targetItems[i] \in gone
                         \/ i \in moving
    <3>1. CASE collectors = {}
      BY <3>1 DEF IndInv, UnassignedBefore, items
    <3>2. CASE collectors # {}
      <4>1. \A i \in items : targetItems[i] \in collectors
        BY <3>2, <1>1, LocateAssumption, ItemAssumption DEF IndInv, OwnedByLocate, items
      <4> QED BY <4>1 DEF moving, Reassigned, gone, items
    <3> QED BY <3>1, <3>2
  <2>3. {p \in mapping : p[1] \notin gone} \ Pairs(targetItems, moving) = {}
    BY <2>1, <2>2 DEF Pairs
  <2>4. Pairs(targetItems', {i \in DOMAIN targetItems' : targetItems'[i] # Unassigned})
            = Pairs(owners, items)
    BY <1>2, <1>4, <1>5 DEF Pairs
  <2> QED BY <1>4, <2>3, <2>4 DEF MappingIsOwnership
<1>8. \A c \in new :
          /\ numTargets'[c] \in Int
          /\ numTargets'[c] = Cardinality(ItemsAt(owners, items, c))
  <2> SUFFICES ASSUME NEW c \in new
               PROVE  /\ numTargets'[c] \in Int
                      /\ numTargets'[c] = Cardinality(ItemsAt(owners, items, c))
    OBVIOUS
  <2>1. /\ Cardinality(ItemsAt(targetItems, moving, c)) \in Nat
        /\ Cardinality(ItemsAt(owners, items, c)) \in Nat
    <3>1. moving \in SUBSET Item
      BY <1>1
    <3> QED BY <1>1, <3>1, ItemsAtFinite
  <2>2. ItemsAt(targetItems, moving, c) = ItemsAt(targetItems, items, c)
    BY DEF moving, Reassigned, ItemsAt, items
  <2>3. CASE c \in collectors
    <3>1. numTargets[c] = Cardinality(ItemsAt(targetItems, items, c))
      BY <2>3, ServedIsOwned DEF IndInv, NumTargetsIsServed, TypeOK, items
    <3> QED BY <2>1, <2>2, <2>3, <3>1, <1>4
  <2>4. CASE c \notin collectors
    <3>1. ItemsAt(targetItems, items, c) = {}
      <4>1. \A i \in items : targetItems[i] \in collectors \cup {Unassigned}
        BY <1>1, LocateAssumption, ItemAssumption
           DEF IndInv, OwnedByLocate, UnassignedBefore, items
      <4> QED BY <4>1, <2>4, CollectorAssumption DEF ItemsAt
    <3>2. Cardinality(ItemsAt(targetItems, moving, c)) = 0
      BY <2>2, <3>1, FS_EmptySet
    <3> QED BY <2>1, <2>4, <3>2, <1>4
  <2> QED BY <2>3, <2>4
<1>9. TypeOK'
  <2>1. mapping' \in SUBSET (Collector \X Item)
    BY <1>1, <1>2, <1>4 DEF IndInv, TypeOK, Pairs
  <2>2. targetItems' \in [DOMAIN targetItems' -> Collector \cup {Unassigned}]
    BY <1>2, <1>4, <1>5
  <2>3. numTargets' \in [collectors' -> Int]
    BY <1>4, <1>8
  <2> QED BY <1>1, <1>4, <1>5, <2>1, <2>2, <2>3 DEF TypeOK
<1>10. NumTargetsIsServed'
  <2>1. \A c \in Collector : GetTargetsForCollector(c)' = ItemsAt(owners, items, c)
    BY <1>7, <1>9, <1>4, <1>5, CollectorAssumption
       DEF TypeOK, MappingIsOwnership, GetTargetsForCollector, ItemsAt, Pairs
  <2> QED BY <1>8, <1>4, <2>1 DEF NumTargetsIsServed
<1> QED BY <1>6, <1>7, <1>9, <1>10 DEF IndInv

\* Every step of the allocator preserves the inductive invariant.
LEMMA NextPreserves == IndInv /\ [Next]_vars => IndInv'
<1> SUFFICES ASSUME IndInv, [Next]_vars PROVE IndInv'
  OBVIOUS
<1>1. CASE UNCHANGED vars
  BY <1>1 DEF vars, IndInv, TypeOK, RingIsCollectors, UnassignedBefore, OwnedByLocate,
              MappingIsOwnership, NumTargetsIsServed, GetTargetsForCollector, Pairs
<1>2. ASSUME NEW targets \in SUBSET Item, SetTargets(targets) PROVE IndInv'
  BY <1>2, SaveTargetsPreserves, handleTargetsPreserves DEF SetTargets
<1>3. ASSUME NEW new \in SUBSET Collector, SetCollectors(new) PROVE IndInv'
  BY <1>1, <1>3, handleCollectorsPreserves DEF SetCollectors
<1> QED BY <1>1, <1>2, <1>3 DEF Next

\* The allocator's state has the types of its Go fields at all times.
THEOREM TypeCorrect == Spec => []TypeOK
<1>1. IndInv => TypeOK
  BY DEF IndInv
<1> QED BY <1>1, InitEstablishes, NextPreserves, PTL DEF Spec

\* However targets and collectors come and go, each target is owned by the
\* collector the ring answers for it (SetTargets, SetCollectors).
THEOREM AlwaysOwnedByLocate == Spec => []OwnedByLocate
<1>1. IndInv => OwnedByLocate
  BY DEF IndInv
<1> QED BY <1>1, InitEstablishes, NextPreserves, PTL DEF Spec

\* The index that answers HTTP calls always agrees with the items' owners.
THEOREM AlwaysMappingIsOwnership == Spec => []MappingIsOwnership
<1>1. IndInv => MappingIsOwnership
  BY DEF IndInv
<1> QED BY <1>1, InitEstablishes, NextPreserves, PTL DEF Spec

\* The NumTargets counters never drift from what is served.
THEOREM AlwaysNumTargetsIsServed == Spec => []NumTargetsIsServed
<1>1. IndInv => NumTargetsIsServed
  BY DEF IndInv
<1> QED BY <1>1, InitEstablishes, NextPreserves, PTL DEF Spec

-----------------------------------------------------------------------------
\* The allocator implements TargetAssignment.

ServedAssigned == mapping = Assignment!Assign(collectors, DOMAIN targetItems)

\* Under the invariant, what is served is the abstract assignment.
LEMMA ServedIsAssign == IndInv => ServedAssigned
<1> SUFFICES ASSUME IndInv
             PROVE  mapping = Assignment!Assign(collectors, DOMAIN targetItems)
  BY DEF ServedAssigned
<1>1. CASE collectors = {}
  BY <1>1 DEF IndInv, UnassignedBefore, MappingIsOwnership, Pairs, Assignment!Assign
<1>2. CASE collectors # {}
  <2>1. \A i \in DOMAIN targetItems : /\ targetItems[i] = Locate(collectors, UrlOf[i])
                                      /\ targetItems[i] # Unassigned
    BY <1>2, LocateAssumption, ItemAssumption, CollectorAssumption
       DEF IndInv, TypeOK, OwnedByLocate
  <2> QED BY <1>2, <2>1 DEF IndInv, MappingIsOwnership, Pairs, Assignment!Assign
<1> QED BY <1>1, <1>2

\* A SetTargets is an abstract change of the targets.
LEMMA SetTargetsMaps ==
    ASSUME IndInv, IndInv', NEW targets \in SUBSET Item, SetTargets(targets)
    PROVE  Assignment!ChangeTargets(targets)
<1>1. DOMAIN targetItems' = targets /\ collectors' = collectors
  <2>1. CASE collectors = {}
    BY <2>1 DEF SetTargets, SaveTargets, Maps
  <2>2. CASE collectors # {}
    BY <2>2 DEF SetTargets, handleTargets, Maps
  <2> QED BY <2>1, <2>2
<1>2. mapping' = Assignment!Assign(collectors, targets)
  <2>1. ServedAssigned'
    BY ServedIsAssign, PTL
  <2> QED BY <1>1, <2>1 DEF ServedAssigned, Assignment!Assign
<1> QED BY <1>1, <1>2 DEF Assignment!ChangeTargets

\* A SetCollectors that does not return early is an abstract change of the collectors.
LEMMA SetCollectorsMaps ==
    ASSUME IndInv, IndInv', NEW new \in SUBSET Collector, SetCollectors(new)
    PROVE  Assignment!ChangeCollectors(new) \/ UNCHANGED vars
<1> SUFFICES ASSUME new # {}, handleCollectors(Maps(collectors, new))
             PROVE  Assignment!ChangeCollectors(new)
  BY DEF SetCollectors
<1>1. /\ collectors' = new
      /\ DOMAIN targetItems' = DOMAIN targetItems
      /\ new # {}
  BY DEF handleCollectors, Maps, Owners
<1>2. mapping' = Assignment!Assign(new, DOMAIN targetItems)
  <2>1. ServedAssigned'
    BY ServedIsAssign, PTL
  <2> QED BY <1>1, <2>1 DEF ServedAssigned, Assignment!Assign
<1> QED BY <1>1, <1>2 DEF Assignment!ChangeCollectors

\* What the collectors are served depends on the current targets and collectors
\* only: the allocator's bookkeeping implements TargetAssignment.
THEOREM Implementation == Spec => ImplementsAssignment
<1>1. Init => Assignment!Init
  BY DEF Init, Assignment!Init
<1>2. IndInv /\ IndInv' /\ [Next]_vars => [Assignment!Next]_Assignment!vars
  <2> SUFFICES ASSUME IndInv, IndInv', [Next]_vars
               PROVE  [Assignment!Next]_Assignment!vars
    OBVIOUS
  <2>1. CASE UNCHANGED vars
    BY <2>1 DEF vars, Assignment!vars
  <2>2. ASSUME NEW targets \in SUBSET Item, SetTargets(targets)
        PROVE  Assignment!Next
    BY <2>2, SetTargetsMaps DEF Assignment!Next
  <2>3. ASSUME NEW new \in SUBSET Collector, SetCollectors(new)
        PROVE  Assignment!Next \/ UNCHANGED Assignment!vars
    BY <2>1, <2>3, SetCollectorsMaps DEF Assignment!Next, vars, Assignment!vars
  <2> QED BY <2>1, <2>2, <2>3 DEF Next
<1> QED
  BY <1>1, <1>2, InitEstablishes, NextPreserves, PTL
     DEF Spec, ImplementsAssignment, Assignment!Spec

-----------------------------------------------------------------------------
\* The overview of a target, read while the allocator moves it.

\* While a request is open: who serves the item now lies between the two
\* histories, what is shown was served at some time, and a collector that
\* served it all the time is shown or still to be read.
Tracks ==
    open =>
        /\ stayed \subseteq ServedBy(mapping, item)
        /\ ServedBy(mapping, item) \subseteq ever
        /\ shown \subseteq ever
        /\ stayed \subseteq shown \cup todo

ServerInv == IndInv /\ Tracks

\* At any time an item is served by one collector at most, so the sets of
\* collectors that serve it have no two members.
LEMMA ServedByOne ==
    ASSUME IndInv, NEW i, NEW c \in ServedBy(mapping, i), NEW d \in ServedBy(mapping, i)
    PROVE  c = d
BY DEF IndInv, MappingIsOwnership, ServedBy, Pairs

\* Whoever serves an item is a known collector: the copy that Collectors() makes
\* misses nobody.
LEMMA ServedByKnown ==
    ASSUME IndInv, NEW i PROVE ServedBy(mapping, i) \subseteq collectors
<1> SUFFICES ASSUME NEW c \in ServedBy(mapping, i) PROVE c \in collectors
  OBVIOUS
<1>1. i \in DOMAIN targetItems /\ targetItems[i] = c /\ c # Unassigned
  BY DEF IndInv, MappingIsOwnership, ServedBy, Pairs
<1>2. collectors # {}
  BY <1>1 DEF IndInv, UnassignedBefore
<1>3. i \in Item /\ UrlOf[i] \in URL /\ collectors \in SUBSET Collector
  BY <1>1, ItemAssumption DEF IndInv, TypeOK
<1> QED BY <1>1, <1>2, <1>3, LocateAssumption DEF IndInv, OwnedByLocate

\* No request is open at the start.
LEMMA ServerInitEstablishes == ServerInit => ServerInv
BY InitEstablishes DEF ServerInit, ServerInv, Tracks

\* Reading a collector and reallocating targets in between preserve the invariant.
LEMMA ServerNextPreserves == ServerInv /\ [ServerNext]_<<vars, serverVars>> => ServerInv'
<1> SUFFICES ASSUME ServerInv, [ServerNext]_<<vars, serverVars>> PROVE ServerInv'
  OBVIOUS
<1>1. IndInv'
  BY NextPreserves DEF ServerInv, ServerNext, OpenOverview, ReadCollector,
                       AnswerOverview, Reallocate
<1>2. Tracks'
  <2>1. ASSUME NEW i \in Item, OpenOverview(i) PROVE Tracks'
    BY <2>1, ServedByKnown DEF ServerInv, OpenOverview, Tracks, vars, ServedBy
  <2>2. ASSUME NEW c \in Collector, ReadCollector(c) PROVE Tracks'
    <3>1. /\ shown' \subseteq shown \cup ServedBy(mapping, item)
          /\ stayed \cap {c} \subseteq shown'
      BY <2>2 DEF ServerInv, Tracks, ReadCollector, GetTargetsForCollector, ServedBy, IndInv, TypeOK
    <3> QED BY <2>2, <3>1 DEF ServerInv, Tracks, ReadCollector, vars, ServedBy
  <2>3. CASE AnswerOverview
    BY <2>3 DEF AnswerOverview, Tracks
  <2>4. CASE Reallocate
    BY <2>4 DEF ServerInv, Reallocate, Tracks, ServedBy
  <2>5. CASE UNCHANGED <<vars, serverVars>>
    BY <2>5 DEF ServerInv, Tracks, vars, serverVars, ServedBy
  <2> QED BY <2>1, <2>2, <2>3, <2>4, <2>5 DEF ServerNext
<1> QED BY <1>1, <1>2 DEF ServerInv

\* The overview is right about every target that was not reallocated while it was
\* read, for any number of collectors (server.go, GetAllTargetsByJob).
THEOREM OverviewIsRight == ServerSpec => []OverviewMisleadsOnlyIfMoved
<1>1. ServerInv => OverviewMisleadsOnlyIfMoved
  <2> SUFFICES ASSUME ServerInv, open, todo = {}
               PROVE  /\ stayed \subseteq shown
                      /\ shown \subseteq ever
                      /\ ever = stayed => Cardinality(shown) <= 1
    BY DEF OverviewMisleadsOnlyIfMoved
  <2>1. stayed \subseteq shown /\ shown \subseteq ever
    BY DEF ServerInv, Tracks
  <2>2. ASSUME ever = stayed PROVE Cardinality(shown) <= 1
    <3>1. shown = ServedBy(mapping, item)
      BY <2>1, <2>2 DEF ServerInv, Tracks
    <3>2. CASE shown = {}
      BY <3>2, FS_EmptySet
    <3>3. CASE shown # {}
      <4>1. PICK c \in shown : TRUE
        BY <3>3
      <4>2. shown = {c}
        BY <3>1, <4>1, ServedByOne DEF ServerInv
      <4> QED BY <4>2, FS_Singleton
    <3> QED BY <3>2, <3>3
  <2> QED BY <2>1, <2>2
<1> QED BY <1>1, ServerInitEstablishes, ServerNextPreserves, PTL DEF ServerSpec

-----------------------------------------------------------------------------
\* The collector watch.

Relevant(e, p) == e.pod = p /\ e.type # "MODIFIED"

\* The types the proofs use; no event waits unless a watch is open.
ClientOK ==
    /\ DOMAIN pods = Collector
    /\ phase \in {"listing", "connecting", "watching"}
    /\ events \in Seq(Event)
    /\ collectorMap \in SUBSET Collector
    /\ phase # "watching" => events = <<>>

ClientInv == ClientOK /\ LivePodsTracked /\ GoneOnlyIfMissed

\* A set of positions in a sequence that is not empty has a last one.
LEMMA LastPosition ==
    ASSUME NEW N \in Nat, NEW T \in SUBSET (1..N), T # {}
    PROVE  \E x \in T : \A y \in T : y <= x
<1> DEFINE U == {N - n : n \in T}
           R == OpToRel(<, Nat)
<1>1. U \subseteq Nat /\ U # {}
  <2>1. \A n \in T : N - n \in Nat
    OBVIOUS
  <2>2. U \subseteq Nat
    BY <2>1
  <2>3. PICK t \in T : TRUE
    OBVIOUS
  <2>4. N - t \in U
    BY <2>3
  <2> QED BY <2>2, <2>4
<1>2. IsWellFoundedOn(R, Nat)
  BY NatLessThanWellFounded
<1>3. \E u \in U : \A v \in U : ~(<<v, u>> \in R)
  <2> HIDE DEF U, R
  <2> QED BY <1>1, <1>2, WFMin
<1>4. PICK u \in U : \A v \in U : ~(<<v, u>> \in R)
  BY <1>3
<1>5. \A v \in U : ~(v < u)
  BY <1>1, <1>4 DEF OpToRel
<1>6. PICK x \in T : u = N - x
  OBVIOUS
<1>7. ASSUME NEW y \in T PROVE y <= x
  <2>1. ~(N - y < N - x)
    BY <1>5, <1>6
  <2> QED BY <2>1
<1> QED BY <1>7

\* An event that is sent decides about its pod, and about no other.
LEMMA ReplayAppend ==
    ASSUME events \in Seq(Event), NEW e \in Event, events' = Append(events, e),
           collectorMap' = collectorMap, NEW p \in Collector
    PROVE  Replayed(p)' <=> IF Relevant(e, p) THEN e.type = "ADDED" ELSE Replayed(p)
<1> DEFINE about  == {n \in DOMAIN events : events[n].pod = p /\ events[n].type # "MODIFIED"}
           about2 == {n \in DOMAIN events' : events'[n].pod = p /\ events'[n].type # "MODIFIED"}
<1>1. /\ DOMAIN events = 1..Len(events) /\ Len(events) \in Nat
      /\ DOMAIN events' = 1..(Len(events) + 1)
      /\ \A n \in 1..Len(events) : events'[n] = events[n]
      /\ events'[Len(events) + 1] = e
  OBVIOUS
<1>2. about2 = IF Relevant(e, p) THEN about \cup {Len(events) + 1} ELSE about
  BY <1>1 DEF Relevant
<1>3. CASE Relevant(e, p)
  <2>1. about2 # {} /\ Len(events) + 1 \in about2 /\ \A m \in about2 : m <= Len(events) + 1
    BY <1>1, <1>2, <1>3
  <2>2. \A n \in about2 : (\A m \in about2 : m <= n) => n = Len(events) + 1
    BY <1>1, <2>1
  <2> QED BY <1>1, <1>3, <2>1, <2>2 DEF Replayed
<1>4. CASE ~Relevant(e, p)
  <2>1. about2 = about
    BY <1>2, <1>4
  <2>2. \A n \in about : events'[n] = events[n]
    BY <1>1
  <2> QED BY <1>4, <2>1, <2>2 DEF Replayed
<1> QED BY <1>3, <1>4

\* Handling the first event does not change what the events amount to.
LEMMA ReplayTail ==
    ASSUME events \in Seq(Event), events # <<>>, events' = Tail(events),
           collectorMap \in SUBSET Collector,
           collectorMap' = Handled(collectorMap, Head(events)), NEW p \in Collector
    PROVE  Replayed(p)' <=> Replayed(p)
<1> DEFINE about  == {n \in DOMAIN events : events[n].pod = p /\ events[n].type # "MODIFIED"}
           about2 == {n \in DOMAIN events' : events'[n].pod = p /\ events'[n].type # "MODIFIED"}
<1>1. /\ Len(events) \in Nat \ {0}
      /\ DOMAIN events = 1..Len(events)
      /\ DOMAIN events' = 1..(Len(events) - 1)
      /\ \A n \in 1..(Len(events) - 1) : events'[n] = events[n + 1]
      /\ Head(events) = events[1]
      /\ events[1] \in Event
  OBVIOUS
<1>2. \A n \in DOMAIN events' : n \in about2 <=> n + 1 \in about
  BY <1>1
<1>3. CASE about2 # {}
  <2>1. about # {} /\ about2 # {}
    BY <1>1, <1>2, <1>3
  <2>2. ASSUME NEW n \in about2, \A m \in about2 : m <= n, events'[n].type = "ADDED"
        PROVE  n + 1 \in about /\ (\A m \in about : m <= n + 1) /\ events[n + 1].type = "ADDED"
    <3>1. ASSUME NEW m \in about PROVE m <= n + 1
      <4>1. CASE m = 1
        BY <1>1, <4>1
      <4>2. CASE m # 1
        <5>1. m - 1 \in DOMAIN events' /\ (m - 1) + 1 = m
          BY <1>1, <4>2
        <5>2. m - 1 \in about2
          BY <1>2, <5>1
        <5> QED BY <1>1, <2>2, <5>2
      <4> QED BY <4>1, <4>2
    <3> QED BY <1>1, <1>2, <2>2, <3>1
  <2>3. ASSUME NEW k \in about, \A m \in about : m <= k, events[k].type = "ADDED"
        PROVE  k - 1 \in about2 /\ (\A m \in about2 : m <= k - 1) /\ events'[k - 1].type = "ADDED"
    <3>1. k > 1
      BY <1>1, <1>2, <1>3, <2>3
    <3>2. k - 1 \in DOMAIN events' /\ (k - 1) + 1 = k
      BY <1>1, <3>1
    <3>3. ASSUME NEW m \in about2 PROVE m <= k - 1
      BY <1>1, <1>2, <2>3
    <3> QED BY <1>1, <1>2, <2>3, <3>2, <3>3
  <2> QED BY <2>1, <2>2, <2>3 DEF Replayed
<1>4. CASE about2 = {}
  <2>1. about \subseteq {1}
    <3>1. ASSUME NEW m \in about, m # 1 PROVE FALSE
      <4>1. m - 1 \in DOMAIN events' /\ (m - 1) + 1 = m
        BY <1>1, <3>1
      <4> QED BY <1>2, <1>4, <4>1
    <3> QED BY <3>1
  <2>2. Replayed(p)' <=> p \in collectorMap'
    BY <1>4 DEF Replayed
  <2>3. CASE about = {}
    <3>1. events[1].pod # p \/ events[1].type = "MODIFIED"
      BY <1>1, <2>3
    <3>2. p \in collectorMap' <=> p \in collectorMap
      BY <1>1, <3>1 DEF Handled, Event, EventType
    <3> QED BY <2>2, <2>3, <3>2 DEF Replayed
  <2>4. CASE about = {1}
    <3>1. events[1].pod = p /\ events[1].type # "MODIFIED"
      BY <2>4
    <3>2. p \in collectorMap' <=> events[1].type = "ADDED"
      BY <1>1, <3>1 DEF Handled, Event, EventType
    <3>3. Replayed(p) <=> events[1].type = "ADDED"
      BY <2>4 DEF Replayed
    <3> QED BY <2>2, <3>2, <3>3
  <2> QED BY <2>1, <2>3, <2>4
<1> QED BY <1>3, <1>4

-----------------------------------------------------------------------------

\* Before the List there is nothing to track.
LEMMA ClientInit == WatchInit => ClientInv
BY DEF WatchInit, ClientInv, ClientOK, LivePodsTracked, GoneOnlyIfMissed

\* The pods change while a watch is open, or none is.
LEMMA PodsPreserve ==
    ASSUME ClientInv, NEW p \in Collector, CreatePod(p) \/ TerminatePod(p) \/ DeletePod(p)
    PROVE  ClientInv'
<1>1. PICK type \in EventType :
         /\ Send(type, p)
         /\ phase' = phase /\ collectorMap' = collectorMap
         /\ DOMAIN pods' = Collector
         /\ \A q \in Collector : q # p => (q \in Live' <=> q \in Live) /\ (q \in missed' <=> q \in missed)
         /\ type = "ADDED" => p \in Live'
         /\ type = "MODIFIED" => p \in Live /\ p \in Live'
         /\ type = "DELETED" => p \notin Live' /\ (phase # "watching" => p \in missed')
  <2>1. CASE CreatePod(p)
    BY <2>1 DEF CreatePod, ClientInv, ClientOK, Live, EventType
  <2>2. CASE TerminatePod(p)
    BY <2>2 DEF TerminatePod, ClientInv, ClientOK, Live, EventType
  <2>3. CASE DeletePod(p)
    BY <2>3 DEF DeletePod, ClientInv, ClientOK, Live, EventType
  <2> QED BY <2>1, <2>2, <2>3
<1>2. CASE phase = "watching"
  <2> DEFINE e == [type |-> type, pod |-> p]
  <2>1. events' = Append(events, e) /\ e \in Event /\ events \in Seq(Event)
    BY <1>1, <1>2 DEF Send, Event, ClientInv, ClientOK
  <2>2. \A q \in Collector : Replayed(q)' <=> IF Relevant(e, q) THEN e.type = "ADDED" ELSE Replayed(q)
    BY <1>1, <2>1, ReplayAppend
  <2>3. \A q \in Collector : Relevant(e, q) <=> q = p /\ type # "MODIFIED"
    BY DEF Relevant
  <2>4. ClientOK'
    BY <1>1, <1>2, <2>1 DEF ClientInv, ClientOK
  <2>5. LivePodsTracked'
    <3>1. ASSUME NEW q \in Live' PROVE Replayed(q)'
      BY <1>1, <1>2, <2>2, <2>3 DEF ClientInv, LivePodsTracked, Live, EventType
    <3> QED BY <3>1 DEF LivePodsTracked
  <2>6. GoneOnlyIfMissed'
    <3>1. ASSUME NEW q \in Collector, q \notin Live', Replayed(q)' PROVE q \in missed'
      BY <1>1, <1>2, <2>2, <2>3, <3>1 DEF ClientInv, GoneOnlyIfMissed, EventType
    <3> QED BY <3>1 DEF GoneOnlyIfMissed
  <2> QED BY <2>4, <2>5, <2>6 DEF ClientInv
<1>3. CASE phase # "watching"
  <2>1. events' = events
    BY <1>1, <1>3 DEF Send
  <2>2. \A q \in Collector : Replayed(q)' <=> Replayed(q)
    BY <1>1, <2>1 DEF Replayed
  <2>3. GoneOnlyIfMissed'
    <3>1. ASSUME phase' # "listing", NEW q \in Collector, q \notin Live', Replayed(q)' PROVE q \in missed'
      BY <1>1, <1>3, <2>2, <3>1 DEF ClientInv, GoneOnlyIfMissed, EventType
    <3> QED BY <3>1 DEF GoneOnlyIfMissed
  <2> QED BY <1>1, <1>3, <2>1, <2>3 DEF ClientInv, ClientOK, LivePodsTracked
<1> QED BY <1>2, <1>3

\* A new watch announces every pod there is.
LEMMA OpenWatchPreserves == ASSUME ClientInv, OpenWatch PROVE ClientInv'
<1>1. /\ pods' = pods /\ collectorMap' = collectorMap /\ missed' = missed
      /\ phase = "connecting" /\ phase' = "watching" /\ events = <<>>
  BY DEF OpenWatch, ClientInv, ClientOK
<1>2. IsFiniteSet(Live)
  BY CollectorAssumption, FS_Subset DEF Live
<1> DEFINE N == Cardinality(Live)
<1>3. N \in Nat
  BY <1>2, FS_CardinalityType
<1> HIDE DEF N
<1>3b. PICK order \in [1..N -> Live] :
         /\ \A p \in Live : \E n \in 1..N : order[n] = p
         /\ events' = [n \in 1..N |-> [type |-> "ADDED", pod |-> order[n]]]
  BY DEF OpenWatch, N
<1>4. events' \in Seq(Event)
  BY <1>3, <1>3b DEF Event, EventType, Live
<1>5. ClientOK'
  BY <1>1, <1>4 DEF ClientInv, ClientOK
<1>6. ASSUME NEW p \in Live PROVE Replayed(p)'
  <2> DEFINE about == {n \in DOMAIN events' : events'[n].pod = p /\ events'[n].type # "MODIFIED"}
  <2>1. about \subseteq 1..N /\ about # {} /\ \A n \in about : events'[n].type = "ADDED"
    BY <1>3, <1>3b
  <2>2. PICK x \in about : \A y \in about : y <= x
    <3> HIDE DEF about
    <3> QED BY <1>3, <2>1, LastPosition
  <2> QED BY <2>1, <2>2 DEF Replayed
<1>7. ASSUME NEW p \in Collector \ Live, Replayed(p)' PROVE Replayed(p)
  <2>1. \A n \in DOMAIN events' : events'[n].pod # p
    BY <1>3, <1>3b
  <2>2. p \in collectorMap
    BY <1>1, <1>7, <2>1 DEF Replayed
  <2> QED BY <1>1, <2>2 DEF Replayed
<1>8. Live' = Live
  BY <1>1 DEF Live
<1> QED BY <1>1, <1>5, <1>6, <1>7, <1>8 DEF ClientInv, LivePodsTracked, GoneOnlyIfMissed

\* The end of a watch drops what was sent: a pod whose deletion was among it is
\* remembered as missed.
LEMMA EndWatchPreserves == ASSUME ClientInv, EndWatch PROVE ClientInv'
<1>1. /\ phase' = "connecting" /\ phase = "watching" /\ events' = <<>>
      /\ pods' = pods /\ collectorMap' = collectorMap /\ missed \subseteq missed'
      /\ Live' = Live
  BY DEF EndWatch, Live
<1>2. ASSUME NEW p \in Collector \ Live, p \in collectorMap PROVE p \in missed'
  <2> DEFINE about == {n \in DOMAIN events : events[n].pod = p /\ events[n].type # "MODIFIED"}
  <2>1. CASE Replayed(p)
    BY <1>1, <2>1 DEF ClientInv, GoneOnlyIfMissed
  <2>2. CASE ~Replayed(p)
    <3>1. about # {}
      BY <1>2, <2>2 DEF Replayed
    <3>2. Len(events) \in Nat /\ about \subseteq 1..Len(events)
      BY DEF ClientInv, ClientOK
    <3>3. PICK x \in about : \A y \in about : y <= x
      <4> HIDE DEF about
      <4> QED BY <3>1, <3>2, LastPosition
    <3>4. events[x].type # "ADDED"
      BY <2>2, <3>1, <3>3 DEF Replayed
    <3>5. events[x] \in Event
      BY <3>2 DEF ClientInv, ClientOK
    <3>6. events[x] = [type |-> "DELETED", pod |-> p]
      BY <3>4, <3>5 DEF Event, EventType
    <3> QED BY <3>6 DEF EndWatch
  <2> QED BY <2>1, <2>2
<1>3. \A p \in Collector : Replayed(p)' <=> p \in collectorMap
  BY <1>1 DEF Replayed
<1> QED BY <1>1, <1>2, <1>3 DEF ClientInv, ClientOK, LivePodsTracked, GoneOnlyIfMissed

\* An event moves from the watch to collectorMap.
LEMMA HandleEventPreserves == ASSUME ClientInv, HandleEvent PROVE ClientInv'
<1>1. /\ phase = "watching" /\ phase' = phase /\ pods' = pods /\ missed' = missed
      /\ events # <<>> /\ events' = Tail(events) /\ events \in Seq(Event)
      /\ collectorMap' = Handled(collectorMap, Head(events))
      /\ collectorMap \in SUBSET Collector
      /\ Live' = Live
  BY DEF HandleEvent, Live, ClientInv, ClientOK
<1>2. \A p \in Collector : Replayed(p)' <=> Replayed(p)
  BY <1>1, ReplayTail
<1>3. Head(events) \in Event /\ Tail(events) \in Seq(Event)
  BY <1>1
<1>4. collectorMap' \in SUBSET Collector
  BY <1>1, <1>3 DEF Handled, Event, EventType
<1>5. ClientOK'
  BY <1>1, <1>3, <1>4 DEF ClientInv, ClientOK
<1> QED BY <1>1, <1>2, <1>5 DEF ClientInv, LivePodsTracked, GoneOnlyIfMissed, Live

\* Every step of pods, watch and process preserves the invariant.
LEMMA ClientNext == ClientInv /\ [WatchNext]_watchVars => ClientInv'
<1> SUFFICES ASSUME ClientInv, [WatchNext]_watchVars PROVE ClientInv'
  OBVIOUS
<1>1. CASE List
  <2>1. /\ events' = <<>> /\ phase' = "connecting" /\ pods' = pods /\ DOMAIN pods = Collector
        /\ collectorMap' = {p \in Collector : pods[p] = "running"}
    BY <1>1 DEF List, ClientInv, ClientOK
  <2>2. \A p \in Collector : Replayed(p)' => p \in Live'
    BY <2>1 DEF Replayed, Live
  <2> QED BY <2>1, <2>2 DEF ClientInv, ClientOK, LivePodsTracked, GoneOnlyIfMissed
<1>2. CASE Exit
  <2>1. events' = <<>> /\ phase' = "listing" /\ pods' = pods /\ collectorMap' = {}
    BY <1>2 DEF Exit, ClientInv, ClientOK
  <2> QED BY <2>1 DEF ClientInv, ClientOK, LivePodsTracked, GoneOnlyIfMissed
<1>3. CASE UNCHANGED <<pods, clientVars, missed>>
  BY <1>3 DEF clientVars, ClientInv, ClientOK, LivePodsTracked, GoneOnlyIfMissed, Live, Replayed
<1>4. ASSUME NEW targets \in SUBSET Item, Discover(targets) PROVE ClientInv'
  BY <1>3, <1>4 DEF Discover
<1>5. CASE UNCHANGED watchVars
  BY <1>3, <1>5 DEF watchVars
<1> QED
  BY <1>1, <1>2, <1>4, <1>5, PodsPreserve, OpenWatchPreserves, EndWatchPreserves,
     HandleEventPreserves DEF WatchNext

\* However many watches end and lose events, every pod that exists is in collectorMap
\* or announced on the watch that is open (collector.go, Watch and restartWatch).
THEOREM AlwaysLivePodsTracked == WatchSpec => []LivePodsTracked
<1>1. ClientInv => LivePodsTracked
  BY DEF ClientInv
<1> QED BY <1>1, ClientInit, ClientNext, PTL DEF WatchSpec

\* A pod that is gone stays a collector only if its deletion fell between two watches
\* or was dropped with the end of one (collector.go, runWatch).
THEOREM AlwaysGoneOnlyIfMissed == WatchSpec => []GoneOnlyIfMissed
<1>1. ClientInv => GoneOnlyIfMissed
  BY DEF ClientInv
<1> QED BY <1>1, ClientInit, ClientNext, PTL DEF WatchSpec

-----------------------------------------------------------------------------
\* The allocator in the composition.

\* A call of SetCollectors leaves the allocator with the collectors it was given,
\* unless it was given none.
LEMMA SetCollectorsSets ==
    ASSUME NEW new, SetCollectors(new) PROVE collectors' = new \/ new = {}
BY DEF SetCollectors, handleCollectors, Maps, vars

ComposedInv == IndInv /\ collectorMap \in SUBSET Collector /\ AllocatorFollowsMap

\* The process starts with an empty allocator.
LEMMA ComposedInit == WatchInit => ComposedInv
BY InitEstablishes DEF WatchInit, ComposedInv, AllocatorFollowsMap

\* The allocator's invariant survives the watch's calls, the discoverer's and a restart.
LEMMA ComposedNext ==
    ClientInv /\ ClientInv' /\ ComposedInv /\ [WatchNext]_watchVars => ComposedInv'
<1> SUFFICES ASSUME ClientInv, ClientInv', ComposedInv, [WatchNext]_watchVars
             PROVE  ComposedInv'
  OBVIOUS
<1>1. collectorMap' \in SUBSET Collector
  BY DEF ClientInv, ClientOK
<1>2. CASE SetCollectors(collectorMap')
  BY <1>1, <1>2, SetCollectorsSets, NextPreserves DEF Next, ComposedInv, AllocatorFollowsMap
<1>3. CASE UNCHANGED vars /\ phase' # "listing" /\ phase # "listing" /\ UNCHANGED collectorMap
  BY <1>1, <1>3, NextPreserves DEF vars, ComposedInv, AllocatorFollowsMap
<1>4. ASSUME NEW p \in Collector, CreatePod(p) \/ TerminatePod(p) \/ DeletePod(p)
      PROVE  ComposedInv'
  BY <1>1, <1>4, NextPreserves DEF CreatePod, TerminatePod, DeletePod, vars, ComposedInv, AllocatorFollowsMap
<1>5. CASE List \/ HandleEvent
  BY <1>2, <1>5 DEF List, HandleEvent
<1>6. CASE OpenWatch \/ EndWatch
  BY <1>3, <1>6 DEF OpenWatch, EndWatch
<1>7. CASE Exit
  <2>1. Init'
    BY <1>7 DEF Exit, Init
  <2>2. IndInv'
    BY <2>1, InitEstablishes, PTL
  <2> QED BY <1>1, <1>7, <2>2 DEF Exit, ComposedInv, AllocatorFollowsMap
<1>8. ASSUME NEW targets \in SUBSET Item, Discover(targets) PROVE ComposedInv'
  <2>1. Next
    BY <1>8 DEF Discover, Next
  <2>2. IndInv'
    BY <2>1, NextPreserves DEF ComposedInv
  <2>3. collectors' = collectors
    BY <1>8 DEF Discover, SetTargets, SaveTargets, handleTargets
  <2> QED BY <1>1, <1>8, <2>2, <2>3 DEF Discover, clientVars, ComposedInv, AllocatorFollowsMap
<1>9. CASE UNCHANGED watchVars
  BY <1>1, <1>9, NextPreserves DEF watchVars, clientVars, vars, ComposedInv, AllocatorFollowsMap
<1> QED BY <1>4, <1>5, <1>6, <1>7, <1>8, <1>9 DEF WatchNext

\* The allocator works with exactly the pods in collectorMap, across restarts of the
\* process too, except that an empty map never reaches it (consistent_hashing.go,
\* SetCollectors).
THEOREM AlwaysAllocatorFollowsMap == WatchSpec => []AllocatorFollowsMap
<1>1. ComposedInv => AllocatorFollowsMap
  BY DEF ComposedInv
<1> QED
  BY <1>1, ClientInit, ClientNext, ComposedInit, ComposedNext, PTL DEF WatchSpec

-----------------------------------------------------------------------------
\* Types.

PodsOK ==
    /\ pods \in [Collector -> {"absent", "running", "terminating"}]
    /\ missed \in SUBSET Collector

\* No pod exists at first, and none was missed.
LEMMA PodsInit == WatchInit => PodsOK
BY DEF WatchInit, PodsOK

\* Whatever happens to the pods and the watches, only pods are missed.
LEMMA PodsNext == PodsOK /\ ClientOK /\ [WatchNext]_watchVars => PodsOK'
<1> SUFFICES ASSUME PodsOK, ClientOK, [WatchNext]_watchVars PROVE PodsOK'
  OBVIOUS
<1> USE DEF PodsOK
<1>1. ASSUME NEW p \in Collector, CreatePod(p) \/ TerminatePod(p) \/ DeletePod(p) PROVE PodsOK'
  BY <1>1 DEF CreatePod, TerminatePod, DeletePod
<1>2. CASE List
  BY <1>2 DEF List
<1>3. CASE OpenWatch
  BY <1>3 DEF OpenWatch
<1>4. CASE EndWatch
  BY <1>4 DEF EndWatch, ClientOK
<1>5. CASE HandleEvent
  BY <1>5 DEF HandleEvent
<1>6. CASE Exit
  BY <1>6 DEF Exit
<1>7. ASSUME NEW targets \in SUBSET Item, Discover(targets) PROVE PodsOK'
  BY <1>7 DEF Discover, clientVars
<1>8. CASE UNCHANGED watchVars
  BY <1>8 DEF watchVars, clientVars
<1> QED BY <1>1, <1>2, <1>3, <1>4, <1>5, <1>6, <1>7, <1>8 DEF WatchNext

\* Watch and allocator keep their types in the composition, across timeouts and restarts.
THEOREM WatchTypeCorrect == WatchSpec => []WatchTypeOK
<1>1. ClientInv /\ ComposedInv /\ PodsOK => WatchTypeOK
  BY DEF ClientInv, ClientOK, ComposedInv, IndInv, PodsOK, WatchTypeOK
<1>2. ClientInv => ClientOK
  BY DEF ClientInv
<1> QED
  BY <1>1, <1>2, ClientInit, ClientNext, ComposedInit, ComposedNext, PodsInit, PodsNext, PTL
     DEF WatchSpec
=============================================================================
