---------------------------- MODULE MCAllocator ----------------------------
(***************************************************************************)
(* The allocator and its server with four collectors, and three items two  *)
(* of which share a URL, as the same address scraped by two jobs does.     *)
(***************************************************************************)
EXTENDS TargetServer, Sequences

CONSTANTS c1, c2, c3, c4, i1, i2, i3, u1, u2

MCCollector == {c1, c2, c3, c4}

MCItem == {i1, i2, i3}

MCURL == {u1, u2}

MCUrlOf == [i \in MCItem |-> IF i = i1 THEN u1 ELSE u2]

\* A preference list per URL, read from the other end when the number of members
\* is odd: the ring's load bound makes an owner depend on the number of members,
\* so a new collector may also move targets between old ones.
Preference(url) ==
    IF url = u1 THEN <<c1, c2, c3, c4>> ELSE <<c3, c1, c4, c2>>

MCLocate(ring, url) ==
    LET order == Preference(url)
        at    == {n \in DOMAIN order : order[n] \in ring}
    IN  order[IF Cardinality(ring) % 2 = 0
              THEN CHOOSE n \in at : \A m \in at : n <= m
              ELSE CHOOSE n \in at : \A m \in at : n >= m]
=============================================================================
