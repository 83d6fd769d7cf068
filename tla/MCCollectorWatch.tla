-------------------------- MODULE MCCollectorWatch --------------------------
(***************************************************************************)
(* The collector watcher with three pod names and one target.              *)
(***************************************************************************)
EXTENDS CollectorWatch

CONSTANTS c1, c2, c3, i1, u1

MCCollector == {c1, c2, c3}

MCItem == {i1}

MCURL == {u1}

MCUrlOf == [i \in MCItem |-> u1]

\* c3 first, then c1, then c2.
MCLocate(ring, url) ==
    IF c3 \in ring THEN c3 ELSE IF c1 \in ring THEN c1 ELSE c2
=============================================================================
