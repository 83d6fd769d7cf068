---------------------------- MODULE MCAutoMonitor ----------------------------
(***************************************************************************)
(* One workload with two labels and one service in its namespace, which    *)
(* may select it by both labels, by one of them or not at all.             *)
(***************************************************************************)
EXTENDS AutoMonitor

CONSTANTS w1, s1, ns, app, tier, java, note

MCWorkload == {w1}

MCService == {s1}

MCNamespace == {ns}

MCLabel == {app, tier}

MCLanguage == {java}

MCUserKey == {note}

MCNamespaceOf == [x \in {w1, s1} |-> ns]

MCLabelsOf == [w \in {w1} |-> {app, tier}]

NoLanguages == [w \in {w1} |-> {}]
=============================================================================
