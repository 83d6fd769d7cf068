------------------------- MODULE MCExporterLifecycle -------------------------
(***************************************************************************)
(* Two exporters of one kind, two of one name and one named as the agent;  *)
(* specs that change labels, arguments, ports and configuration; agents    *)
(* with the metrics on, off, by default and unreadable.                    *)
(***************************************************************************)
EXTENDS ExporterLifecycle

MCExporters == {<<"dcgm", "exp">>, <<"dcgm", "agent">>, <<"neuron", "exp">>}

Spec1 == [image |-> "1", ports |-> <<>>, config |-> "c1", tls |-> Nil, args |-> {1, 2}, account |-> ""]

MCSpecs ==
    {Spec1,
     [Spec1 EXCEPT !.image = "", !.ports = <<[name |-> "web", port |-> 9500]>>, !.config = "c2",
                   !.tls = "t", !.args = {1}, !.account = "sa"]}

Agent1 ==
    [parse |-> "ok", enhanced |-> TRUE, mentioned |-> FALSE, accelerated |-> FALSE,
     managed |-> TRUE, daemonset |-> TRUE]

MCAgents ==
    {Nil, Agent1, [Agent1 EXCEPT !.mentioned = TRUE, !.accelerated = TRUE, !.daemonset = FALSE],
     [Agent1 EXCEPT !.mentioned = TRUE, !.managed = FALSE], [Agent1 EXCEPT !.parse = "null"]}
=============================================================================
