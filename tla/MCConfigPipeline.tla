-------------------------- MODULE MCConfigPipeline --------------------------
(***************************************************************************)
(* The configuration pipeline with three changes of the file and two of    *)
(* the custom resources, among them configurations that do not load, are   *)
(* empty or cannot be marshalled.  Custom resources that cannot be         *)
(* marshalled may be merged before the initial configuration is applied,   *)
(* which ends the process.                                                 *)
(***************************************************************************)
EXTENDS ConfigPipeline

MCMaxVersion == [file |-> 3, cr |-> 2]

MCKind ==
    [file |-> [v \in 0..3 |-> CASE v = 1 -> "nomarshal" [] v = 3 -> "nil" [] OTHER -> "good"],
     cr   |-> [v \in 0..2 |-> CASE v = 0 -> "nomarshal" [] v = 1 -> "noload" [] OTHER -> "good"]]
=============================================================================
