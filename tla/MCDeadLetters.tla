--------------------------- MODULE MCDeadLetters ---------------------------
(***************************************************************************)
(* The workflow of the run of DeadLetters: a -> b, where a may throw and b *)
(* is a delay node.                                                        *)
(***************************************************************************)
EXTENDS DeadLetters

Success(next) == [kind |-> "success", next |-> next]
Throw == [kind |-> "throw", next |-> {}]

PairNodes == {"a", "b"}
PairInputs == [n \in PairNodes |-> IF n = "a" THEN {} ELSE {"a"}]
PairOutputs == [n \in PairNodes |-> IF n = "a" THEN <<"b">> ELSE <<>>]
PairBehaviour == [n \in PairNodes |->
    IF n = "a" THEN {Success({"b"}), Throw} ELSE {}]

\* The run of this module is about a workflow that has an end.
ASSUME PairIsValid == WorkflowIsValid

=============================================================================
