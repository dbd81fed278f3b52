-------------------------- MODULE MCWorkflowControl --------------------------
(***************************************************************************)
(* Workflow shapes and callers for the runs of WorkflowControl.            *)
(***************************************************************************)
EXTENDS WorkflowControl

Success(next) == [kind |-> "success", next |-> next]
Throw == [kind |-> "throw", next |-> {}]
Limited == [kind |-> "limited", next |-> {}]

\* a -> b, c, where b and c are delay nodes and a may throw, also RateLimitError.
ForkNodes == {"a", "b", "c"}
ForkInputs == [n \in ForkNodes |-> IF n = "a" THEN {} ELSE {"a"}]
ForkOutputs == [n \in ForkNodes |-> IF n = "a" THEN <<"b", "c">> ELSE <<>>]
ForkBehaviour == [n \in ForkNodes |->
    IF n = "a" THEN {Success({"b", "c"}), Throw, Limited} ELSE {}]

ASSUME ForkIsUnconditional == NobodyBranches

=============================================================================
