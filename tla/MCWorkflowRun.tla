--------------------------- MODULE MCWorkflowRun ---------------------------
(***************************************************************************)
(* Workflow shapes for the runs of WorkflowRun.                            *)
(***************************************************************************)
EXTENDS WorkflowRun

Success(next) == [kind |-> "success", next |-> next]
Failure == [kind |-> "failure", next |-> {}]
Throw == [kind |-> "throw", next |-> {}]
Limited == [kind |-> "limited", next |-> {}]

\* a -> b, c -> d: a may select either branch or both, b may fail, c may throw or ask
\* to be run again.
DiamondNodes == {"a", "b", "c", "d"}
DiamondInputs == [n \in DiamondNodes |->
    CASE n = "a" -> {} [] n \in {"b", "c"} -> {"a"} [] n = "d" -> {"b", "c"}]
DiamondOutputs == [n \in DiamondNodes |->
    CASE n = "a" -> <<"b", "c">> [] n \in {"b", "c"} -> <<"d">> [] n = "d" -> <<>>]
DiamondBehaviour == [n \in DiamondNodes |->
    CASE n = "a" -> {Success({"b", "c"}), Success({"b"}), Success({"c"})}
      [] n = "b" -> {Success({"d"}), Failure, Throw}
      [] n = "c" -> {Success({"d"}), Throw, Limited}
      [] n = "d" -> {Success({})}]
DiamondReliable == [n \in DiamondNodes |->
    {answer \in DiamondBehaviour[n] : answer.kind = "success"}]

\* The runs of this module are about a workflow that has an end.
ASSUME DiamondIsValid == WorkflowIsValid

=============================================================================
