--------------------------- MODULE MCSubWorkflow ---------------------------
(***************************************************************************)
(* A child workflow for the run of SubWorkflow.                           *)
(***************************************************************************)
EXTENDS SubWorkflow

Success(next) == [kind |-> "success", next |-> next]
Failure == [kind |-> "failure", next |-> {}]
Throw == [kind |-> "throw", next |-> {}]

\* a, b -> c: b may throw, c may fail.
VNodes == {"a", "b", "c"}
VInputs == [n \in VNodes |-> IF n = "c" THEN {"a", "b"} ELSE {}]
VOutputs == [n \in VNodes |-> IF n = "c" THEN <<>> ELSE <<"c">>]
VBehaviour == [n \in VNodes |->
    CASE n = "a" -> {Success({"c"})}
      [] n = "b" -> {Success({"c"}), Throw}
      [] n = "c" -> {Success({}), Failure}]

ASSUME ChildIsWhole == FlowIsWhole

=============================================================================
