----------------------------- MODULE Execution -----------------------------
(***************************************************************************)
(* What an execution promises to whoever reads it from the store: results  *)
(* of nodes appear one at a time and are never withdrawn, the execution is *)
(* 'completed' only once every node has one, it is 'failed' only after     *)
(* some node has one, and its status moves by the rule of the store.       *)
(* WorkflowRun and WorkflowControl implement it.                           *)
(***************************************************************************)
EXTENDS ExecutionStore

CONSTANTS Nodes, Guarded

VARIABLES status, results

Init ==
    /\ status = "running"
    /\ results = [n \in Nodes |-> "none"]

Record(n, result) ==
    /\ results' = [results EXCEPT ![n] = result]
    /\ UNCHANGED status

SetStatus(new) ==
    /\ status' = SetExecutionStatus(Guarded, status, new)
    /\ UNCHANGED results

Complete ==
    /\ \A n \in Nodes : results[n] # "none"
    /\ SetStatus("completed")

Fail ==
    /\ \E n \in Nodes : results[n] # "none"
    /\ SetStatus("failed")

\* cancelWorkflow, pauseWorkflow, resumeWorkflow
Request == \E new \in {"cancelled", "paused", "running"} : SetStatus(new)

Next ==
    \/ \E n \in Nodes, result \in ResultKinds \ {"none"} : Record(n, result)
    \/ Complete
    \/ Fail
    \/ Request

Spec == Init /\ [][Next]_<<status, results>>

=============================================================================
