--------------------------- MODULE ExecutionStore ---------------------------
(***************************************************************************)
(* What both execution state stores, InMemoryExecutionStore and            *)
(* DrizzleExecutionStateStore, keep for one execution: a status and the    *)
(* result of every node that has one.  The stores differ in one thing the  *)
(* engine can see: Drizzle updates the status only while it is 'running',  *)
(* the in-memory store updates it always.  "guarded" selects Drizzle.      *)
(***************************************************************************)
EXTENDS Integers, FiniteSets

Statuses == {"running", "paused", "completed", "failed", "cancelled"}
Terminal == {"completed", "failed", "cancelled"}

\* The part of an ExecutionResult that control depends on.  "success" and
\* "failed" are the flag result.success, "skipped" is result.skipped, "none" is
\* the absence of a result.
ResultKinds == {"none", "success", "failed", "skipped"}

\* result.success || result.skipped: the test of the idempotency check and of
\* the readiness check on parents.
Resolved(result) == result \in {"success", "skipped"}

SetExecutionStatus(guarded, current, new) ==
    IF guarded /\ current # "running" THEN current ELSE new

\* A failed result counts as done: the stores count entries, not successes.
PendingNodeCount(results) ==
    Cardinality(DOMAIN results)
        - Cardinality({n \in DOMAIN results : results[n] # "none"})

=============================================================================
