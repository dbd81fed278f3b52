------------------------- MODULE MCWorkflowRegistry -------------------------
(***************************************************************************)
(* Calls and definitions for the run of WorkflowRegistry: two calls in one *)
(* process and one in another, two definitions with different schedules    *)
(* and one without.                                                        *)
(***************************************************************************)
EXTENDS WorkflowRegistry

CONSTANTS c1, c2, c3, p1, p2, d1, d2, d3, hourly, daily

VHome == [c \in Calls |-> IF c = c3 THEN p2 ELSE p1]
VCron == [d \in Definitions |->
    CASE d = d1 -> hourly [] d = d2 -> daily [] d = d3 -> None]

=============================================================================
