------------------------- MODULE MCDistributedLock -------------------------
(***************************************************************************)
(* Three callers for the runs of DistributedLock, two of them in one       *)
(* process.                                                                *)
(***************************************************************************)
EXTENDS DistributedLock

CONSTANTS c1, c2, c3, p1, p2

VHome == [c \in {c1, c2, c3} |-> IF c = c3 THEN p2 ELSE p1]

=============================================================================
