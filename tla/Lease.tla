------------------------------- MODULE Lease -------------------------------
(***************************************************************************)
(* What a lock with a lifetime promises its callers: one holder at a time, *)
(* who alone can ask for more time or give it up, and who loses it when    *)
(* its time is over.  How and when callers ask is their own affair.        *)
(* DistributedLock implements it.                                          *)
(***************************************************************************)
EXTENDS Integers

CONSTANTS Calls, Free

VARIABLES
    holder,  \* the caller that holds the lease, or Free
    left,    \* the time it has left
    at,      \* where a caller is: "idle", "working" or "release"
    asked    \* how often a caller has asked for more time

Init == holder = Free /\ left = 0

Grant(c) ==
    /\ holder = Free /\ holder' = c
    /\ left' \in Nat \ {0}
    /\ at[c] = "idle" /\ at'[c] = "working"

Prolong(c) ==
    /\ holder = c /\ holder' = c
    /\ left' \in Nat \ {0}
    /\ asked'[c] = asked[c] + 1

GiveUp(c) ==
    /\ holder = c /\ holder' = Free
    /\ left' = 0
    /\ at[c] = "release" /\ at'[c] = "idle"

TimePasses ==
    /\ left' = IF left > 0 THEN left - 1 ELSE 0
    /\ holder' = IF left > 1 THEN holder ELSE Free
    /\ UNCHANGED <<at, asked>>

\* Callers come, go, crash and ask for what they do not have.
Otherwise == UNCHANGED <<holder, left>>

Next ==
    \/ \E c \in Calls : Grant(c) \/ Prolong(c) \/ GiveUp(c)
    \/ TimePasses
    \/ Otherwise

Spec == Init /\ [][Next]_<<holder, left, at, asked>>

=============================================================================
