----------------------- MODULE DistributedLockProofs -----------------------
(***************************************************************************)
(* Proofs about DistributedLock, for any callers, processes, TTL and       *)
(* limits that satisfy LockAssumption.                                     *)
(***************************************************************************)
EXTENDS DistributedLock, TLAPS

LEMMA InitType == Init => TypeOK
BY LockAssumption DEF Init, TypeOK

\* Every step keeps the types; only Release and Advance free the entry.
LEMMA TypeStep == TypeOK /\ [Next]_vars => TypeOK'
<1> SUFFICES ASSUME TypeOK, [Next]_vars PROVE TypeOK'
    OBVIOUS
<1> USE LockAssumption DEF TypeOK
<1>1. ASSUME NEW c \in Calls, Acquire(c) PROVE TypeOK'
    <2>1. ttl' > 0 /\ holder' = c /\ ttl' \in Nat
        BY <1>1 DEF Acquire
    <2>2. /\ renewing' \subseteq AutoRenew
          /\ pc' \in [Calls -> {"idle", "working", "release"}]
          /\ next' \in [Calls -> Nat]
          /\ registered' \in [Processes -> Calls \cup {Free}]
        BY <1>1 DEF Acquire, Goto, timers
    <2>3. \A d \in renewing' : pc'[d] = "working"
        BY <1>1 DEF Acquire, Goto, timers
    <2> QED BY <1>1, <2>1, <2>2, <2>3 DEF Acquire
<1>2. ASSUME NEW c \in Calls, FireTimer(c) PROVE TypeOK'
    BY <1>2 DEF FireTimer, entry
<1>3. ASSUME NEW c \in Calls, Extend(c) PROVE TypeOK'
    <2>1. /\ sent' \in [Calls -> Nat] /\ renewals' \in [Calls -> Nat]
          /\ ttl' \in Nat /\ renewing' \subseteq renewing
        BY <1>3 DEF Extend
    <2>2. holder' = Free <=> ttl' = 0
        BY <1>3 DEF Extend
    <2> QED BY <1>3, <2>1, <2>2 DEF Extend
<1>4. ASSUME NEW c \in Calls, NEW t \in RenewTTLs, Renew(c, t) PROVE TypeOK'
    <2>1. ttl' \in Nat /\ (holder' = Free <=> ttl' = 0)
        BY <1>4 DEF Renew
    <2> QED BY <1>4, <2>1 DEF Renew, timers
<1>5. ASSUME NEW c \in Calls, Return(c) PROVE TypeOK'
    <2>1. /\ pc' \in [Calls -> {"idle", "working", "release"}]
          /\ renewing' \subseteq renewing
          /\ next' \in [Calls -> Nat]
          /\ registered' \in [Processes -> Calls \cup {Free}]
        BY <1>5 DEF Return, Goto, timers
    <2>2. \A d \in renewing' : d # c /\ pc'[d] = "working"
        BY <1>5 DEF Return, Goto, timers
    <2> QED BY <1>5, <2>1, <2>2 DEF Return, entry
<1>6. ASSUME NEW c \in Calls, Release(c) PROVE TypeOK'
    <2>1. /\ pc' \in [Calls -> {"idle", "working", "release"}]
          /\ renewals' \in [Calls -> Nat]
        BY <1>6 DEF Release, Goto
    <2>2. /\ holder' \in Calls \cup {Free} /\ ttl' \in Nat
          /\ holder' = Free <=> ttl' = 0
        BY <1>6 DEF Release, entry
    <2>3. \A d \in renewing' : pc'[d] = "working"
        BY <1>6 DEF Release, Goto, timers
    <2> QED BY <1>6, <2>1, <2>2, <2>3 DEF Release, timers
<1>7. ASSUME NEW p \in Processes, Shutdown(p) PROVE TypeOK'
    BY <1>7 DEF Shutdown, entry
<1>8. ASSUME NEW p \in Processes, Exit(p) PROVE TypeOK'
    <2>1. /\ pc' \in [Calls -> {"idle", "working", "release"}]
          /\ next' \in [Calls -> Nat]
          /\ sent' \in [Calls -> Nat] /\ renewals' \in [Calls -> Nat]
          /\ registered' \in [Processes -> Calls \cup {Free}]
        BY <1>8 DEF Exit
    <2>2. renewing' \subseteq renewing /\ \A d \in renewing' : pc'[d] = "working"
        BY <1>8 DEF Exit
    <2> QED BY <1>8, <2>1, <2>2 DEF Exit, entry
<1>9. ASSUME Advance PROVE TypeOK'
    <2>1. late' \in Nat /\ next' \in [Calls -> Nat]
        BY <1>9 DEF Advance
    <2>2. /\ ttl' \in Nat /\ holder' \in Calls \cup {Free}
          /\ holder' = Free <=> ttl' = 0
        BY <1>9 DEF Advance
    <2> QED BY <1>9, <2>1, <2>2 DEF Advance
<1>10. CASE UNCHANGED vars
    BY <1>10 DEF vars
<1> QED
    BY <1>1, <1>2, <1>3, <1>4, <1>5, <1>6, <1>7, <1>8, <1>9, <1>10 DEF Next

\* The entry of DistributedLock stays in its types: it exists as long as it has
\* time left, and every running timer belongs to a working caller.
THEOREM LockTypeCorrect == Spec => []TypeOK
BY InitType, TypeStep, PTL DEF Spec

-----------------------------------------------------------------------------
\* What makes HoldsWhileRenewed inductive: the entry outlives the timer's next
\* turn, except while the renewal of that turn is on its way.
HoldInv ==
    late = 0 =>
        \A c \in renewing :
            /\ next[c] <= Interval
            /\ renewals[c] < MaxRenewals =>
                  /\ holder = c
                  /\ sent[c] = 0 => ttl > next[c]

LEMMA HoldStep ==
    ASSUME RenewalsOutlastInterval, TypeOK, HoldInv, [Next]_vars
    PROVE  HoldInv'
<1> SUFFICES ASSUME late' = 0, NEW d \in renewing'
             PROVE  /\ next'[d] <= Interval
                    /\ renewals'[d] < MaxRenewals =>
                          /\ holder' = d
                          /\ sent'[d] = 0 => ttl' > next'[d]
    BY DEF HoldInv
<1> DEFINE Goal == /\ next'[d] <= Interval
                   /\ renewals'[d] < MaxRenewals =>
                         /\ holder' = d
                         /\ sent'[d] = 0 => ttl' > next'[d]
<1> USE LockAssumption DEF TypeOK
<1>0. late = 0
    BY DEF Next, Acquire, FireTimer, Extend, Return, Release, Renew, Shutdown, Exit,
           Advance, vars
<1>1. ASSUME d \in renewing
      PROVE  /\ d \in Calls /\ next[d] <= Interval
             /\ renewals[d] < MaxRenewals =>
                   holder = d /\ (sent[d] = 0 => ttl > next[d])
    BY <1>0, <1>1 DEF HoldInv
<1>2. ASSUME NEW c \in Calls, Acquire(c) PROVE Goal
    <2>1. CASE d = c
        <3>1. c \in AutoRenew
            BY <1>2, <2>1 DEF Acquire, timers
        <3> QED BY <1>2, <2>1, <3>1 DEF Acquire
    <2>2. CASE d # c
        <3>1. d \in renewing /\ next'[d] = next[d]
            BY <1>2, <2>2 DEF Acquire, timers
        <3> QED BY <1>1, <1>2, <3>1 DEF Acquire
    <2> QED BY <2>1, <2>2
<1>3. ASSUME NEW c \in Calls, FireTimer(c) PROVE Goal
    <2>1. d \in renewing
        BY <1>3 DEF FireTimer
    <2>2. CASE d = c /\ renewals[c] < MaxRenewals
        BY <1>1, <1>3, <2>1, <2>2 DEF FireTimer, entry
    <2>3. CASE d # c
        BY <1>1, <1>3, <2>1, <2>3 DEF FireTimer, entry
    <2> QED BY <1>3, <2>2, <2>3 DEF FireTimer
<1>4. ASSUME NEW c \in Calls, Extend(c) PROVE Goal
    <2>1. d \in renewing
        BY <1>4 DEF Extend
    <2>2. CASE d = c
        BY <1>1, <1>4, <2>1, <2>2 DEF Extend
    <2>3. CASE d # c
        BY <1>1, <1>4, <2>1, <2>3 DEF Extend
    <2> QED BY <2>2, <2>3
<1>5. ASSUME NEW c \in Calls, NEW t \in RenewTTLs, Renew(c, t) PROVE Goal
    <2>1. d \in renewing
        BY <1>5 DEF Renew, timers
    <2>2. t > Interval /\ t \in Nat
        BY DEF RenewalsOutlastInterval
    <2>3. CASE d = c
        BY <1>1, <1>5, <2>1, <2>2, <2>3 DEF Renew, timers
    <2>4. CASE d # c
        BY <1>1, <1>5, <2>1, <2>4 DEF Renew, timers
    <2> QED BY <2>3, <2>4
<1>6. ASSUME NEW c \in Calls, Return(c) PROVE Goal
    <2>1. d \in renewing /\ d # c
        BY <1>6 DEF Return, timers
    <2> QED BY <1>1, <1>6, <2>1 DEF Return, entry, timers
<1>7. ASSUME NEW c \in Calls, Release(c) PROVE Goal
    <2>1. d \in renewing /\ d # c
        BY <1>7 DEF Release, timers
    <2> QED BY <1>1, <1>7, <2>1 DEF Release, entry, timers
<1>8. ASSUME NEW p \in Processes, Shutdown(p) PROVE Goal
    BY <1>1, <1>8 DEF Shutdown, entry
<1>9. ASSUME NEW p \in Processes, Exit(p) PROVE Goal
    <2>1. d \in renewing /\ Home[d] # p
        BY <1>9 DEF Exit
    <2> QED BY <1>1, <1>9, <2>1 DEF Exit, entry
<1>10. ASSUME Advance PROVE Goal
    <2>1. d \in renewing /\ next[d] > 0 /\ sent[d] = 0
        BY <1>0, <1>10 DEF Advance, Punctual
    <2>2. next'[d] = next[d] - 1
        BY <1>1, <1>10, <2>1 DEF Advance
    <2> QED BY <1>1, <1>10, <2>1, <2>2 DEF Advance
<1>11. CASE UNCHANGED vars
    BY <1>1, <1>11 DEF vars
<1> QED
    BY <1>2, <1>3, <1>4, <1>5, <1>6, <1>7, <1>8, <1>9, <1>10, <1>11 DEF Next

\* withLock keeps the lock of a caller whose timer renews it, for as long as
\* renewals are left and nothing is late, if the function's own renewals last at
\* least until the timer fires again.
THEOREM RenewedLocksHold ==
    RenewalsOutlastInterval /\ Spec => []HoldsWhileRenewed
<1> SUFFICES ASSUME RenewalsOutlastInterval PROVE Spec => []HoldsWhileRenewed
    OBVIOUS
<1>1. Init => HoldInv
    BY DEF Init, HoldInv
<1>2. TypeOK /\ HoldInv /\ [Next]_vars => HoldInv'
    BY HoldStep
<1>3. HoldInv => HoldsWhileRenewed
    BY DEF HoldInv, HoldsWhileRenewed
<1> QED BY <1>1, <1>2, <1>3, LockTypeCorrect, PTL DEF Spec

-----------------------------------------------------------------------------
\* The token checks of release and extend: every step of callers, timers,
\* instances and the clock is one of the abstract lease, or leaves it alone.
LEMMA LeaseStep == TypeOK /\ [Next]_vars => Promised!Next
<1> SUFFICES ASSUME TypeOK, [Next]_vars PROVE Promised!Next
    OBVIOUS
<1> USE LockAssumption DEF TypeOK, Promised!Next
<1>1. ASSUME NEW c \in Calls, Acquire(c) PROVE Promised!Grant(c)
    <2>1. TTL \in Nat \ {0}
        OBVIOUS
    <2>2. pc'[c] = "working"
        BY <1>1 DEF Acquire, Goto
    <2> QED BY <1>1, <2>1, <2>2 DEF Acquire, Promised!Grant
<1>2. ASSUME NEW c \in Calls, FireTimer(c) \/ Return(c) PROVE Promised!Otherwise
    BY <1>2 DEF FireTimer, Return, entry, Promised!Otherwise
<1>3. ASSUME NEW c \in Calls, Extend(c)
      PROVE  Promised!Prolong(c) \/ Promised!Otherwise
    <2>1. CASE holder = c
        <3>1. TTL \in Nat \ {0}
            OBVIOUS
        <3>2. renewals'[c] = renewals[c] + 1
            BY <1>3, <2>1 DEF Extend
        <3> QED BY <1>3, <2>1, <3>1, <3>2 DEF Extend, Promised!Prolong
    <2>2. CASE holder # c
        BY <1>3, <2>2 DEF Extend, Promised!Otherwise
    <2> QED BY <2>1, <2>2
<1>4. ASSUME NEW c \in Calls, NEW t \in RenewTTLs, Renew(c, t)
      PROVE  Promised!Prolong(c) \/ Promised!Otherwise
    <2>1. renewals'[c] = renewals[c] + 1 /\ t \in Nat \ {0}
        BY <1>4 DEF Renew
    <2> QED BY <1>4, <2>1 DEF Renew, Promised!Prolong, Promised!Otherwise
<1>5. ASSUME NEW c \in Calls, Release(c)
      PROVE  Promised!GiveUp(c) \/ Promised!Otherwise
    <2>1. pc'[c] = "idle"
        BY <1>5 DEF Release, Goto
    <2> QED BY <1>5, <2>1 DEF Release, entry, Promised!GiveUp, Promised!Otherwise
<1>6. ASSUME NEW p \in Processes, Shutdown(p) \/ Exit(p) PROVE Promised!Otherwise
    BY <1>6 DEF Shutdown, Exit, entry, Promised!Otherwise
<1>7. ASSUME Advance PROVE Promised!TimePasses
    BY <1>7 DEF Advance, Promised!TimePasses
<1>8. CASE UNCHANGED vars
    BY <1>8 DEF vars, entry, Promised!Otherwise
<1> QED BY <1>1, <1>2, <1>3, <1>4, <1>5, <1>6, <1>7, <1>8 DEF Next

\* DistributedLock implements Lease.
THEOREM LockImplementsLease == Spec => ImplementsLease
<1>1. Init => Promised!Init
    BY DEF Init, Promised!Init
<1>2. TypeOK /\ [Next]_vars => [Promised!Next]_<<holder, ttl, pc, renewals>>
    BY LeaseStep
<1> QED BY <1>1, <1>2, LockTypeCorrect, PTL DEF Spec, ImplementsLease, Promised!Spec

=============================================================================
