-------------------------- MODULE DistributedLock --------------------------
(***************************************************************************)
(* One key of DistributedLock (utils/distributed-lock.ts): the Redis entry *)
(* with its TTL, and callers that run a function under it with withLock,   *)
(* whose interval timers renew the entry.  A caller outside AutoRenew has  *)
(* no timer, like one of acquire and release.  A refused caller gets null  *)
(* and changes nothing; callers call again and again.                      *)
(*                                                                         *)
(* Time is counted in units.  Timers and Redis commands that are due come  *)
(* before the clock goes on, except in a unit in which they are late: a    *)
(* blocked event loop or a slow network.                                   *)
(***************************************************************************)
EXTENDS Integers, FiniteSets

CONSTANTS
    Calls,        \* callers of withLock for the key
    Processes,    \* instances of DistributedLock
    Home,         \* the instance a caller uses
    AutoRenew,    \* callers with options.autoRenew
    TTL,          \* options.ttl
    Interval,     \* ttl * renewalRatio
    MaxRenewals,  \* options.maxRenewals
    RenewTTLs,    \* TTLs the function passes to renew
    MaxManual,    \* bound on such calls once the renewals are used up
    MaxLate,      \* bound on the late units
    Free          \* no caller

ASSUME LockAssumption ==
    /\ IsFiniteSet(Calls) /\ Free \notin Calls
    /\ Home \in [Calls -> Processes]
    /\ AutoRenew \subseteq Calls
    /\ TTL \in Nat /\ Interval \in Nat \ {0} /\ Interval < TTL
    /\ MaxRenewals \in Nat /\ MaxManual \in Nat /\ MaxLate \in Nat
    /\ RenewTTLs \subseteq Nat \ {0}

VARIABLES
    holder,      \* whose token the entry holds
    ttl,         \* units until Redis expires the entry
    pc,          \* where a caller is in withLock
    renewing,    \* callers whose interval timer is set
    next,        \* units until it fires
    sent,        \* renewals a timer has sent that Redis has not executed
    renewals,    \* renewalCount
    registered,  \* renewalTimers of an instance, at this key
    late         \* late units so far

entry == <<holder, ttl>>
timers == <<renewing, next, registered>>
vars == <<holder, ttl, pc, renewing, next, sent, renewals, registered, late>>

Init ==
    /\ holder = Free
    /\ ttl = 0
    /\ pc = [c \in Calls |-> "idle"]
    /\ renewing = {}
    /\ next = [c \in Calls |-> 0]
    /\ sent = [c \in Calls |-> 0]
    /\ renewals = [c \in Calls |-> 0]
    /\ registered = [p \in Processes |-> Free]
    /\ late = 0

Goto(c, label) == pc' = [pc EXCEPT ![c] = label]

-----------------------------------------------------------------------------
(***************************************************************************)
(* withLock                                                                *)
(***************************************************************************)
\* SET NX, and the timer, which takes the place of another one in the map.
Acquire(c) ==
    /\ pc[c] = "idle"
    /\ holder = Free
    /\ holder' = c
    /\ ttl' = TTL
    /\ Goto(c, "working")
    /\ \/ /\ c \in AutoRenew
          /\ renewing' = renewing \cup {c}
          /\ next' = [next EXCEPT ![c] = Interval]
          /\ registered' = [registered EXCEPT ![Home[c]] = c]
       \/ /\ c \notin AutoRenew
          /\ UNCHANGED timers
    /\ UNCHANGED <<sent, renewals, late>>

\* Wrong: the timer waits a whole TTL.
FireLate(c) ==
    /\ c \in renewing
    /\ next[c] = 0
    /\ \/ /\ renewals[c] >= MaxRenewals
          /\ renewing' = renewing \ {c}
          /\ UNCHANGED <<next, sent>>
       \/ /\ renewals[c] < MaxRenewals
          /\ sent' = [sent EXCEPT ![c] = @ + 1]
          /\ next' = [next EXCEPT ![c] = TTL]
          /\ UNCHANGED renewing
    /\ UNCHANGED <<entry, pc, renewals, registered, late>>

FireTimer(c) ==
    /\ c \in renewing
    /\ next[c] = 0
    /\ \/ /\ renewals[c] >= MaxRenewals
          /\ renewing' = renewing \ {c}
          /\ UNCHANGED <<next, sent>>
       \/ /\ renewals[c] < MaxRenewals
          /\ sent' = [sent EXCEPT ![c] = @ + 1]
          /\ next' = [next EXCEPT ![c] = Interval]
          /\ UNCHANGED renewing
    /\ UNCHANGED <<entry, pc, renewals, registered, late>>

\* Wrong: a renewal that succeeds is not counted.
ExtendUncounted(c) ==
    /\ sent[c] > 0
    /\ sent' = [sent EXCEPT ![c] = @ - 1]
    /\ ttl' = IF holder = c THEN TTL ELSE ttl
    /\ renewing' = IF holder = c THEN renewing ELSE renewing \ {c}
    /\ UNCHANGED <<holder, pc, next, renewals, registered, late>>

\* The script of extend, on behalf of the timer.
Extend(c) ==
    /\ sent[c] > 0
    /\ sent' = [sent EXCEPT ![c] = @ - 1]
    /\ \/ /\ holder = c
          /\ ttl' = TTL
          /\ renewals' = [renewals EXCEPT ![c] = @ + 1]
          /\ UNCHANGED renewing
       \/ /\ holder # c
          /\ renewing' = renewing \ {c}
          /\ UNCHANGED <<ttl, renewals>>
    /\ UNCHANGED <<holder, pc, next, registered, late>>

\* renew of the function: counted before its script, and whatever that answers.
Renew(c, t) ==
    /\ pc[c] = "working"
    /\ renewals[c] < MaxRenewals + MaxManual
    /\ renewals' = [renewals EXCEPT ![c] = @ + 1]
    /\ ttl' = IF holder = c THEN t ELSE ttl
    /\ UNCHANGED <<holder, pc, timers, sent, late>>

\* The function returns or throws; the timer is removed under the key.
Return(c) ==
    /\ pc[c] = "working"
    /\ Goto(c, "release")
    /\ \/ /\ c \in AutoRenew
          /\ renewing' = renewing \ {c}
          /\ next' = [next EXCEPT ![c] = 0]
          /\ registered' = [registered EXCEPT ![Home[c]] = Free]
       \/ /\ c \notin AutoRenew
          /\ UNCHANGED timers
    /\ UNCHANGED <<entry, sent, renewals, late>>

\* Wrong: DEL without a look at the token.
ReleaseAny(c) ==
    /\ pc[c] = "release"
    /\ sent[c] = 0
    /\ holder' = Free
    /\ ttl' = 0
    /\ Goto(c, "idle")
    /\ renewals' = [renewals EXCEPT ![c] = 0]
    /\ UNCHANGED <<timers, sent, late>>

\* The script of release.  Redis has executed what was sent before.
Release(c) ==
    /\ pc[c] = "release"
    /\ sent[c] = 0
    /\ Goto(c, "idle")
    /\ renewals' = [renewals EXCEPT ![c] = 0]
    /\ \/ /\ holder = c
          /\ holder' = Free
          /\ ttl' = 0
       \/ /\ holder # c
          /\ UNCHANGED entry
    /\ UNCHANGED <<timers, sent, late>>

-----------------------------------------------------------------------------
(***************************************************************************)
(* Instances and time                                                      *)
(***************************************************************************)
\* shutdown clears the timers in the map; its callers go on without them.
Shutdown(p) ==
    /\ renewing' = renewing \ {registered[p]}
    /\ registered' = [registered EXCEPT ![p] = Free]
    /\ UNCHANGED <<entry, pc, next, sent, renewals, late>>

\* The process ends, and starts again without the lock it may have held.
Exit(p) ==
    /\ pc' = [c \in Calls |-> IF Home[c] = p THEN "idle" ELSE pc[c]]
    /\ renewing' = {c \in renewing : Home[c] # p}
    /\ next' = [c \in Calls |-> IF Home[c] = p THEN 0 ELSE next[c]]
    /\ sent' = [c \in Calls |-> IF Home[c] = p THEN 0 ELSE sent[c]]
    /\ renewals' = [c \in Calls |-> IF Home[c] = p THEN 0 ELSE renewals[c]]
    /\ registered' = [registered EXCEPT ![p] = Free]
    /\ UNCHANGED <<entry, late>>

Punctual ==
    /\ \A c \in renewing : next[c] > 0
    /\ \A c \in Calls : sent[c] = 0

\* A unit passes; Redis expires an entry whose time is up.
Advance ==
    /\ \/ Punctual /\ UNCHANGED late
       \/ ~Punctual /\ late < MaxLate /\ late' = late + 1
    /\ ttl' = IF ttl > 0 THEN ttl - 1 ELSE 0
    /\ holder' = IF ttl > 1 THEN holder ELSE Free
    /\ next' = [c \in Calls |->
                  IF c \in renewing /\ next[c] > 0 THEN next[c] - 1 ELSE next[c]]
    /\ UNCHANGED <<pc, renewing, sent, renewals, registered>>

-----------------------------------------------------------------------------
Next ==
    \/ \E c \in Calls :
          \/ Acquire(c) \/ FireTimer(c) \/ Extend(c) \/ Return(c) \/ Release(c)
          \/ \E t \in RenewTTLs : Renew(c, t)
    \/ \E p \in Processes : Shutdown(p) \/ Exit(p)
    \/ Advance

Spec == Init /\ [][Next]_vars

\* Node's timers, Redis and the clock go on.  Nothing is assumed of the
\* functions: they may hang, and their processes may be gone.
Fairness ==
    /\ \A c \in Calls : WF_vars(FireTimer(c)) /\ WF_vars(Extend(c))
    /\ WF_vars(Advance)

FairSpec == Spec /\ Fairness

-----------------------------------------------------------------------------
(***************************************************************************)
(* Properties                                                              *)
(***************************************************************************)
\* The entry exists exactly while it has time left, and only working callers
\* have a timer.
TypeOK ==
    /\ holder \in Calls \cup {Free}
    /\ ttl \in Nat
    /\ holder = Free <=> ttl = 0
    /\ pc \in [Calls -> {"idle", "working", "release"}]
    /\ renewing \subseteq AutoRenew
    /\ \A c \in renewing : pc[c] = "working"
    /\ next \in [Calls -> Nat]
    /\ sent \in [Calls -> Nat]
    /\ renewals \in [Calls -> Nat]
    /\ registered \in [Processes -> Calls \cup {Free}]
    /\ late \in Nat

\* renew, unlike the timer, may be given a TTL of any length.
RenewalsOutlastInterval == \A t \in RenewTTLs : t > Interval

\* "Supports automatic lock renewal for long-running operations": as long as a
\* caller has its timer and renewals left, the lock is its own, however long the
\* function takes and whatever other callers do, if nothing is late.
HoldsWhileRenewed ==
    late = 0 =>
        \A c \in renewing : renewals[c] < MaxRenewals => holder = c

\* The token checks of release and extend, as a refinement: a lock ends by its
\* TTL or by its holder, and only its holder prolongs it; a caller that has lost
\* it, however late it renews or releases, leaves alone that of the next one.
Promised == INSTANCE Lease
    WITH Calls <- Calls, Free <- Free,
         holder <- holder, left <- ttl, at <- pc, asked <- renewals
ImplementsLease == Promised!Spec

\* A lock is not held forever, even if the function hangs or its process ends:
\* the renewals are limited.
EventuallyLost == \A c \in Calls : holder = c ~> holder # c

=============================================================================
