--------------------------- MODULE EngineShutdown ---------------------------
(***************************************************************************)
(* GracefulShutdown around the one process that runs WorkflowRun: a signal *)
(* closes its workers, runs the cleanup handlers (WorkflowEngine.close),   *)
(* closes queues and Redis connections, one step after the other, and ends *)
(* the process, all this against a timeout.  Later the process comes back. *)
(* forceExit is TRUE, its default.                                         *)
(***************************************************************************)
EXTENDS WorkflowRun

CONSTANT MaxShutdowns   \* bound on the number of signals

ASSUME ShutdownAssumption == MaxShutdowns \in Nat

VARIABLES
    phase,      \* the step of performShutdown under way
    shutdowns,  \* signals so far (bound only)
    cut         \* an end of the process has cut somebody off (observation only)

shutVars == <<phase, shutdowns, cut>>
processVars == <<vars, shutVars>>

Closing == {"workers", "handlers", "queues", "redis"}

ShutInit == Init /\ phase = "up" /\ shutdowns = 0 /\ cut = FALSE

Active == JobsIn(jobs, {"active"})
Unfinished == starting # {} \/ failing \cup recorded # {}

-----------------------------------------------------------------------------
(***************************************************************************)
(* performShutdown                                                         *)
(***************************************************************************)
\* SIGTERM or SIGINT; while a shutdown is in progress another call returns.
Signal ==
    /\ phase = "up"
    /\ shutdowns < MaxShutdowns
    /\ shutdowns' = shutdowns + 1
    /\ phase' = "workers"
    /\ UNCHANGED <<vars, cut>>

\* Wrong: close is called but not waited for.
WorkersClosedAtOnce ==
    /\ phase = "workers"
    /\ phase' = "handlers"
    /\ UNCHANGED <<vars, shutdowns, cut>>

\* Worker.close resolves when the jobs it has taken are done.
WorkersClosed ==
    /\ phase = "workers"
    /\ Active = {}
    /\ phase' = "handlers"
    /\ UNCHANGED <<vars, shutdowns, cut>>

\* WorkflowEngine.close: nothing can be added any more, and events that the
\* result cache has not heard of yet go by.
HandlersRun ==
    /\ phase = "handlers"
    /\ phase' = "queues"
    /\ starting' = {}
    /\ cacheEvents' = {}
    /\ cut' = (cut \/ starting # {})
    /\ UNCHANGED <<queueVars, workVars, storeVars, lock, failing, recorded,
                   observed, shutdowns>>

QueuesClosed ==
    /\ phase = "queues"
    /\ phase' = "redis"
    /\ UNCHANGED <<vars, shutdowns, cut>>

\* What the end of the process leaves: the store, the queue, where the jobs of
\* its workers are found stalled, and a completion lock until its TTL.
ProcessGone ==
    /\ phase' = "down"
    /\ starting' = {} /\ failing' = {} /\ recorded' = {} /\ cacheEvents' = {}
    /\ jobs' = [j \in JobIds |-> IF j \in Active THEN "waiting" ELSE jobs[j]]
    /\ pc' = [j \in JobIds |-> "idle"]
    /\ outcome' = [j \in JobIds |-> NoOutcome]
    /\ todo' = [j \in JobIds |-> <<>>]
    /\ UNCHANGED <<made, storeVars, lock, observed, shutdowns>>

\* process.exit after redis.quit.  Nobody has waited for the listeners.
Exit ==
    /\ phase = "redis"
    /\ cut' = (cut \/ Unfinished)
    /\ ProcessGone

\* The timeout wins the race, or a second signal of the same kind, which has no
\* handler any more, ends the process.
ExitEarly ==
    /\ phase \in Closing
    /\ cut' = (cut \/ Unfinished \/ Active # {})
    /\ ProcessGone

Restart ==
    /\ phase = "down"
    /\ phase' = "up"
    /\ UNCHANGED <<vars, shutdowns, cut>>

-----------------------------------------------------------------------------
(***************************************************************************)
(* The engine next to it: closing workers take no job, and without the     *)
(* process only Redis goes on.                                             *)
(***************************************************************************)
ProcessStep ==
    /\ phase # "down"
    /\ Next
    /\ phase # "up" => JobsIn(jobs', {"active"}) \subseteq Active
    /\ UNCHANGED shutVars

RedisStep ==
    /\ phase = "down"
    /\ LockExpires \/ \E j \in JobIds : DelayElapses(j)
    /\ UNCHANGED shutVars

Orderly ==
    \/ ProcessStep \/ RedisStep
    \/ WorkersClosed \/ HandlersRun \/ QueuesClosed \/ Exit \/ Restart

ShutNext == Orderly \/ Signal \/ ExitEarly

\* Something that can go on does.  Without faults a run has an end, so nothing
\* is postponed for ever.  Neither a signal nor the timeout need come.
ShutSpec == ShutInit /\ [][ShutNext]_processVars /\ WF_processVars(Orderly)

-----------------------------------------------------------------------------
(***************************************************************************)
(* Properties                                                              *)
(***************************************************************************)
\* With one slot and no faults every execution ends, also across shutdowns at
\* any point: a shutdown that comes to its end by itself finishes the jobs it
\* has taken and leaves the others to the next process.  What it may cut off is
\* a start under way and the 'failed' listener, which nobody waits for; only the
\* timeout cuts jobs.
EndsUnlessCut == <>[](status \in Terminal \/ cut)

=============================================================================
