------------------------------ MODULE JobQueue ------------------------------
(***************************************************************************)
(* The BullMQ queue "node-execution", as far as the engine relies on it.   *)
(* BullMQ itself is a library: this module states what the code in src/    *)
(* expects of Queue.add, Job.remove, Job.promote and of a worker that runs *)
(* out of attempts.  A queue is a function from job ids to job states;     *)
(* "none" stands for an id the queue holds no job under.                   *)
(***************************************************************************)
EXTENDS Integers, FiniteSets

JobStates == {"none", "waiting", "delayed", "active", "completed", "failed"}

\* Queue.add: an id the queue already knows, finished jobs included, is ignored.
AddJob(queue, job, state) ==
    IF queue[job] = "none" THEN [queue EXCEPT ![job] = state] ELSE queue

SetJob(queue, job, state) == [queue EXCEPT ![job] = state]

JobsIn(queue, states) == {job \in DOMAIN queue : queue[job] \in states}

\* Job.remove throws for a job a worker holds locked.
Removable(queue, job) == queue[job] # "active"

\* Wrong: forgets that the attempt that just failed counts.
AfterFailureOffByOne(attemptsMade, maxAttempts) ==
    IF attemptsMade < maxAttempts THEN "delayed" ELSE "failed"

\* Job.moveToFailed counts the attempt that failed and either schedules the
\* next one behind its backoff or gives the job up.
AfterFailure(attemptsMade, maxAttempts) ==
    IF attemptsMade + 1 < maxAttempts THEN "delayed" ELSE "failed"

=============================================================================
