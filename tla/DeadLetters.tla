---------------------------- MODULE DeadLetters ----------------------------
(***************************************************************************)
(* The dead-letter queue, which a store without handlePermanentFailure     *)
(* (the in-memory store) has filled by the workers' 'failed' listener, and *)
(* retryDLQItem, called while the workers, the listener and the control    *)
(* calls of WorkflowControl go on.                                         *)
(*                                                                         *)
(* A letter stands for the item of a failed job.  The jobs retried here    *)
(* are those of regular nodes: without faults no other node throws.        *)
(***************************************************************************)
EXTENDS WorkflowControl

CONSTANTS
    Retriers,     \* clients that may be inside retryDLQItem at a time
    MaxRequests   \* bound on the number of control calls and retries together

ASSUME RetryAssumption == MaxRequests \in Nat

VARIABLES
    letters,    \* failed jobs that have an item in the dead-letter queue
    moved,      \* of the failing jobs, those the listener has moved there
    found,      \* the item a client's call has got, NoJob outside a call
    added,      \* clients that have added the retry, not yet removed the item
    retries,    \* number of calls begun (bound only)
    lettered,   \* jobs that ever had an item (observation only)
    retriedBy   \* jobs added to retry a job (observation only)

letterVars == <<letters, moved, lettered>>
retryVars == <<found, added, retries, retriedBy>>
deadVars == <<allVars, letterVars, retryVars>>

DeadInit ==
    /\ ControlInit
    /\ letters = {}
    /\ moved = {}
    /\ found = [r \in Retriers |-> NoJob]
    /\ added = {}
    /\ retries = 0
    /\ lettered = {}
    /\ retriedBy = [j \in JobIds |-> {}]

-----------------------------------------------------------------------------
(***************************************************************************)
(* The listener: moveToDLQ comes before updateNodeResult.                  *)
(***************************************************************************)
MoveToDLQ(j) ==
    /\ ~Guarded
    /\ j \in failing \ moved
    /\ letters' = letters \cup {j}
    /\ moved' = moved \cup {j}
    /\ lettered' = lettered \cup {j}
    /\ UNCHANGED <<allVars, retryVars>>

\* How any other step leaves the dead letters: in the in-memory store
\* RecordPermanentFailure is for jobs that have been moved.
LettersKept ==
    /\ Guarded \/ recorded' \subseteq recorded \cup moved
    /\ moved' = moved \cap failing'
    /\ UNCHANGED <<letters, lettered, retryVars>>

EngineStep ==
    /\ ControlNext
    /\ LettersKept
    /\ calls' + retries <= MaxRequests

-----------------------------------------------------------------------------
(***************************************************************************)
(* retryDLQItem: get the item, add the job again, remove the item.         *)
(***************************************************************************)
Idle(r) == found[r] = NoJob

\* Wrong: takes the item out before the job is back in the queue.
TakeLetter(r, j) ==
    /\ Idle(r)
    /\ calls + retries < MaxRequests
    /\ retries' = retries + 1
    /\ j \in letters
    /\ found' = [found EXCEPT ![r] = j]
    /\ letters' = letters \ {j}
    /\ UNCHANGED <<allVars, moved, lettered, added, retriedBy>>

FindLetter(r, j) ==
    /\ Idle(r)
    /\ calls + retries < MaxRequests
    /\ retries' = retries + 1
    /\ j \in letters
    /\ found' = [found EXCEPT ![r] = j]
    /\ UNCHANGED <<allVars, letterVars, added, retriedBy>>

\* Wrong: the job goes back under the id it has failed under.
AddUnderOldId(r, stamp) ==
    /\ ~Idle(r) /\ r \notin added
    /\ jobs' = AddJob(jobs, found[r], "waiting")
    /\ added' = added \cup {r}
    /\ retriedBy' = [retriedBy EXCEPT ![found[r]] = @ \cup {<<Node(found[r]), stamp>>}]
    /\ UNCHANGED <<starting, made, workVars, storeVars, lock, listenerVars,
                   observed, controlVars, letterVars, found, retries>>

\* The id ends in Date.now(): a stamp no retry of the node has had, or that of
\* another client's retry of the same millisecond, which nobody has taken yet.
AddRetry(r, stamp) ==
    /\ ~Idle(r) /\ r \notin added
    /\ LET job == <<Node(found[r]), stamp>> IN
          /\ jobs[job] = "none" \/ (jobs[job] = "waiting" /\ made[job] = 0)
          /\ jobs' = AddJob(jobs, job, "waiting")
          /\ retriedBy' = [retriedBy EXCEPT ![found[r]] = @ \cup {job}]
    /\ added' = added \cup {r}
    /\ UNCHANGED <<starting, made, workVars, storeVars, lock, listenerVars,
                   observed, controlVars, letterVars, found, retries>>

\* Job.remove of an item that is gone does nothing.
RemoveLetter(r) ==
    /\ r \in added
    /\ letters' = letters \ {found[r]}
    /\ found' = [found EXCEPT ![r] = NoJob]
    /\ added' = added \ {r}
    /\ UNCHANGED <<allVars, moved, lettered, retries, retriedBy>>

\* The add or the remove fails, or the client's process dies: the item stays.
RetryFails(r) ==
    /\ ~Idle(r)
    /\ found' = [found EXCEPT ![r] = NoJob]
    /\ added' = added \ {r}
    /\ UNCHANGED <<allVars, letterVars, retries, retriedBy>>

-----------------------------------------------------------------------------
DeadNext ==
    \/ EngineStep
    \/ \E j \in JobIds : MoveToDLQ(j)
    \/ \E r \in Retriers, j \in letters : FindLetter(r, j)
    \/ \E r \in Retriers, stamp \in Retries : AddRetry(r, stamp)
    \/ \E r \in Retriers : RemoveLetter(r) \/ RetryFails(r)

DeadSpec == DeadInit /\ [][DeadNext]_deadVars

\* Some job that can go on does, a timer fires, the listener or a call of
\* pauseWorkflow or resumeWorkflow gets further: no more is assumed, not even
\* that each job has its turn, and nothing of the clients of retryDLQItem.
Going ==
    /\ \/ (\E j \in JobIds : Work(j) \/ Listen(j) \/ DelayElapses(j)) /\ Observe
       \/ \E c \in Callers : Control(c)
    /\ LettersKept

DeadFairness == WF_deadVars(Going \/ \E j \in JobIds : MoveToDLQ(j))

FairDeadSpec == DeadSpec /\ DeadFairness

-----------------------------------------------------------------------------
(***************************************************************************)
(* Properties                                                              *)
(***************************************************************************)
\* Pausing and resuming loses no job: when no call is under way, nothing is left
\* to run and no job has become a dead letter, every node was executed or skipped.
\* (A retry may be lost: its success can be overwritten by the listener, which
\* moves the job before it records the failure.)
PauseLosesNothing == NoCall /\ lettered = {} => QuietMeansResolved

\* The retry is added before the item is removed: whichever of the clients,
\* listeners and pauses come in between and wherever a call is cut, a dead
\* letter is in its queue, or a retry of its job is known to the node queue or
\* in the hands of pauseWorkflow.
NoLetterLost ==
    \A j \in lettered \ letters :
        \E job \in retriedBy[j] : jobs[job] # "none" \/ \E c \in Callers : held[c] = job

Retried == UNION {retriedBy[j] : j \in JobIds}

\* A retried letter is not left lying: its new job gets through the worker or
\* fails and becomes a letter itself, also while two clients retry the same
\* item, unless the execution is paused.
RetriesAreRun ==
    (Retried # {}) ~>
        \/ status = "paused"
        \/ \A job \in Retried : jobs[job] = "completed" \/ job \in lettered

=============================================================================
