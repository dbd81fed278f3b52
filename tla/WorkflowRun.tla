---------------------------- MODULE WorkflowRun ----------------------------
(***************************************************************************)
(* One execution of one workflow: the node worker, NodeProcessor and its   *)
(* handlers, the workers' 'failed' listener and the result-cache listener, *)
(* over the job queue and the execution state store.                       *)
(*                                                                         *)
(* A process is a job.  What a worker does with a job is cut at every      *)
(* await that reads or writes shared state, so the jobs of one execution   *)
(* interleave as they do across the slots of one or several workers.       *)
(***************************************************************************)
EXTENDS JobQueue, ExecutionStore, Sequences, Functions

CONSTANTS
    Nodes,               \* node ids of the workflow definition
    Inputs,              \* node.inputs: the set of a node's parents
    EntryNodeId,         \* workflow.entryNodeId, no node if it is empty
    Outputs,             \* node.outputs: the sequence of a node's children
    DelayNodes,          \* nodes of type 'delay'; the others are regular
    InvalidDelays,       \* delay nodes whose duration fails validateDuration
    Behaviour,           \* what a regular node's executor may answer
    ContinueOnFail,      \* nodes with retryPolicy.continueOnFail
    MaxAttempts,         \* job.opts.attempts
    Retries,             \* time stamps in the ids of jobs retryDLQItem adds
    Concurrency,         \* jobs the workers process at a time
    Guarded,             \* TRUE for the Drizzle store
    Faults,              \* faults that may happen, out of FaultKinds
    MaxFaults,           \* bound on their number
    NoJob                \* the lock's value when nobody holds it

FaultKinds == {"crash", "error", "overrun"}

\* An executor's answer: a success with the children it selects, a result
\* with success: false, a throw, or a throw of RateLimitError.
Answers == [kind : {"success", "failure", "throw", "limited"}, next : SUBSET Nodes]

Children(n) == Range(Outputs[n])

ASSUME WorkflowAssumption ==
    /\ IsFiniteSet(Nodes)
    /\ Inputs \in [Nodes -> SUBSET Nodes]
    /\ Outputs \in [Nodes -> Seq(Nodes)]
    /\ DelayNodes \subseteq Nodes
    /\ InvalidDelays \subseteq DelayNodes
    /\ Behaviour \in [Nodes -> SUBSET Answers]
    /\ ContinueOnFail \subseteq Nodes

ASSUME EngineAssumption ==
    /\ MaxAttempts \in Nat \ {0}
    /\ Concurrency \in Nat \ {0}
    /\ Guarded \in BOOLEAN
    /\ Faults \subseteq FaultKinds
    /\ MaxFaults \in Nat
    /\ Retries \cap {"manual", "node", "resumed"} = {}
    /\ NoJob \notin Nodes \X ({"manual", "node", "resumed"} \cup Retries)

(***************************************************************************)
(* Job ids: the entry job of enqueueWorkflow, the deterministic id of a    *)
(* child, the second job of a delay node, and retries of dead letters.     *)
(***************************************************************************)
JobIds == Nodes \X ({"manual", "node", "resumed"} \cup Retries)
Node(j) == j[1]
IsResumed(j) == j[2] = "resumed"

EntryNodes ==
    IF EntryNodeId \in Nodes THEN {EntryNodeId} ELSE {n \in Nodes : Inputs[n] = {}}

VARIABLES
    starting,    \* entry nodes enqueueWorkflow has still to enqueue
    jobs,        \* the queue: state of every job id
    made,        \* attempts of a job that have failed
    pc,          \* where the worker is in a job
    outcome,     \* the result the worker holds for a job
    todo,        \* children the worker still has to look at
    status,      \* the execution's status in the store
    results,     \* the execution's node results in the store
    lock,        \* holder of the lock completion:<execution>
    failing,     \* jobs whose permanent failure is not recorded yet
    recorded,    \* jobs recorded as failed, status not updated yet
    cacheEvents, \* 'completed' events the result cache has not handled
    announced,   \* number of 'completed' workflow events emitted
    faults       \* number of faults that have happened (observation only)

workVars == <<pc, outcome, todo>>
queueVars == <<jobs, made>>
storeVars == <<status, results>>
listenerVars == <<failing, recorded, cacheEvents>>
observed == <<announced, faults>>
vars == <<starting, queueVars, workVars, storeVars, lock, listenerVars, observed>>

NoOutcome == [kind |-> "none", next |-> {}]
Recovered(n) == [kind |-> "recovered", next |-> Children(n)]

Labels == {"idle", "route", "state", "execute", "schedule", "scheduled",
           "resume", "store", "fail", "children", "enqueue", "lock", "locked",
           "count", "complete", "release"}
\* Labels at which the worker still believes it owns the completion lock.
InLock == {"locked", "count", "complete", "release"}
\* Labels inside the try block of executeRegularNode.
InTry == {"store", "fail", "children", "enqueue", "lock"} \cup InLock

\* What createExecution leaves: no job, no result, nobody at work.
Created ==
    /\ jobs = [j \in JobIds |-> "none"]
    /\ made = [j \in JobIds |-> 0]
    /\ pc = [j \in JobIds |-> "idle"]
    /\ outcome = [j \in JobIds |-> NoOutcome]
    /\ todo = [j \in JobIds |-> <<>>]
    /\ status = "running"
    /\ results = [n \in Nodes |-> "none"]
    /\ lock = NoJob
    /\ failing = {}
    /\ recorded = {}
    /\ cacheEvents = {}
    /\ announced = 0
    /\ faults = 0

Init == starting = EntryNodes /\ Created

Goto(j, label) == pc' = [pc EXCEPT ![j] = label]
KeepWork == UNCHANGED <<outcome, todo>>

Fault(kind) ==
    /\ kind \in Faults
    /\ faults < MaxFaults
    /\ faults' = faults + 1

-----------------------------------------------------------------------------
(***************************************************************************)
(* enqueueWorkflow, after createExecution: one awaited add per entry node. *)
(***************************************************************************)
EnqueueEntry(n) ==
    /\ n \in starting
    /\ starting' = starting \ {n}
    /\ jobs' = AddJob(jobs, <<n, "manual">>, "waiting")
    /\ UNCHANGED <<made, workVars, storeVars, lock, listenerVars, observed>>

\* The process dies, or an add fails, with some entry nodes not enqueued.
AbandonStart ==
    /\ starting # {}
    /\ Fault("crash")
    /\ starting' = {}
    /\ UNCHANGED <<queueVars, workVars, storeVars, lock, listenerVars,
                   announced>>

-----------------------------------------------------------------------------
(***************************************************************************)
(* How a worker leaves a job.                                              *)
(***************************************************************************)
Leave(j) ==
    /\ pc' = [pc EXCEPT ![j] = "idle"]
    /\ outcome' = [outcome EXCEPT ![j] = NoOutcome]
    /\ todo' = [todo EXCEPT ![j] = <<>>]

\* The processor returns a result: BullMQ stores it and emits 'completed'.
Finish(j, result) ==
    /\ Leave(j)
    /\ jobs' = SetJob(jobs, j, "completed")
    /\ cacheEvents' = cacheEvents \cup {<<Node(j), result>>}
    /\ UNCHANGED <<made, failing, recorded>>

\* The processor throws: BullMQ retries, or gives the job up and emits the
\* 'failed' event with attemptsMade = attempts.
FailAttempt(j) ==
    /\ Leave(j)
    /\ made' = [made EXCEPT ![j] = @ + 1]
    /\ jobs' = SetJob(jobs, j, AfterFailure(made[j], MaxAttempts))
    /\ failing' = IF AfterFailure(made[j], MaxAttempts) = "failed"
                  THEN failing \cup {j} ELSE failing
    /\ UNCHANGED <<recorded, cacheEvents>>

\* What the code reads as job.attemptsMade while it runs the job: BullMQ counts an
\* attempt when it has failed.
AttemptsMade(j) == made[j]

\* The branch of handleExecutionError that turns the error into a success.
Recovers(j) ==
    /\ Node(j) \in ContinueOnFail \ DelayNodes
    /\ outcome[j].kind # "recovered"
    /\ AttemptsMade(j) >= MaxAttempts

Recover(j) ==
    /\ Goto(j, "store")
    /\ outcome' = [outcome EXCEPT ![j] = Recovered(Node(j))]
    /\ todo' = [todo EXCEPT ![j] = <<>>]
    /\ UNCHANGED <<queueVars, listenerVars>>

\* handleExecutionError
HandleExecutionError(j) ==
    \/ Recovers(j) /\ Recover(j)
    \/ ~Recovers(j) /\ FailAttempt(j)

\* RateLimitError: BullMQ puts the job back and counts no attempt, and the 'failed'
\* listener lets it pass.
MoveLimitedBack(j) ==
    /\ Leave(j)
    /\ jobs' = SetJob(jobs, j, "waiting")
    /\ UNCHANGED <<made, listenerVars>>

HandleRateLimit(j) ==
    \/ Recovers(j) /\ Recover(j)
    \/ ~Recovers(j) /\ MoveLimitedBack(j)

-----------------------------------------------------------------------------
(***************************************************************************)
(* NodeProcessor.routeNodeExecution                                        *)
(***************************************************************************)
TakeJob(j) ==
    /\ jobs[j] = "waiting"
    /\ Cardinality(JobsIn(jobs, {"active"})) < Concurrency
    /\ jobs' = SetJob(jobs, j, "active")
    /\ Goto(j, "route")
    /\ KeepWork
    /\ UNCHANGED <<starting, made, storeVars, lock, listenerVars, observed>>

\* Wrong: no idempotency check.
RouteAlways(j) ==
    /\ pc[j] = "route"
    /\ Goto(j, "state")
    /\ KeepWork
    /\ UNCHANGED <<queueVars, listenerVars>>
    /\ UNCHANGED <<starting, storeVars, lock, observed>>

\* Idempotency check: a resolved node returns its stored result, and neither
\* its children nor the completion of the workflow are looked at again.
CheckIdempotency(j) ==
    /\ pc[j] = "route"
    /\ \/ /\ Resolved(results[Node(j)])
          /\ Finish(j, results[Node(j)])
       \/ /\ ~Resolved(results[Node(j)])
          /\ Goto(j, "state")
          /\ KeepWork
          /\ UNCHANGED <<queueVars, listenerVars>>
    /\ UNCHANGED <<starting, storeVars, lock, observed>>

\* Wrong: a job of a paused execution is given up instead of put off.
GiveUpPaused(j) == Finish(j, "failed")

\* job.moveToDelayed and DelayedError: no attempt is counted.
MoveToDelayed(j) ==
    /\ Leave(j)
    /\ jobs' = SetJob(jobs, j, "delayed")
    /\ UNCHANGED <<made, listenerVars>>

Handler(j) ==
    CASE Node(j) \notin DelayNodes -> "execute"
      [] Node(j) \in DelayNodes /\ ~IsResumed(j) -> "schedule"
      [] Node(j) \in DelayNodes /\ IsResumed(j) -> "resume"

\* Wrong: the status is looked at only for a pause.
CheckPauseOnly(j) ==
    /\ pc[j] = "state"
    /\ \/ /\ status = "paused"
          /\ MoveToDelayed(j)
       \/ /\ status # "paused"
          /\ Goto(j, Handler(j))
          /\ KeepWork
          /\ UNCHANGED <<queueVars, listenerVars>>
    /\ UNCHANGED <<starting, storeVars, lock, observed>>

\* The status check, and for a delay node the check of its duration.
CheckExecutionState(j) ==
    /\ pc[j] = "state"
    /\ \/ /\ status = "cancelled"
          /\ Finish(j, "failed")
       \/ /\ status = "paused"
          /\ MoveToDelayed(j)
       \/ /\ status \notin {"cancelled", "paused"}
          /\ Node(j) \in InvalidDelays
          /\ Finish(j, "failed")
       \/ /\ status \notin {"cancelled", "paused"}
          /\ Node(j) \notin InvalidDelays
          /\ Goto(j, Handler(j))
          /\ KeepWork
          /\ UNCHANGED <<queueVars, listenerVars>>
    /\ UNCHANGED <<starting, storeVars, lock, observed>>

-----------------------------------------------------------------------------
(***************************************************************************)
(* executeRegularNode                                                      *)
(***************************************************************************)
ExecuteNode(j) ==
    /\ pc[j] = "execute"
    /\ \E answer \in Behaviour[Node(j)] :
          \/ /\ answer.kind = "throw"
             /\ HandleExecutionError(j)
          \/ /\ answer.kind = "limited"
             /\ HandleRateLimit(j)
          \/ /\ answer.kind \notin {"throw", "limited"}
             /\ Goto(j, "store")
             /\ outcome' = [outcome EXCEPT ![j] = answer]
             /\ UNCHANGED <<todo, queueVars, listenerVars>>
    /\ UNCHANGED <<starting, storeVars, lock, observed>>

\* checkAndEnqueueChildren(n, next) visits the children in the order of
\* node.outputs; a child outside next is skipped instead of enqueued.
Visits(n, next) ==
    [i \in DOMAIN Outputs[n] |->
        [node |-> Outputs[n][i], run |-> Outputs[n][i] \in next]]

ResultOf(answer) == IF answer.kind = "failure" THEN "failed" ELSE "success"

StoreResult(j) ==
    /\ pc[j] = "store"
    /\ results' = [results EXCEPT ![Node(j)] = ResultOf(outcome[j])]
    /\ \/ /\ outcome[j].kind = "failure"
          /\ Goto(j, "fail")
          /\ UNCHANGED todo
       \/ /\ outcome[j].kind # "failure"
          /\ Goto(j, "children")
          /\ todo' = [todo EXCEPT ![j] = Visits(Node(j), outcome[j].next)]
    /\ UNCHANGED <<starting, queueVars, outcome, status, lock, listenerVars,
                   observed>>

\* handleWorkflowError after a result with success: false.
FailWorkflow(j) ==
    /\ pc[j] = "fail"
    /\ status' = SetExecutionStatus(Guarded, status, "failed")
    /\ Finish(j, "failed")
    /\ UNCHANGED <<starting, results, lock, observed>>

-----------------------------------------------------------------------------
(***************************************************************************)
(* processDelayNode: the first job schedules the second, which completes   *)
(* the node.                                                               *)
(***************************************************************************)
ScheduleResume(j) ==
    /\ pc[j] = "schedule"
    /\ jobs' = AddJob(jobs, <<Node(j), "resumed">>, "delayed")
    /\ Goto(j, "scheduled")
    /\ KeepWork
    /\ UNCHANGED <<starting, made, storeVars, lock, listenerVars, observed>>

\* Wrong: the listener caches the answer of the first job as the node's result.
ReturnCached(j) ==
    /\ pc[j] = "scheduled"
    /\ Finish(j, "success")
    /\ UNCHANGED <<starting, storeVars, lock, observed>>

\* The result carries data.delayed, which the result-cache listener ignores.
ReturnDelayed(j) ==
    /\ pc[j] = "scheduled"
    /\ jobs' = SetJob(jobs, j, "completed")
    /\ Leave(j)
    /\ UNCHANGED <<starting, made, storeVars, lock, listenerVars, observed>>

ResumeDelay(j) ==
    /\ pc[j] = "resume"
    /\ \/ /\ status = "cancelled"
          /\ Finish(j, "failed")
       \/ /\ status # "cancelled"
          /\ Goto(j, "store")
          /\ outcome' = [outcome EXCEPT
                ![j] = [kind |-> "success", next |-> Children(Node(j))]]
          /\ UNCHANGED <<todo, queueVars, listenerVars>>
    /\ UNCHANGED <<starting, storeVars, lock, observed>>

-----------------------------------------------------------------------------
(***************************************************************************)
(* checkAndEnqueueChildren and skipNode.  The recursion of skipNode into   *)
(* checkAndEnqueueChildren is the worker's stack: the children of a        *)
(* skipped node are visited before the rest of the list.                   *)
(***************************************************************************)
\* Wrong: one parent is enough.
SomeParentResolved(n) == \E p \in Inputs[n] : Resolved(results[p])

\* Wrong: a skipped parent holds its children up.
ParentsSucceeded(n) == \A p \in Inputs[n] : results[p] = "success"

ParentsResolved(n) == \A p \in Inputs[n] : Resolved(results[p])

SkipChild(j) ==
    /\ pc[j] = "children"
    /\ todo[j] # <<>>
    /\ ~Head(todo[j]).run
    /\ LET child == Head(todo[j]).node IN
          /\ results' = [results EXCEPT ![child] = "skipped"]
          /\ todo' = [todo EXCEPT
                ![j] = Visits(child, Children(child)) \o Tail(todo[j])]
    /\ UNCHANGED <<starting, queueVars, pc, outcome, status, lock, listenerVars,
                   observed>>

\* getNodeResults of the child's parents.
VisitChild(j) ==
    /\ pc[j] = "children"
    /\ todo[j] # <<>>
    /\ Head(todo[j]).run
    /\ \/ /\ ParentsResolved(Head(todo[j]).node)
          /\ Goto(j, "enqueue")
          /\ UNCHANGED todo
       \/ /\ ~ParentsResolved(Head(todo[j]).node)
          /\ todo' = [todo EXCEPT ![j] = Tail(@)]
          /\ UNCHANGED pc
    /\ UNCHANGED <<starting, queueVars, outcome, storeVars, lock, listenerVars,
                   observed>>

EnqueueChild(j) ==
    /\ pc[j] = "enqueue"
    /\ jobs' = AddJob(jobs, <<Head(todo[j]).node, "node">>, "waiting")
    /\ todo' = [todo EXCEPT ![j] = Tail(@)]
    /\ Goto(j, "children")
    /\ UNCHANGED <<starting, made, outcome, storeVars, lock, listenerVars,
                   observed>>

ChildrenDone(j) ==
    /\ pc[j] = "children"
    /\ todo[j] = <<>>
    /\ Goto(j, "lock")
    /\ KeepWork
    /\ UNCHANGED <<starting, queueVars, storeVars, lock, listenerVars, observed>>

-----------------------------------------------------------------------------
(***************************************************************************)
(* checkWorkflowCompletion, under the lock completion:<execution>.         *)
(***************************************************************************)
\* Wrong: SET without NX.
TakeLockOver(j) ==
    /\ pc[j] = "lock"
    /\ lock' = j
    /\ Goto(j, "locked")
    /\ KeepWork
    /\ UNCHANGED <<starting, queueVars, storeVars, listenerVars, observed>>

\* SET NX: a worker that does not get the lock gives the check up.
AcquireLock(j) ==
    /\ pc[j] = "lock"
    /\ \/ /\ lock = NoJob
          /\ lock' = j
          /\ Goto(j, "locked")
          /\ KeepWork
          /\ UNCHANGED <<queueVars, listenerVars>>
       \/ /\ lock # NoJob
          /\ Finish(j, "success")
          /\ UNCHANGED lock
    /\ UNCHANGED <<starting, storeVars, observed>>

\* Wrong: the status is not checked again inside the lock.
SkipStatusCheck(j) ==
    /\ pc[j] = "locked"
    /\ Goto(j, "count")
    /\ KeepWork
    /\ UNCHANGED <<starting, queueVars, storeVars, lock, listenerVars, observed>>

ReadStatus(j) ==
    /\ pc[j] = "locked"
    /\ Goto(j, IF status \in Terminal THEN "release" ELSE "count")
    /\ KeepWork
    /\ UNCHANGED <<starting, queueVars, storeVars, lock, listenerVars, observed>>

\* Wrong: the worker takes itself for the pending node.
CountPendingOffByOne(j) ==
    /\ pc[j] = "count"
    /\ Goto(j, IF PendingNodeCount(results) <= 1 THEN "complete" ELSE "release")
    /\ KeepWork
    /\ UNCHANGED <<starting, queueVars, storeVars, lock, listenerVars, observed>>

CountPending(j) ==
    /\ pc[j] = "count"
    /\ Goto(j, IF PendingNodeCount(results) = 0 THEN "complete" ELSE "release")
    /\ KeepWork
    /\ UNCHANGED <<starting, queueVars, storeVars, lock, listenerVars, observed>>

\* The event is emitted whether or not the store took the status.
CompleteWorkflow(j) ==
    /\ pc[j] = "complete"
    /\ status' = SetExecutionStatus(Guarded, status, "completed")
    /\ announced' = announced + 1
    /\ Goto(j, "release")
    /\ KeepWork
    /\ UNCHANGED <<starting, queueVars, results, lock, listenerVars, faults>>

\* The release script deletes the key only under the worker's own token.
ReleaseLock(j) ==
    /\ pc[j] = "release"
    /\ lock' = IF lock = j THEN NoJob ELSE lock
    /\ Finish(j, "success")
    /\ UNCHANGED <<starting, storeVars, observed>>

\* The key's TTL runs out: after a crash of its holder, or under a holder
\* that needs longer than DEFAULT_LOCK_TIMEOUT_MS (the fault "overrun").
LockExpires ==
    /\ lock # NoJob
    /\ \/ /\ pc[lock] \notin InLock
          /\ UNCHANGED faults
       \/ /\ pc[lock] \in InLock
          /\ Fault("overrun")
    /\ lock' = NoJob
    /\ UNCHANGED <<starting, queueVars, workVars, storeVars, listenerVars,
                   announced>>

-----------------------------------------------------------------------------
(***************************************************************************)
(* The queue's clock, the listeners, and the faults.                       *)
(***************************************************************************)
\* A backoff, a delay node's duration or a paused job's delay is over.
DelayElapses(j) ==
    /\ jobs[j] = "delayed"
    /\ jobs' = SetJob(jobs, j, "waiting")
    /\ UNCHANGED <<starting, made, workVars, storeVars, lock, listenerVars,
                   observed>>

\* The workers' 'failed' listener: handlePermanentFailure (or moveToDLQ and
\* updateNodeResult), then handleWorkflowError.
RecordPermanentFailure(j) ==
    /\ j \in failing
    /\ failing' = failing \ {j}
    /\ recorded' = recorded \cup {j}
    /\ results' = [results EXCEPT ![Node(j)] = "failed"]
    /\ UNCHANGED <<starting, queueVars, workVars, status, lock, cacheEvents,
                   observed>>

FailExecution(j) ==
    /\ j \in recorded
    /\ recorded' = recorded \ {j}
    /\ status' = SetExecutionStatus(Guarded, status, "failed")
    /\ UNCHANGED <<starting, queueVars, workVars, results, lock, failing,
                   cacheEvents, observed>>

\* The result-cache listener: cacheNodeResult writes the returned value, as
\* late as the event and the lookup of the job arrive.
CacheResult(event) ==
    /\ event \in cacheEvents
    /\ cacheEvents' = cacheEvents \ {event}
    /\ results' = [results EXCEPT ![event[1]] = event[2]]
    /\ UNCHANGED <<starting, queueVars, workVars, status, lock, failing,
                   recorded, observed>>

\* The worker dies or loses its job: BullMQ finds the job stalled and puts it
\* back; a completion lock the worker held stays until its TTL.
Crash(j) ==
    /\ pc[j] # "idle"
    /\ Fault("crash")
    /\ Leave(j)
    /\ jobs' = SetJob(jobs, j, "waiting")
    /\ UNCHANGED <<starting, made, storeVars, lock, listenerVars, announced>>

\* An await throws: the store, Redis or the queue is unreachable for a moment.
\* The finally block releases the lock unless the release is what failed.
Throws(j) ==
    /\ pc[j] \notin {"idle", "execute"}
    /\ Fault("error")
    /\ \/ /\ pc[j] \in InTry
          /\ HandleExecutionError(j)
       \/ /\ pc[j] \notin InTry
          /\ FailAttempt(j)
    /\ lock' = IF pc[j] \in InLock \ {"release"} /\ lock = j THEN NoJob ELSE lock
    /\ UNCHANGED <<starting, storeVars, announced>>

\* The listener's process dies, or a write of the listener fails: its catch
\* block only logs.
LoseFailure(j) ==
    /\ j \in failing \cup recorded
    /\ \/ Fault("crash")
       \/ Fault("error")
    /\ failing' = failing \ {j}
    /\ recorded' = recorded \ {j}
    /\ UNCHANGED <<starting, queueVars, workVars, storeVars, lock, cacheEvents,
                   announced>>

-----------------------------------------------------------------------------
Work(j) ==
    \/ TakeJob(j) \/ CheckIdempotency(j) \/ CheckExecutionState(j)
    \/ ExecuteNode(j) \/ ScheduleResume(j) \/ ReturnDelayed(j) \/ ResumeDelay(j)
    \/ StoreResult(j) \/ FailWorkflow(j)
    \/ SkipChild(j) \/ VisitChild(j) \/ EnqueueChild(j) \/ ChildrenDone(j)
    \/ AcquireLock(j) \/ ReadStatus(j) \/ CountPending(j) \/ CompleteWorkflow(j)
    \/ ReleaseLock(j)

Listen(j) == RecordPermanentFailure(j) \/ FailExecution(j)

Fail(j) == Crash(j) \/ Throws(j) \/ LoseFailure(j)

Next ==
    \/ \E n \in Nodes : EnqueueEntry(n)
    \/ AbandonStart
    \/ \E j \in JobIds : Work(j) \/ DelayElapses(j) \/ Listen(j) \/ Fail(j)
    \/ \E event \in cacheEvents : CacheResult(event)
    \/ LockExpires

Spec == Init /\ [][Next]_vars

(***************************************************************************)
(* Fairness: enqueueWorkflow runs on, the workers keep taking and running  *)
(* jobs (BullMQ serves the waiting list in order), timers fire, events are *)
(* delivered, a dead holder's key expires.  Nothing is assumed of faults   *)
(* or of a lock's expiry under a live holder.                              *)
(***************************************************************************)
Fairness ==
    /\ \A n \in Nodes : WF_vars(EnqueueEntry(n))
    /\ \A j \in JobIds : WF_vars(Work(j)) /\ WF_vars(Listen(j))
    /\ \A j \in JobIds : WF_vars(DelayElapses(j))
    /\ WF_vars(\E event \in cacheEvents : CacheResult(event))
    /\ WF_vars(LockExpires /\ pc[lock] \notin InLock)

FairSpec == Spec /\ Fairness

-----------------------------------------------------------------------------
(***************************************************************************)
(* Properties                                                              *)
(***************************************************************************)
Visit == [node : Nodes, run : BOOLEAN]
Outcome == [kind : {"none", "success", "failure", "recovered"},
            next : SUBSET Nodes]

\* Every variable stays in its type; in particular no job is attempted more
\* than job.opts.attempts times.
TypeOK ==
    /\ starting \subseteq EntryNodes
    /\ jobs \in [JobIds -> JobStates]
    /\ made \in [JobIds -> 0 .. MaxAttempts]
    /\ pc \in [JobIds -> Labels]
    /\ outcome \in [JobIds -> Outcome]
    /\ todo \in [JobIds -> Seq(Visit)]
    /\ status \in Statuses
    /\ results \in [Nodes -> ResultKinds]
    /\ lock \in JobIds \cup {NoJob}
    /\ failing \subseteq JobIds
    /\ recorded \subseteq JobIds
    /\ cacheEvents \subseteq Nodes \X (ResultKinds \ {"none"})
    /\ announced \in Nat
    /\ faults \in Nat

\* checkWorkflowCompletion: an execution is 'completed' only when every node
\* has a result, whatever happened to the lock in between.
CompletedHasAllResults ==
    status = "completed" => \A n \in Nodes : results[n] # "none"

\* checkAndEnqueueChildren: a child's job exists only when each of its parents
\* has a result, although the parents are read before the job is added.
ParentsBeforeChildren ==
    \A n \in Nodes :
        jobs[<<n, "node">>] # "none" => \A p \in Inputs[n] : results[p] # "none"

\* The completion lock: as long as no holder outlives the TTL, at most one
\* worker is between acquire and release.
LockExclusive ==
    \A i, j \in JobIds : pc[i] \in InLock /\ pc[j] \in InLock => i = j

\* "Only one worker will reach this point": the 'completed' event of an
\* execution is emitted at most once.
CompletedOnce == announced <= 1

Quiet ==
    /\ starting = {}
    /\ \A j \in JobIds : jobs[j] \in {"none", "completed", "failed"}
    /\ failing = {} /\ recorded = {}

\* The workflows the engine can walk to their end: delays have a duration, the
\* nodes without parents are entry nodes, inputs and outputs list the same edges,
\* and the graph is well founded: a set of nodes that contains every node whose
\* parents it contains is the set of all nodes.
WorkflowIsValid ==
    /\ InvalidDelays = {}
    /\ \A n \in Nodes : Inputs[n] = {} => n \in EntryNodes
    /\ \A n \in Nodes : \A p \in Inputs[n] : n \in Children(p)
    /\ \A S \in SUBSET Nodes :
          (\A n \in Nodes : Inputs[n] \subseteq S => n \in S) => S = Nodes

\* The joins: when nothing is left to run, nothing failed and no fault has
\* happened, every node was executed or skipped.  The last parent of a node to
\* finish must see the results of all the others, in any order of the workers'
\* reads and writes.
QuietMeansResolved ==
    Quiet /\ status = "running" /\ faults = 0 =>
        \A n \in Nodes : Resolved(results[n])

\* Drizzle's WHERE status = 'running': a terminal status is never overwritten.
TerminalIsFinal == [][(status \in Terminal) => (status' = status)]_vars

\* Executors select all children of their nodes, and entry nodes are nobody's
\* children: a regular node then has one job at most.
NobodyBranches ==
    /\ \A n \in Nodes : \A answer \in Behaviour[n] :
          answer.kind = "success" => Children(n) \subseteq answer.next
    /\ \A m, n \in Nodes : n \in Children(m) => n \notin EntryNodes

\* Idempotency check: retries and crashes notwithstanding, an executor is not
\* called again for a node whose success is stored.
NoReexecution ==
    [][\A j \in JobIds :
          pc[j] = "execute" /\ pc'[j] = "store" => ~Resolved(results[Node(j)])]_vars

\* "When multiple nodes complete simultaneously, the workflow status is updated
\* to 'completed' exactly once": without faults or failures an execution whose
\* nodes all have a result is eventually completed.
EventuallyCompleted ==
    (\A n \in Nodes : Resolved(results[n])) ~> (status = "completed")

\* "With continueOnFail: true, the workflow continues even after all retries fail":
\* a throw of such a node never ends as a failed result.  (The code breaks it: the
\* attempts it reads never come up to job.opts.attempts, see NeverRecovers.)
ContinueOnFailContained ==
    faults = 0 => \A n \in ContinueOnFail : results[n] # "failed"

\* The cache listener ignores the answer of a delay node's first job: the first
\* result of the node is no success before the job that waits for its duration
\* has been taken.
DelayIsWaitedFor ==
    [][\A n \in DelayNodes :
          results[n] = "none" /\ results'[n] = "success"
             => jobs[<<n, "resumed">>] \in {"active", "completed"}]_vars

\* The refinement: what the workers and listeners do to the store's row and
\* results is what the abstract execution allows.
Promised == INSTANCE Execution
    WITH Nodes <- Nodes, Guarded <- Guarded, status <- status, results <- results
ImplementsExecution == Promised!Spec

=============================================================================
