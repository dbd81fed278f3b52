------------------------- MODULE WorkflowRunProofs -------------------------
(***************************************************************************)
(* Theorems about WorkflowRun, for every workflow, every number of         *)
(* attempts and slots, both stores and any faults.                         *)
(***************************************************************************)
EXTENDS WorkflowRun, TLAPS, FiniteSetTheorems

(***************************************************************************)
(* Lemmas about the operators the actions are built from.                  *)
(***************************************************************************)

\* Queue.add changes at most the job it is given, and only one the queue does
\* not know.
LEMMA AddJobFact ==
    ASSUME jobs \in [JobIds -> JobStates], NEW j \in JobIds, NEW s \in JobStates
    PROVE  /\ AddJob(jobs, j, s) \in [JobIds -> JobStates]
           /\ \A i \in JobIds :
                 \/ AddJob(jobs, j, s)[i] = jobs[i]
                 \/ i = j /\ jobs[i] = "none" /\ AddJob(jobs, j, s)[i] = s
    BY DEF AddJob

\* checkAndEnqueueChildren visits nodes of the workflow.
LEMMA VisitsType ==
    ASSUME NEW n \in Nodes, NEW next
    PROVE  Visits(n, next) \in Seq(Visit)
<1>1. Outputs[n] \in Seq(Nodes)
    BY WorkflowAssumption
<1>2. DOMAIN Outputs[n] = 1 .. Len(Outputs[n]) /\ Len(Outputs[n]) \in Nat
    BY <1>1
<1>3. \A i \in 1 .. Len(Outputs[n]) : Outputs[n][i] \in Nodes
    BY <1>1
<1>4. Visits(n, next) \in [1 .. Len(Outputs[n]) -> Visit]
    BY <1>2, <1>3 DEF Visits, Visit
<1> QED
    BY <1>2, <1>4

\* A node of the workflow has children of the workflow.
LEMMA ChildrenType ==
    ASSUME NEW n \in Nodes
    PROVE  Children(n) \in SUBSET Nodes
<1>1. Outputs[n] \in Seq(Nodes)
    BY WorkflowAssumption
<1> QED
    BY <1>1 DEF Children, Range

-----------------------------------------------------------------------------
(***************************************************************************)
(* Type correctness.  TypeOK bounds the attempts of a job, which holds     *)
(* because only a job with attempts left is ever active.                   *)
(***************************************************************************)
WorkerHasJob == \A j \in JobIds : pc[j] # "idle" => jobs[j] = "active"
AttemptsLeft == \A j \in JobIds : jobs[j] # "failed" => made[j] < MaxAttempts
ChildToEnqueue == \A j \in JobIds : pc[j] = "enqueue" => todo[j] # << >>

TypeInv == TypeOK /\ WorkerHasJob /\ AttemptsLeft /\ ChildToEnqueue

\* The part of TypeInv that taking, leaving and retrying a job disturbs.
JobsInv ==
    /\ jobs \in [JobIds -> JobStates]
    /\ made \in [JobIds -> 0 .. MaxAttempts]
    /\ pc \in [JobIds -> Labels]
    /\ outcome \in [JobIds -> Outcome]
    /\ todo \in [JobIds -> Seq(Visit)]
    /\ failing \subseteq JobIds
    /\ recorded \subseteq JobIds
    /\ cacheEvents \subseteq Nodes \X (ResultKinds \ {"none"})
    /\ WorkerHasJob
    /\ AttemptsLeft
    /\ ChildToEnqueue

StoreInv ==
    /\ starting \subseteq EntryNodes
    /\ status \in Statuses
    /\ results \in [Nodes -> ResultKinds]
    /\ lock \in JobIds \cup {NoJob}
    /\ announced \in Nat
    /\ faults \in Nat

LEMMA TypeInvParts == TypeInv <=> JobsInv /\ StoreInv
    BY DEF TypeInv, TypeOK, JobsInv, StoreInv

LEMMA InitTypeInv == Init => TypeInv
<1> SUFFICES ASSUME Init PROVE TypeInv
    OBVIOUS
<1> USE EngineAssumption
<1>1. NoOutcome \in Outcome
    BY DEF NoOutcome, Outcome
<1>2. TypeOK
    BY <1>1 DEF Init, Created, TypeOK, JobStates, Labels, Statuses, ResultKinds, EntryNodes
<1>3. WorkerHasJob /\ AttemptsLeft /\ ChildToEnqueue
    BY DEF Init, Created, WorkerHasJob, AttemptsLeft, ChildToEnqueue
<1> QED
    BY <1>2, <1>3 DEF TypeInv

\* Leaving a job keeps what the worker holds for the other jobs.
LEMMA LeaveType ==
    ASSUME JobsInv, NEW j \in JobIds, Leave(j)
    PROVE  /\ pc' \in [JobIds -> Labels]
           /\ outcome' \in [JobIds -> Outcome]
           /\ todo' \in [JobIds -> Seq(Visit)]
           /\ ChildToEnqueue'
           /\ \A i \in JobIds : pc'[i] = IF i = j THEN "idle" ELSE pc[i]
<1>1. NoOutcome \in Outcome /\ << >> \in Seq(Visit) /\ "idle" \in Labels
    BY DEF NoOutcome, Outcome, Labels
<1> QED
    BY <1>1 DEF Leave, JobsInv, ChildToEnqueue

LEMMA FinishType ==
    ASSUME JobsInv, NEW j \in JobIds, NEW result \in ResultKinds \ {"none"},
           pc[j] # "idle", Finish(j, result)
    PROVE  JobsInv'
<1>1. Node(j) \in Nodes
    BY DEF Node, JobIds
<1>2. Leave(j)
    BY DEF Finish
<1>3. /\ jobs' \in [JobIds -> JobStates]
      /\ cacheEvents' \subseteq Nodes \X (ResultKinds \ {"none"})
    BY <1>1 DEF Finish, JobsInv, SetJob, JobStates
<1>4. WorkerHasJob' /\ AttemptsLeft'
    BY <1>2, LeaveType DEF Finish, JobsInv, SetJob, WorkerHasJob, AttemptsLeft
<1> QED
    BY <1>2, <1>3, <1>4, LeaveType DEF Finish, JobsInv

LEMMA FailAttemptType ==
    ASSUME JobsInv, NEW j \in JobIds, pc[j] # "idle", FailAttempt(j)
    PROVE  JobsInv'
<1> USE EngineAssumption
<1>1. Leave(j) /\ jobs[j] = "active" /\ made[j] < MaxAttempts
    BY DEF FailAttempt, JobsInv, WorkerHasJob, AttemptsLeft
<1>2. AfterFailure(made[j], MaxAttempts) \in {"delayed", "failed"}
    BY DEF AfterFailure
<1>3. jobs' \in [JobIds -> JobStates]
    BY <1>2 DEF FailAttempt, JobsInv, SetJob, JobStates
<1>4. made' \in [JobIds -> 0 .. MaxAttempts]
    BY <1>1 DEF FailAttempt, JobsInv
<1>5. WorkerHasJob'
    BY <1>1, LeaveType DEF FailAttempt, JobsInv, SetJob, WorkerHasJob
<1>6. AttemptsLeft'
    BY <1>1 DEF FailAttempt, JobsInv, SetJob, AttemptsLeft, AfterFailure
<1>7. failing' \subseteq JobIds
    BY DEF FailAttempt, JobsInv
<1> QED
    BY <1>1, <1>3, <1>4, <1>5, <1>6, <1>7, LeaveType DEF FailAttempt, JobsInv

LEMMA HandleExecutionErrorType ==
    ASSUME JobsInv, NEW j \in JobIds, pc[j] # "idle",
           HandleExecutionError(j) \/ HandleRateLimit(j)
    PROVE  JobsInv'
<1>1. CASE Recover(j)
  <2>1. Node(j) \in Nodes
      BY DEF Node, JobIds
  <2>2. Recovered(Node(j)) \in Outcome
      BY <2>1, ChildrenType DEF Recovered, Outcome
  <2>3. << >> \in Seq(Visit) /\ "store" \in Labels
      BY DEF Labels
  <2> QED
      BY <1>1, <2>2, <2>3 DEF Recover, Goto, JobsInv, queueVars, listenerVars,
                              WorkerHasJob, AttemptsLeft, ChildToEnqueue
<1>2. CASE FailAttempt(j)
    BY <1>2, FailAttemptType
<1>3. CASE MoveLimitedBack(j)
    BY <1>3, LeaveType
       DEF MoveLimitedBack, JobsInv, SetJob, JobStates, listenerVars, WorkerHasJob, AttemptsLeft
<1> QED
    BY <1>1, <1>2, <1>3 DEF HandleExecutionError, HandleRateLimit

-----------------------------------------------------------------------------
\* A worker's step within a job: the label moves on, the queue stays.
LEMMA GotoType ==
    ASSUME JobsInv, NEW j \in JobIds, pc[j] # "idle", NEW label \in Labels \ {"enqueue"},
           Goto(j, label), UNCHANGED <<queueVars, listenerVars>>,
           outcome' \in [JobIds -> Outcome], todo' \in [JobIds -> Seq(Visit)],
           \A i \in JobIds : i = j \/ todo'[i] = todo[i]
    PROVE  JobsInv'
    BY DEF JobsInv, Goto, queueVars, listenerVars, WorkerHasJob, AttemptsLeft,
           ChildToEnqueue

\* Adding a job disturbs no other job.
LEMMA AddJobType ==
    ASSUME JobsInv, NEW j \in JobIds, NEW s \in JobStates \ {"failed", "active"},
           jobs' = AddJob(jobs, j, s),
           UNCHANGED <<made, workVars, listenerVars>>
    PROVE  JobsInv'
<1>1. jobs \in [JobIds -> JobStates]
    BY DEF JobsInv
<1> QED
    BY <1>1, AddJobFact DEF JobsInv, workVars, listenerVars, WorkerHasJob, AttemptsLeft,
                            ChildToEnqueue

LEMMA WorkType ==
    ASSUME JobsInv, StoreInv, NEW j \in JobIds, Work(j)
    PROVE  JobsInv'
<1>n. Node(j) \in Nodes
    BY DEF Node, JobIds
<1>1. CASE TakeJob(j)
  <2>1. "route" \in Labels /\ "active" \in JobStates
      BY DEF Labels, JobStates
  <2> QED
      BY <1>1, <2>1 DEF TakeJob, Goto, KeepWork, SetJob, JobsInv, listenerVars,
                        WorkerHasJob, AttemptsLeft, ChildToEnqueue
<1>2. CASE CheckIdempotency(j)
  <2>1. pc[j] # "idle" /\ "state" \in Labels \ {"enqueue"}
      BY <1>2 DEF CheckIdempotency, Labels
  <2>2. CASE Resolved(results[Node(j)]) /\ Finish(j, results[Node(j)])
    <3>1. results[Node(j)] \in ResultKinds \ {"none"}
        BY <2>2, <1>n DEF Resolved, ResultKinds
    <3> QED
        BY <2>1, <2>2, <3>1, FinishType
  <2>3. CASE Goto(j, "state") /\ KeepWork /\ UNCHANGED <<queueVars, listenerVars>>
      BY <2>1, <2>3, GotoType DEF KeepWork, JobsInv
  <2> QED
      BY <1>2, <2>2, <2>3 DEF CheckIdempotency
<1>3. CASE CheckExecutionState(j)
  <2>1. pc[j] # "idle" /\ Handler(j) \in Labels \ {"enqueue"} /\ "failed" \in ResultKinds \ {"none"}
      BY <1>3 DEF CheckExecutionState, Labels, Handler, ResultKinds
  <2>2. CASE Finish(j, "failed")
      BY <2>1, <2>2, FinishType
  <2>3. CASE MoveToDelayed(j)
    <3>1. Leave(j)
        BY <2>3 DEF MoveToDelayed
    <3> QED
        BY <2>1, <2>3, <3>1, LeaveType
           DEF MoveToDelayed, JobsInv, SetJob, JobStates, listenerVars,
               WorkerHasJob, AttemptsLeft
  <2>4. CASE Goto(j, Handler(j)) /\ KeepWork /\ UNCHANGED <<queueVars, listenerVars>>
      BY <2>1, <2>4, GotoType DEF KeepWork, JobsInv
  <2> QED
      BY <1>3, <2>2, <2>3, <2>4 DEF CheckExecutionState
<1>4. CASE ExecuteNode(j)
  <2>1. pc[j] # "idle" /\ "store" \in Labels \ {"enqueue"}
      BY <1>4 DEF ExecuteNode, Labels
  <2>2. PICK answer \in Behaviour[Node(j)] :
          \/ HandleExecutionError(j) \/ HandleRateLimit(j)
          \/ /\ answer.kind \notin {"throw", "limited"}
             /\ Goto(j, "store")
             /\ outcome' = [outcome EXCEPT ![j] = answer]
             /\ UNCHANGED <<todo, queueVars, listenerVars>>
      BY <1>4 DEF ExecuteNode
  <2>3. answer \in Answers
      BY <1>n, WorkflowAssumption
  <2>4. CASE answer.kind \notin {"throw", "limited"} /\ Goto(j, "store")
             /\ outcome' = [outcome EXCEPT ![j] = answer]
             /\ UNCHANGED <<todo, queueVars, listenerVars>>
    <3>1. answer \in Outcome
        BY <2>3, <2>4 DEF Answers, Outcome
    <3>2. /\ outcome' \in [JobIds -> Outcome] /\ todo' \in [JobIds -> Seq(Visit)]
          /\ \A i \in JobIds : i = j \/ todo'[i] = todo[i]
        BY <2>4, <3>1 DEF JobsInv
    <3> QED
        BY <2>1, <2>4, <3>2, GotoType
  <2> QED
      BY <2>1, <2>2, <2>4, HandleExecutionErrorType
<1>5. CASE ScheduleResume(j)
  <2>1. /\ pc[j] # "idle" /\ jobs[j] = "active"
        /\ "scheduled" \in Labels /\ "delayed" \in JobStates
      BY <1>5 DEF ScheduleResume, Labels, JobStates, JobsInv, WorkerHasJob
  <2>2. PICK k \in JobIds : k = <<Node(j), "resumed">>
      BY <1>n DEF JobIds
  <2>3. jobs \in [JobIds -> JobStates]
      BY DEF JobsInv
  <2>4. jobs' = AddJob(jobs, k, "delayed")
      BY <1>5, <2>2 DEF ScheduleResume
  <2>5. /\ jobs' \in [JobIds -> JobStates]
        /\ \A i \in JobIds :
              jobs'[i] = jobs[i] \/ (jobs[i] = "none" /\ jobs'[i] = "delayed")
      BY <2>1, <2>3, <2>4 DEF AddJob
  <2> QED
      BY <1>5, <2>1, <2>5 DEF ScheduleResume, Goto, KeepWork, JobsInv, listenerVars,
                              WorkerHasJob, AttemptsLeft, ChildToEnqueue
<1>6. CASE ReturnDelayed(j)
  <2>1. pc[j] # "idle" /\ Leave(j) /\ "completed" \in JobStates
      BY <1>6 DEF ReturnDelayed, JobStates
  <2> QED
      BY <1>6, <2>1, LeaveType DEF ReturnDelayed, SetJob, JobsInv, listenerVars,
                                   WorkerHasJob, AttemptsLeft, ChildToEnqueue
<1>7. CASE ResumeDelay(j)
  <2>1. pc[j] # "idle" /\ "store" \in Labels \ {"enqueue"} /\ "failed" \in ResultKinds \ {"none"}
      BY <1>7 DEF ResumeDelay, Labels, ResultKinds
  <2>2. CASE Finish(j, "failed")
      BY <2>1, <2>2, FinishType
  <2>3. CASE /\ Goto(j, "store")
             /\ outcome' = [outcome EXCEPT
                  ![j] = [kind |-> "success", next |-> Children(Node(j))]]
             /\ UNCHANGED <<todo, queueVars, listenerVars>>
    <3>1. [kind |-> "success", next |-> Children(Node(j))] \in Outcome
        BY <1>n, ChildrenType DEF Outcome
    <3>2. /\ outcome' \in [JobIds -> Outcome] /\ todo' \in [JobIds -> Seq(Visit)]
          /\ \A i \in JobIds : i = j \/ todo'[i] = todo[i]
        BY <2>3, <3>1 DEF JobsInv
    <3> QED
        BY <2>1, <2>3, <3>2, GotoType
  <2> QED
      BY <1>7, <2>2, <2>3 DEF ResumeDelay
<1>8. CASE StoreResult(j)
  <2>1. /\ pc[j] # "idle" /\ {"fail", "children"} \subseteq Labels \ {"enqueue"}
        /\ UNCHANGED <<queueVars, listenerVars, outcome>>
      BY <1>8 DEF StoreResult, Labels
  <2>2. CASE Goto(j, "fail") /\ UNCHANGED todo
      BY <2>1, <2>2, GotoType DEF JobsInv
  <2>3. CASE /\ Goto(j, "children")
             /\ todo' = [todo EXCEPT ![j] = Visits(Node(j), outcome[j].next)]
    <3>1. /\ todo' \in [JobIds -> Seq(Visit)]
          /\ \A i \in JobIds : i = j \/ todo'[i] = todo[i]
        BY <1>n, <2>3, VisitsType DEF JobsInv
    <3> QED
        BY <2>1, <2>3, <3>1, GotoType DEF JobsInv
  <2> QED
      BY <1>8, <2>2, <2>3 DEF StoreResult
<1>9. CASE FailWorkflow(j)
    BY <1>9, FinishType DEF FailWorkflow, ResultKinds
<1>10. CASE SkipChild(j)
  <2>1. todo[j] \in Seq(Visit) /\ todo[j] # << >>
      BY <1>10 DEF SkipChild, JobsInv
  <2>2. Head(todo[j]) \in Visit /\ Tail(todo[j]) \in Seq(Visit)
      BY <2>1
  <2>3. Head(todo[j]).node \in Nodes
      BY <2>2 DEF Visit
  <2>4. Visits(Head(todo[j]).node, Children(Head(todo[j]).node)) \o Tail(todo[j])
          \in Seq(Visit)
      BY <2>2, <2>3, VisitsType
  <2> QED
      BY <1>10, <2>4 DEF SkipChild, JobsInv, queueVars, listenerVars,
                         WorkerHasJob, AttemptsLeft, ChildToEnqueue
<1>11. CASE VisitChild(j)
  <2>1. todo[j] \in Seq(Visit) /\ todo[j] # << >>
      BY <1>11 DEF VisitChild, JobsInv
  <2>2. Tail(todo[j]) \in Seq(Visit) /\ "enqueue" \in Labels
      BY <2>1 DEF Labels
  <2> QED
      BY <1>11, <2>2 DEF VisitChild, Goto, JobsInv, queueVars, listenerVars,
                         WorkerHasJob, AttemptsLeft, ChildToEnqueue
<1>12. CASE EnqueueChild(j)
  <2>1. /\ pc[j] # "idle" /\ jobs[j] = "active"
        /\ "children" \in Labels /\ "waiting" \in JobStates
      BY <1>12 DEF EnqueueChild, Labels, JobStates, JobsInv, WorkerHasJob
  <2>2. todo[j] \in Seq(Visit) /\ todo[j] # << >>
      BY <1>12 DEF EnqueueChild, JobsInv, ChildToEnqueue
  <2>3. Head(todo[j]) \in Visit /\ Tail(todo[j]) \in Seq(Visit)
      BY <2>2
  <2>4. PICK k \in JobIds : k = <<Head(todo[j]).node, "node">>
      BY <2>3 DEF Visit, JobIds
  <2>5. jobs \in [JobIds -> JobStates]
      BY DEF JobsInv
  <2>6. jobs' = AddJob(jobs, k, "waiting")
      BY <1>12, <2>4 DEF EnqueueChild
  <2>7. /\ jobs' \in [JobIds -> JobStates]
        /\ \A i \in JobIds :
              jobs'[i] = jobs[i] \/ (jobs[i] = "none" /\ jobs'[i] = "waiting")
      BY <2>1, <2>5, <2>6 DEF AddJob
  <2> QED
      BY <1>12, <2>1, <2>3, <2>7
         DEF EnqueueChild, Goto, JobsInv, listenerVars,
             WorkerHasJob, AttemptsLeft, ChildToEnqueue
<1>13. CASE ChildrenDone(j)
    BY <1>13, GotoType DEF ChildrenDone, KeepWork, JobsInv, Labels
<1>14. CASE AcquireLock(j)
  <2>1. /\ pc[j] # "idle" /\ "locked" \in Labels \ {"enqueue"}
        /\ "success" \in ResultKinds \ {"none"}
      BY <1>14 DEF AcquireLock, Labels, ResultKinds
  <2>2. CASE Goto(j, "locked") /\ KeepWork /\ UNCHANGED <<queueVars, listenerVars>>
      BY <2>1, <2>2, GotoType DEF KeepWork, JobsInv
  <2>3. CASE Finish(j, "success")
      BY <2>1, <2>3, FinishType
  <2> QED
      BY <1>14, <2>2, <2>3 DEF AcquireLock
<1>15. CASE ReadStatus(j)
    BY <1>15, GotoType DEF ReadStatus, KeepWork, JobsInv, Labels
<1>16. CASE CountPending(j)
    BY <1>16, GotoType DEF CountPending, KeepWork, JobsInv, Labels
<1>17. CASE CompleteWorkflow(j)
    BY <1>17, GotoType DEF CompleteWorkflow, KeepWork, JobsInv, Labels
<1>18. CASE ReleaseLock(j)
    BY <1>18, FinishType DEF ReleaseLock, ResultKinds
<1> QED
    BY <1>1, <1>2, <1>3, <1>4, <1>5, <1>6, <1>7, <1>8, <1>9, <1>10, <1>11,
       <1>12, <1>13, <1>14, <1>15, <1>16, <1>17, <1>18 DEF Work

LEMMA NextJobs ==
    ASSUME JobsInv, StoreInv, [Next]_vars
    PROVE  JobsInv'
<1>1. CASE UNCHANGED vars
    BY <1>1 DEF vars, queueVars, workVars, listenerVars, JobsInv,
                WorkerHasJob, AttemptsLeft, ChildToEnqueue
<1>2. ASSUME NEW n \in Nodes, EnqueueEntry(n) PROVE JobsInv'
  <2>1. PICK k \in JobIds : k = <<n, "manual">>
      BY DEF JobIds
  <2>2. "waiting" \in JobStates \ {"failed", "active"}
      BY DEF JobStates
  <2>3. jobs \in [JobIds -> JobStates] /\ jobs' = AddJob(jobs, k, "waiting")
      BY <1>2, <2>1 DEF EnqueueEntry, JobsInv
  <2>4. /\ jobs' \in [JobIds -> JobStates]
        /\ \A i \in JobIds :
              jobs'[i] = jobs[i] \/ (jobs[i] = "none" /\ jobs'[i] = "waiting")
      BY <2>2, <2>3 DEF AddJob
  <2> QED
      BY <1>2, <2>4 DEF EnqueueEntry, JobsInv, workVars, listenerVars,
                        WorkerHasJob, AttemptsLeft, ChildToEnqueue
<1>3. CASE AbandonStart
    BY <1>3 DEF AbandonStart, queueVars, workVars, listenerVars, JobsInv,
                WorkerHasJob, AttemptsLeft, ChildToEnqueue
<1>4. ASSUME NEW j \in JobIds, Work(j) PROVE JobsInv'
    BY <1>4, WorkType
<1>5. ASSUME NEW j \in JobIds, DelayElapses(j) PROVE JobsInv'
    BY <1>5 DEF DelayElapses, SetJob, JobStates, workVars, listenerVars, JobsInv,
                WorkerHasJob, AttemptsLeft, ChildToEnqueue
<1>6. ASSUME NEW j \in JobIds, Listen(j) PROVE JobsInv'
  <2>1. CASE RecordPermanentFailure(j)
      BY <2>1 DEF RecordPermanentFailure, queueVars, workVars, JobsInv,
                  WorkerHasJob, AttemptsLeft, ChildToEnqueue
  <2>2. CASE FailExecution(j)
      BY <2>2 DEF FailExecution, queueVars, workVars, JobsInv,
                  WorkerHasJob, AttemptsLeft, ChildToEnqueue
  <2> QED
      BY <1>6, <2>1, <2>2 DEF Listen
<1>7. ASSUME NEW j \in JobIds, Fail(j) PROVE JobsInv'
  <2>1. CASE Crash(j)
    <3>1. pc[j] # "idle" /\ Leave(j)
        BY <2>1 DEF Crash
    <3> QED
        BY <2>1, <3>1, LeaveType
           DEF Crash, SetJob, JobStates, listenerVars, JobsInv,
               WorkerHasJob, AttemptsLeft
  <2>2. CASE Throws(j)
      BY <2>2, HandleExecutionErrorType, FailAttemptType DEF Throws
  <2>3. CASE LoseFailure(j)
      BY <2>3 DEF LoseFailure, queueVars, workVars, JobsInv,
                  WorkerHasJob, AttemptsLeft, ChildToEnqueue
  <2> QED
      BY <1>7, <2>1, <2>2, <2>3 DEF Fail
<1>8. ASSUME NEW event \in cacheEvents, CacheResult(event) PROVE JobsInv'
    BY <1>8 DEF CacheResult, queueVars, workVars, JobsInv,
                WorkerHasJob, AttemptsLeft, ChildToEnqueue
<1>9. CASE LockExpires
    BY <1>9 DEF LockExpires, queueVars, workVars, listenerVars, JobsInv,
                WorkerHasJob, AttemptsLeft, ChildToEnqueue
<1> QED
    BY <1>1, <1>2, <1>3, <1>4, <1>5, <1>6, <1>7, <1>8, <1>9 DEF Next

\* No handler writes a status or a result outside their types.
LEMMA StatusType ==
    ASSUME status \in Statuses, NEW s \in Statuses
    PROVE  SetExecutionStatus(Guarded, status, s) \in Statuses
    BY DEF SetExecutionStatus

LEMMA WorkStore ==
    ASSUME JobsInv, StoreInv, NEW j \in JobIds, Work(j)
    PROVE  StoreInv'
<1>n. Node(j) \in Nodes
    BY DEF Node, JobIds
<1> USE DEF StoreInv
<1>1. CASE TakeJob(j)
    BY <1>1 DEF TakeJob, storeVars, observed
<1>2. CASE CheckIdempotency(j)
    BY <1>2 DEF CheckIdempotency, storeVars, observed
<1>3. CASE CheckExecutionState(j)
    BY <1>3 DEF CheckExecutionState, storeVars, observed
<1>4. CASE ExecuteNode(j)
    BY <1>n, <1>4 DEF ExecuteNode, storeVars, observed
<1>5. CASE ScheduleResume(j)
    BY <1>5 DEF ScheduleResume, storeVars, observed
<1>6. CASE ReturnDelayed(j)
    BY <1>6 DEF ReturnDelayed, storeVars, observed
<1>7. CASE ResumeDelay(j)
    BY <1>7 DEF ResumeDelay, storeVars, observed
<1>8. CASE StoreResult(j)
    BY <1>n, <1>8 DEF StoreResult, ResultOf, ResultKinds, observed
<1>9. CASE FailWorkflow(j)
    BY <1>9, StatusType DEF FailWorkflow, Statuses, observed
<1>10. CASE SkipChild(j)
    BY <1>10 DEF SkipChild, ResultKinds, observed
<1>11. CASE VisitChild(j)
    BY <1>11 DEF VisitChild, storeVars, observed
<1>12. CASE EnqueueChild(j)
    BY <1>12 DEF EnqueueChild, storeVars, observed
<1>13. CASE ChildrenDone(j)
    BY <1>13 DEF ChildrenDone, storeVars, observed
<1>14. CASE AcquireLock(j)
    BY <1>14 DEF AcquireLock, storeVars, observed
<1>15. CASE ReadStatus(j)
    BY <1>15 DEF ReadStatus, storeVars, observed
<1>16. CASE CountPending(j)
    BY <1>16 DEF CountPending, storeVars, observed
<1>17. CASE CompleteWorkflow(j)
    BY <1>17, StatusType DEF CompleteWorkflow, Statuses
<1>18. CASE ReleaseLock(j)
    BY <1>18 DEF ReleaseLock, storeVars, observed
<1> QED
    BY <1>1, <1>2, <1>3, <1>4, <1>5, <1>6, <1>7, <1>8, <1>9, <1>10, <1>11,
       <1>12, <1>13, <1>14, <1>15, <1>16, <1>17, <1>18 DEF Work

LEMMA NextStore ==
    ASSUME JobsInv, StoreInv, [Next]_vars
    PROVE  StoreInv'
<1> USE DEF StoreInv
<1>1. CASE UNCHANGED vars
    BY <1>1 DEF vars, storeVars, observed
<1>2. ASSUME NEW n \in Nodes, EnqueueEntry(n) PROVE StoreInv'
    BY <1>2 DEF EnqueueEntry, storeVars, observed
<1>3. CASE AbandonStart
    BY <1>3 DEF AbandonStart, Fault, storeVars
<1>4. ASSUME NEW j \in JobIds, Work(j) PROVE StoreInv'
    BY <1>4, WorkStore
<1>5. ASSUME NEW j \in JobIds, DelayElapses(j) PROVE StoreInv'
    BY <1>5 DEF DelayElapses, storeVars, observed
<1>6. ASSUME NEW j \in JobIds, Listen(j) PROVE StoreInv'
  <2>1. Node(j) \in Nodes
      BY DEF Node, JobIds
  <2>2. CASE RecordPermanentFailure(j)
      BY <2>1, <2>2 DEF RecordPermanentFailure, ResultKinds, observed
  <2>3. CASE FailExecution(j)
      BY <2>3, StatusType DEF FailExecution, Statuses, observed
  <2> QED
      BY <1>6, <2>2, <2>3 DEF Listen
<1>7. ASSUME NEW j \in JobIds, Fail(j) PROVE StoreInv'
  <2>1. CASE Crash(j)
      BY <2>1 DEF Crash, Fault, storeVars
  <2>2. CASE Throws(j)
      BY <2>2 DEF Throws, Fault, storeVars
  <2>3. CASE LoseFailure(j)
      BY <2>3 DEF LoseFailure, Fault, storeVars
  <2> QED
      BY <1>7, <2>1, <2>2, <2>3 DEF Fail
<1>8. ASSUME NEW event \in cacheEvents, CacheResult(event) PROVE StoreInv'
  <2>1. event[1] \in Nodes /\ event[2] \in ResultKinds
      BY <1>8 DEF JobsInv
  <2> QED
      BY <1>8, <2>1 DEF CacheResult, observed
<1>9. CASE LockExpires
    BY <1>9 DEF LockExpires, Fault, storeVars
<1> QED
    BY <1>1, <1>2, <1>3, <1>4, <1>5, <1>6, <1>7, <1>8, <1>9 DEF Next

\* TypeInv is inductive.
LEMMA TypeInvariant == Spec => []TypeInv
<1>1. Init => TypeInv
    BY InitTypeInv
<1>2. TypeInv /\ [Next]_vars => TypeInv'
    BY TypeInvParts, NextJobs, NextStore
       DEF TypeInv, TypeOK, JobsInv, StoreInv
<1> QED
    BY <1>1, <1>2, PTL DEF Spec

\* TypeOK, and with it the bound on attempts, holds in every reachable state.
THEOREM TypeCorrect == Spec => []TypeOK
<1>1. TypeInv => TypeOK
    BY DEF TypeInv
<1> QED
    BY <1>1, TypeInvariant, PTL

-----------------------------------------------------------------------------
(***************************************************************************)
(* What one step can do to the places of the workers, to the results, to   *)
(* the lock and to the status.  The invariants below need nothing else of  *)
(* the actions.                                                            *)
(***************************************************************************)
Moves(i) ==
    \/ pc'[i] = pc[i] /\ todo'[i] = todo[i]
    \/ pc'[i] \notin {"enqueue"} \cup InLock
    \/ /\ pc'[i] = "enqueue" /\ todo'[i] = todo[i]
       /\ ParentsResolved(Head(todo[i]).node)
    \/ pc'[i] = "locked" /\ lock = NoJob /\ lock' = i
    \/ pc[i] = "locked" /\ pc'[i] = "count" /\ status \notin Terminal
    \/ pc[i] = "count" /\ pc'[i] = "complete" /\ PendingNodeCount(results) = 0
    \/ pc[i] \in InLock /\ pc'[i] = "release"

LEMMA LeaveMoves ==
    ASSUME JobsInv, NEW j \in JobIds, Leave(j)
    PROVE  \A i \in JobIds : Moves(i)
    BY DEF Leave, JobsInv, Moves, InLock

LEMMA ErrorMoves ==
    ASSUME JobsInv, NEW j \in JobIds, HandleExecutionError(j) \/ HandleRateLimit(j)
    PROVE  \A i \in JobIds : Moves(i)
<1>1. CASE Recover(j)
    BY <1>1 DEF Recover, Goto, JobsInv, Moves, InLock
<1>2. CASE FailAttempt(j)
    BY <1>2, LeaveMoves DEF FailAttempt
<1>3. CASE MoveLimitedBack(j)
    BY <1>3, LeaveMoves DEF MoveLimitedBack
<1> QED
    BY <1>1, <1>2, <1>3 DEF HandleExecutionError, HandleRateLimit

LEMMA WorkMoves ==
    ASSUME JobsInv, StoreInv, NEW j \in JobIds, Work(j)
    PROVE  \A i \in JobIds : Moves(i)
<1> USE DEF JobsInv, Moves, Goto, InLock
<1>1. CASE TakeJob(j)
    BY <1>1 DEF TakeJob, KeepWork
<1>2. CASE CheckIdempotency(j)
    BY <1>2, LeaveMoves DEF CheckIdempotency, Finish, KeepWork
<1>3. CASE CheckExecutionState(j)
  <2>1. Handler(j) \notin {"enqueue", "locked", "count", "complete", "release"}
      BY DEF Handler
  <2> QED
      BY <1>3, <2>1, LeaveMoves
         DEF CheckExecutionState, Finish, MoveToDelayed, KeepWork
<1>4. CASE ExecuteNode(j)
    BY <1>4, ErrorMoves DEF ExecuteNode
<1>5. CASE ScheduleResume(j)
    BY <1>5 DEF ScheduleResume, KeepWork
<1>6. CASE ReturnDelayed(j)
    BY <1>6, LeaveMoves DEF ReturnDelayed
<1>7. CASE ResumeDelay(j)
    BY <1>7, LeaveMoves DEF ResumeDelay, Finish
<1>8. CASE StoreResult(j)
    BY <1>8 DEF StoreResult
<1>9. CASE FailWorkflow(j)
    BY <1>9, LeaveMoves DEF FailWorkflow, Finish
<1>10. CASE SkipChild(j)
    BY <1>10 DEF SkipChild
<1>11. CASE VisitChild(j)
    BY <1>11 DEF VisitChild
<1>12. CASE EnqueueChild(j)
    BY <1>12 DEF EnqueueChild
<1>13. CASE ChildrenDone(j)
    BY <1>13 DEF ChildrenDone, KeepWork
<1>14. CASE AcquireLock(j)
    BY <1>14, LeaveMoves DEF AcquireLock, Finish, KeepWork
<1>15. CASE ReadStatus(j)
    BY <1>15 DEF ReadStatus, KeepWork
<1>16. CASE CountPending(j)
    BY <1>16 DEF CountPending, KeepWork
<1>17. CASE CompleteWorkflow(j)
    BY <1>17 DEF CompleteWorkflow, KeepWork
<1>18. CASE ReleaseLock(j)
    BY <1>18, LeaveMoves DEF ReleaseLock, Finish
<1> QED
    BY <1>1, <1>2, <1>3, <1>4, <1>5, <1>6, <1>7, <1>8, <1>9, <1>10, <1>11,
       <1>12, <1>13, <1>14, <1>15, <1>16, <1>17, <1>18 DEF Work

LEMMA EveryMove ==
    ASSUME JobsInv, StoreInv, [Next]_vars
    PROVE  \A i \in JobIds : Moves(i)
<1>1. CASE UNCHANGED workVars
    BY <1>1 DEF workVars, Moves
<1>2. ASSUME NEW j \in JobIds, Work(j) PROVE \A i \in JobIds : Moves(i)
    BY <1>2, WorkMoves
<1>3. ASSUME NEW j \in JobIds, Fail(j) PROVE \A i \in JobIds : Moves(i)
  <2>1. CASE Crash(j)
      BY <2>1, LeaveMoves DEF Crash
  <2>2. CASE Throws(j)
      BY <2>2, ErrorMoves, LeaveMoves DEF Throws, FailAttempt
  <2>3. CASE LoseFailure(j)
      BY <1>1, <2>3 DEF LoseFailure
  <2> QED
      BY <1>3, <2>1, <2>2, <2>3 DEF Fail
<1> QED
    BY <1>1, <1>2, <1>3
       DEF Next, vars, EnqueueEntry, AbandonStart, DelayElapses, Listen,
           RecordPermanentFailure, FailExecution, CacheResult, LockExpires

\* A result may be replaced, but never removed.
ResultsKept == \A n \in Nodes : results[n] # "none" => results'[n] # "none"

LEMMA ResultsGrow ==
    ASSUME JobsInv, StoreInv, [Next]_vars
    PROVE  ResultsKept
<1>1. CASE UNCHANGED results
    BY <1>1 DEF ResultsKept
<1>2. ASSUME NEW j \in JobIds, Work(j) PROVE ResultsKept
  <2>1. CASE StoreResult(j)
      BY <2>1 DEF StoreResult, ResultOf, ResultsKept, StoreInv
  <2>2. CASE SkipChild(j)
      BY <2>2 DEF SkipChild, ResultsKept, StoreInv
  <2> QED
      BY <1>1, <1>2, <2>1, <2>2
         DEF Work, storeVars, TakeJob, CheckIdempotency, CheckExecutionState,
             ExecuteNode, ScheduleResume, ReturnDelayed, ResumeDelay,
             FailWorkflow, VisitChild, EnqueueChild, ChildrenDone, AcquireLock,
             ReadStatus, CountPending, CompleteWorkflow, ReleaseLock
<1>3. ASSUME NEW j \in JobIds, RecordPermanentFailure(j) PROVE ResultsKept
    BY <1>3 DEF RecordPermanentFailure, ResultsKept, StoreInv
<1>4. ASSUME NEW event \in cacheEvents, CacheResult(event) PROVE ResultsKept
  <2>1. event[2] # "none"
      BY <1>4 DEF JobsInv
  <2> QED
      BY <1>4, <2>1 DEF CacheResult, ResultsKept, StoreInv
<1> QED
    BY <1>1, <1>2, <1>3, <1>4
       DEF Next, vars, storeVars, EnqueueEntry, AbandonStart, DelayElapses, Listen,
           FailExecution, LockExpires, Fail, Crash, Throws, LoseFailure

\* The status becomes "completed" only after a count that found nothing
\* pending, and every other write is "failed".
StatusMoves ==
    \/ UNCHANGED <<status, announced>>
    \/ status' \in {status, "failed"} /\ UNCHANGED announced
    \/ \E j \in JobIds :
          /\ pc[j] = "complete" /\ pc'[j] = "release"
          /\ status' = SetExecutionStatus(Guarded, status, "completed")
          /\ announced' = announced + 1

LEMMA EveryStatus ==
    ASSUME JobsInv, StoreInv, [Next]_vars
    PROVE  StatusMoves
<1>1. CASE UNCHANGED <<status, announced>>
    BY <1>1 DEF StatusMoves
<1>2. ASSUME NEW j \in JobIds, Work(j) PROVE StatusMoves
  <2>1. CASE FailWorkflow(j)
      BY <2>1 DEF FailWorkflow, SetExecutionStatus, StatusMoves, observed
  <2>2. CASE CompleteWorkflow(j)
      BY <2>2 DEF CompleteWorkflow, Goto, StatusMoves, JobsInv
  <2> QED
      BY <1>1, <1>2, <2>1, <2>2
         DEF Work, storeVars, observed, TakeJob, CheckIdempotency,
             CheckExecutionState, ExecuteNode, ScheduleResume, ReturnDelayed,
             ResumeDelay, StoreResult, SkipChild, VisitChild, EnqueueChild,
             ChildrenDone, AcquireLock, ReadStatus, CountPending, ReleaseLock
<1>3. ASSUME NEW j \in JobIds, FailExecution(j) PROVE StatusMoves
    BY <1>3 DEF FailExecution, SetExecutionStatus, StatusMoves, observed
<1> QED
    BY <1>1, <1>2, <1>3
       DEF Next, vars, storeVars, observed, EnqueueEntry, AbandonStart,
           DelayElapses, Listen, RecordPermanentFailure, CacheResult,
           LockExpires, Fail, Crash, Throws, LoseFailure

-----------------------------------------------------------------------------
(***************************************************************************)
(* Completion.  A count of zero says that every node has a result; results *)
(* are never removed, so this still holds when the status is written.      *)
(***************************************************************************)
AllHaveResults == \A n \in Nodes : results[n] # "none"

CompletionInv ==
    /\ \A j \in JobIds : pc[j] = "complete" => AllHaveResults
    /\ status = "completed" => AllHaveResults

\* getPendingNodeCount compares the number of results with the number of nodes.
LEMMA NothingPending ==
    ASSUME results \in [Nodes -> ResultKinds], PendingNodeCount(results) = 0
    PROVE  AllHaveResults
<1> DEFINE Done == {n \in Nodes : results[n] # "none"}
<1>1. IsFiniteSet(Nodes)
    BY WorkflowAssumption
<1>2. Done \in SUBSET Nodes /\ DOMAIN results = Nodes
    OBVIOUS
<1>3. Cardinality(Nodes) \in Nat /\ Cardinality(Done) \in Nat
    BY <1>1, <1>2, FS_Subset, FS_CardinalityType
<1>4. Cardinality(Nodes) - Cardinality(Done) = 0
    BY <1>2 DEF PendingNodeCount
<1>5. Done = Nodes
    BY <1>1, <1>2, <1>3, <1>4, FS_Subset
<1> QED
    BY <1>5 DEF AllHaveResults

LEMMA CompletionStep ==
    ASSUME JobsInv, StoreInv, CompletionInv, [Next]_vars
    PROVE  CompletionInv'
<1>1. AllHaveResults => AllHaveResults'
    BY ResultsGrow DEF ResultsKept, AllHaveResults
<1>2. ASSUME NEW j \in JobIds, pc'[j] = "complete" PROVE AllHaveResults
  <2>1. pc[j] = "complete" \/ PendingNodeCount(results) = 0
      BY <1>2, EveryMove DEF Moves, InLock
  <2>2. results \in [Nodes -> ResultKinds]
      BY DEF StoreInv
  <2> QED
      BY <2>1, <2>2, NothingPending DEF CompletionInv
<1>3. ASSUME status' = "completed" PROVE AllHaveResults
    BY <1>3, EveryStatus DEF StatusMoves, CompletionInv
<1> QED
    BY <1>1, <1>2, <1>3 DEF CompletionInv

\* A completed execution has a result for every node: whatever the faults, even
\* if the completion lock is overrun, and in both stores.
THEOREM CompletedIsComplete == Spec => []CompletedHasAllResults
<1>1. Init => CompletionInv
    BY DEF Init, Created, CompletionInv
<1>2. TypeInv /\ CompletionInv /\ [Next]_vars => CompletionInv'
    BY TypeInvParts, CompletionStep
<1>3. CompletionInv => CompletedHasAllResults
    BY DEF CompletionInv, AllHaveResults, CompletedHasAllResults
<1> QED
    BY <1>1, <1>2, <1>3, TypeInvariant, PTL DEF Spec

-----------------------------------------------------------------------------
(***************************************************************************)
(* The completion lock.  Its value is the worker that believes to own it,  *)
(* as long as no key expires under a living holder ("overrun").            *)
(***************************************************************************)
LockInv == \A j \in JobIds : pc[j] \in InLock => lock = j

LockMoves ==
    \/ UNCHANGED lock
    \/ lock = NoJob
    \/ lock' = NoJob /\ (lock \in JobIds => pc'[lock] \notin InLock)

LEMMA ErrorLeavesLock ==
    ASSUME JobsInv, NEW j \in JobIds, HandleExecutionError(j)
    PROVE  pc'[j] \notin InLock
    BY DEF HandleExecutionError, Recover, FailAttempt, Leave, Goto, JobsInv, InLock

LEMMA EveryLock ==
    ASSUME JobsInv, StoreInv, [Next]_vars, "overrun" \notin Faults
    PROVE  LockMoves
<1>1. CASE UNCHANGED lock
    BY <1>1 DEF LockMoves
<1>2. ASSUME NEW j \in JobIds, Work(j) PROVE LockMoves
  <2>1. CASE AcquireLock(j)
      BY <2>1 DEF AcquireLock, LockMoves
  <2>2. CASE ReleaseLock(j)
      BY <2>2 DEF ReleaseLock, Finish, Leave, JobsInv, LockMoves, InLock
  <2> QED
      BY <1>1, <1>2, <2>1, <2>2
         DEF Work, TakeJob, CheckIdempotency, CheckExecutionState, ExecuteNode,
             ScheduleResume, ReturnDelayed, ResumeDelay, StoreResult,
             FailWorkflow, SkipChild, VisitChild, EnqueueChild, ChildrenDone,
             ReadStatus, CountPending, CompleteWorkflow
<1>3. ASSUME NEW j \in JobIds, Throws(j) PROVE LockMoves
  <2>1. pc'[j] \notin InLock
      BY <1>3, ErrorLeavesLock DEF Throws, FailAttempt, Leave, JobsInv, InLock
  <2> QED
      BY <1>3, <2>1 DEF Throws, LockMoves
<1>4. CASE LockExpires
    BY <1>4 DEF LockExpires, Fault, LockMoves, workVars
<1> QED
    BY <1>1, <1>2, <1>3, <1>4
       DEF Next, vars, EnqueueEntry, AbandonStart, DelayElapses, Listen,
           RecordPermanentFailure, FailExecution, CacheResult, Fail, Crash,
           LoseFailure

LEMMA LockStep ==
    ASSUME JobsInv, StoreInv, LockInv, [Next]_vars, "overrun" \notin Faults
    PROVE  LockInv'
<1> SUFFICES ASSUME NEW j \in JobIds, pc'[j] \in InLock PROVE lock' = j
    BY DEF LockInv
<1>1. NoJob \notin JobIds
    BY EngineAssumption DEF JobIds
<1>2. pc[j] \in InLock \/ lock' = j
    BY EveryMove DEF Moves, InLock
<1>3. CASE pc[j] \in InLock
    BY <1>1, <1>3, EveryLock DEF LockInv, LockMoves
<1> QED
    BY <1>2, <1>3

\* Crashes and failing calls notwithstanding, two workers are never both inside
\* checkWorkflowCompletion's critical section unless one outlives the TTL.
THEOREM CompletionLockExclusive ==
    ASSUME "overrun" \notin Faults
    PROVE  Spec => []LockExclusive
<1>1. Init => LockInv
    BY DEF Init, Created, LockInv, InLock
<1>2. TypeInv /\ LockInv /\ [Next]_vars => LockInv'
    BY TypeInvParts, LockStep
<1>3. LockInv => LockExclusive
    BY DEF LockInv, LockExclusive
<1> QED
    BY <1>1, <1>2, <1>3, TypeInvariant, PTL DEF Spec

-----------------------------------------------------------------------------
(***************************************************************************)
(* The 'completed' event.  Once it is out the status is terminal, so no    *)
(* worker that reads the status under the lock counts again, and none      *)
(* counted before, because the one that announced held the lock.           *)
(***************************************************************************)
OnceInv ==
    /\ announced <= 1
    /\ status \in {"running", "completed", "failed"}
    /\ announced = 1 =>
          /\ status \in Terminal
          /\ \A j \in JobIds : pc[j] \notin {"count", "complete"}

LEMMA OnceStep ==
    ASSUME JobsInv, StoreInv, LockInv, LockInv', OnceInv, [Next]_vars
    PROVE  OnceInv'
<1>1. ASSUME NEW j \in JobIds, pc'[j] \in {"count", "complete"}
      PROVE  pc[j] \in {"count", "complete"} \/ status \notin Terminal
    BY <1>1, EveryMove DEF Moves, InLock
<1>2. CASE UNCHANGED <<status, announced>>
    BY <1>1, <1>2 DEF OnceInv
<1>3. CASE status' \in {status, "failed"} /\ UNCHANGED announced
    BY <1>1, <1>3 DEF OnceInv, Terminal
<1>4. ASSUME NEW j \in JobIds, pc[j] = "complete", pc'[j] = "release",
             status' = SetExecutionStatus(Guarded, status, "completed"),
             announced' = announced + 1
      PROVE  OnceInv'
  <2>1. announced = 0
      BY <1>4 DEF OnceInv, StoreInv
  <2>2. status' \in {"completed", "failed"}
      BY <1>4 DEF SetExecutionStatus, OnceInv
  <2>3. ASSUME NEW i \in JobIds, pc'[i] \in {"count", "complete"} PROVE FALSE
    <3>1. lock' = i /\ lock' = j
        BY <1>4, <2>3 DEF LockInv, InLock
    <3> QED
        BY <1>4, <2>3, <3>1
  <2> QED
      BY <1>4, <2>1, <2>2, <2>3 DEF OnceInv, Terminal
<1> QED
    BY <1>2, <1>3, <1>4, EveryStatus DEF StatusMoves

\* "Only one worker will reach this point": the 'completed' event goes out at
\* most once, whatever crashes, as long as no worker outlives the lock's TTL.
THEOREM CompletionAnnouncedOnce ==
    ASSUME "overrun" \notin Faults
    PROVE  Spec => []CompletedOnce
<1>1. Init => LockInv /\ OnceInv
    BY DEF Init, Created, LockInv, OnceInv, InLock
<1>2. TypeInv /\ LockInv /\ OnceInv /\ [Next]_vars => LockInv' /\ OnceInv'
    BY TypeInvParts, LockStep, OnceStep
<1>3. OnceInv => CompletedOnce
    BY DEF OnceInv, CompletedOnce
<1> QED
    BY <1>1, <1>2, <1>3, TypeInvariant, PTL DEF Spec

-----------------------------------------------------------------------------
(***************************************************************************)
(* Children.  The parents are read at one step and the job is added at     *)
(* another; in between the parents keep their results.                     *)
(***************************************************************************)
ParentsInv ==
    /\ \A j \in JobIds :
          pc[j] = "enqueue" =>
             \A p \in Inputs[Head(todo[j]).node] : results[p] # "none"
    /\ ParentsBeforeChildren

\* Only EnqueueChild adds the job of a child.
OnlyChildren ==
    \A i \in JobIds :
       jobs[i] = "none" /\ jobs'[i] # "none" =>
          \/ i[2] = "manual" /\ Node(i) \in starting
          \/ i[2] = "resumed" /\ \E j \in JobIds : pc[j] = "schedule" /\ Node(j) = Node(i)
          \/ \E j \in JobIds :
                pc[j] = "enqueue" /\ i = <<Head(todo[j]).node, "node">>

\* Setting the state of a job that is in the queue adds none.
LEMMA SetJobAddsNone ==
    ASSUME JobsInv, NEW j \in JobIds, jobs[j] # "none", NEW s,
           jobs' = SetJob(jobs, j, s)
    PROVE  OnlyChildren
    BY DEF SetJob, JobsInv, OnlyChildren

LEMMA ErrorAddsNone ==
    ASSUME JobsInv, NEW j \in JobIds, jobs[j] # "none", HandleExecutionError(j) \/ HandleRateLimit(j)
    PROVE  OnlyChildren
<1>1. CASE Recover(j)
    BY <1>1 DEF Recover, queueVars, OnlyChildren
<1>2. CASE FailAttempt(j)
    BY <1>2, SetJobAddsNone DEF FailAttempt
<1>3. CASE MoveLimitedBack(j)
    BY <1>3, SetJobAddsNone DEF MoveLimitedBack
<1> QED
    BY <1>1, <1>2, <1>3 DEF HandleExecutionError, HandleRateLimit

LEMMA EveryAdd ==
    ASSUME JobsInv, StoreInv, [Next]_vars
    PROVE  OnlyChildren
<1>1. CASE UNCHANGED jobs
    BY <1>1 DEF OnlyChildren
<1>2. ASSUME NEW j \in JobIds, Work(j) PROVE OnlyChildren
  <2>1. pc[j] # "idle" => jobs[j] # "none"
      BY DEF JobsInv, WorkerHasJob
  <2>2. CASE TakeJob(j)
      BY <2>2, SetJobAddsNone DEF TakeJob
  <2>3. CASE \E result : pc[j] # "idle" /\ Finish(j, result)
      BY <2>1, <2>3, SetJobAddsNone DEF Finish
  <2>4. CASE CheckExecutionState(j)
      BY <2>1, <2>4, SetJobAddsNone, <1>1
         DEF CheckExecutionState, Finish, MoveToDelayed, queueVars
  <2>5. CASE ExecuteNode(j)
      BY <1>1, <2>1, <2>5, ErrorAddsNone DEF ExecuteNode, queueVars
  <2>6. CASE ScheduleResume(j)
    <3> DEFINE k == <<Node(j), "resumed">>
    <3>1. Node(k) = Node(j) /\ k[2] = "resumed"
        BY DEF Node
    <3>2. \A i \in JobIds : i # k => jobs'[i] = jobs[i]
        BY <2>6 DEF ScheduleResume, AddJob, JobsInv
    <3>3. pc[j] = "schedule"
        BY <2>6 DEF ScheduleResume
    <3>4. ASSUME NEW i \in JobIds, jobs[i] = "none", jobs'[i] # "none"
          PROVE  i[2] = "resumed" /\ Node(j) = Node(i)
        BY <3>1, <3>2, <3>4
    <3> QED
        BY <3>3, <3>4, Zenon DEF OnlyChildren
  <2>7. CASE ReturnDelayed(j)
      BY <2>1, <2>7, SetJobAddsNone DEF ReturnDelayed
  <2>8. CASE EnqueueChild(j)
      BY <2>8 DEF EnqueueChild, AddJob, OnlyChildren, JobsInv
  <2> QED
      BY <1>1, <1>2, <2>2, <2>3, <2>4, <2>5, <2>6, <2>7, <2>8
         DEF Work, queueVars, CheckIdempotency, ResumeDelay, StoreResult,
             FailWorkflow, SkipChild, VisitChild, ChildrenDone, AcquireLock,
             ReadStatus, CountPending, CompleteWorkflow, ReleaseLock
<1>3. ASSUME NEW n \in Nodes, EnqueueEntry(n) PROVE OnlyChildren
    BY <1>3 DEF EnqueueEntry, AddJob, OnlyChildren, JobIds, JobsInv, Node
<1>4. ASSUME NEW j \in JobIds, DelayElapses(j) PROVE OnlyChildren
    BY <1>4, SetJobAddsNone DEF DelayElapses
<1>5. ASSUME NEW j \in JobIds, Fail(j) PROVE OnlyChildren
  <2>1. pc[j] # "idle" => jobs[j] # "none"
      BY DEF JobsInv, WorkerHasJob
  <2>2. CASE Crash(j)
      BY <2>1, <2>2, SetJobAddsNone DEF Crash
  <2>3. CASE Throws(j)
      BY <2>1, <2>3, SetJobAddsNone, ErrorAddsNone DEF Throws, FailAttempt
  <2>4. CASE LoseFailure(j)
      BY <1>1, <2>4 DEF LoseFailure, queueVars
  <2> QED
      BY <1>5, <2>2, <2>3, <2>4 DEF Fail
<1> QED
    BY <1>1, <1>2, <1>3, <1>4, <1>5
       DEF Next, vars, queueVars, AbandonStart, Listen, RecordPermanentFailure,
           FailExecution, CacheResult, LockExpires

LEMMA ParentsStep ==
    ASSUME JobsInv, StoreInv, ParentsInv, [Next]_vars
    PROVE  ParentsInv'
<1> USE DEF ParentsInv
<1>1. ASSUME NEW j \in JobIds, pc'[j] = "enqueue",
             NEW p \in Inputs[Head(todo'[j]).node]
      PROVE  results'[p] # "none"
  <2>1. /\ todo'[j] = todo[j]
        /\ pc[j] = "enqueue" \/ ParentsResolved(Head(todo[j]).node)
      BY <1>1, EveryMove DEF Moves, InLock
  <2>2. todo[j] \in Seq(Visit) /\ todo[j] # << >>
      BY <1>1, <2>1, NextJobs DEF JobsInv, ChildToEnqueue
  <2>3. Head(todo[j]).node \in Nodes
    <3>1. Head(todo[j]) \in Visit
        BY <2>2
    <3> QED
        BY <3>1 DEF Visit
  <2>4. p \in Nodes
      BY <1>1, <2>1, <2>3, WorkflowAssumption
  <2>5. results[p] # "none"
      BY <1>1, <2>1 DEF ParentsResolved, Resolved
  <2> QED
      BY <2>4, <2>5, ResultsGrow DEF ResultsKept
<1>2. ASSUME NEW n \in Nodes, jobs'[<<n, "node">>] # "none", NEW p \in Inputs[n]
      PROVE  results'[p] # "none"
  <2>1. PICK k \in JobIds : k = <<n, "node">>
      BY DEF JobIds
  <2>2. p \in Nodes
      BY WorkflowAssumption
  <2>3. CASE jobs[k] # "none"
      BY <1>2, <2>1, <2>2, <2>3, ResultsGrow DEF ResultsKept, ParentsBeforeChildren
  <2>4. CASE jobs[k] = "none"
    <3>1. PICK j \in JobIds : pc[j] = "enqueue" /\ k = <<Head(todo[j]).node, "node">>
        BY <1>2, <2>1, <2>4, EveryAdd DEF OnlyChildren
    <3>2. Head(todo[j]).node = n
        BY <2>1, <3>1
    <3> QED
        BY <2>2, <3>1, <3>2, ResultsGrow DEF ResultsKept
  <2> QED
      BY <2>3, <2>4
<1> QED
    BY <1>1, <1>2 DEF ParentsBeforeChildren

\* A child is enqueued only after every one of its parents has a result, even
\* if a parent's result is replaced between the check and the add.
THEOREM ParentsComeFirst == Spec => []ParentsBeforeChildren
<1>1. Init => ParentsInv
  <2> SUFFICES ASSUME Init PROVE ParentsInv
      OBVIOUS
  <2>1. ASSUME NEW n \in Nodes PROVE jobs[<<n, "node">>] = "none"
      BY DEF Init, Created, JobIds
  <2> QED
      BY <2>1 DEF Init, Created, ParentsInv, ParentsBeforeChildren
<1>2. TypeInv /\ ParentsInv /\ [Next]_vars => ParentsInv'
    BY TypeInvParts, ParentsStep
<1>3. ParentsInv => ParentsBeforeChildren
    BY DEF ParentsInv
<1> QED
    BY <1>1, <1>2, <1>3, TypeInvariant, PTL DEF Spec

\* Every write of the status goes through setExecutionStatus.
StatusSet ==
    \/ UNCHANGED status
    \/ \E s \in {"completed", "failed"} :
          status' = SetExecutionStatus(Guarded, status, s)

LEMMA EveryStatusSet ==
    ASSUME [Next]_vars
    PROVE  StatusSet
<1>1. CASE UNCHANGED status
    BY <1>1 DEF StatusSet
<1>2. ASSUME NEW j \in JobIds, Work(j) PROVE StatusSet
    BY <1>1, <1>2
       DEF Work, StatusSet, storeVars, TakeJob, CheckIdempotency,
           CheckExecutionState, ExecuteNode, ScheduleResume, ReturnDelayed,
           ResumeDelay, StoreResult, FailWorkflow, SkipChild, VisitChild,
           EnqueueChild, ChildrenDone, AcquireLock, ReadStatus, CountPending,
           CompleteWorkflow, ReleaseLock
<1>3. ASSUME NEW j \in JobIds, FailExecution(j) PROVE StatusSet
    BY <1>3 DEF FailExecution, StatusSet
<1> QED
    BY <1>1, <1>2, <1>3
       DEF Next, vars, storeVars, EnqueueEntry, AbandonStart, DelayElapses,
           Listen, RecordPermanentFailure, CacheResult, LockExpires, Fail,
           Crash, Throws, LoseFailure

\* With the Drizzle store no step replaces a terminal status.
THEOREM TerminalStatusIsFinal ==
    ASSUME Guarded
    PROVE  Spec => TerminalIsFinal
<1>1. TypeInv /\ [Next]_vars => [(status \in Terminal) => (status' = status)]_vars
  <2> SUFFICES ASSUME TypeInv, [Next]_vars, status \in Terminal
               PROVE  status' = status
      OBVIOUS
  <2>1. status # "running" /\ \A s \in Statuses :
              SetExecutionStatus(Guarded, status, s) = status
      BY DEF Terminal, SetExecutionStatus
  <2> QED
      BY <2>1, TypeInvParts, EveryStatusSet DEF StatusSet, Statuses
<1> QED
    BY <1>1, TypeInvariant, PTL DEF Spec, TerminalIsFinal

-----------------------------------------------------------------------------
(***************************************************************************)
(* Refinement of Execution.  'failed' is written only by a worker that has *)
(* stored a failure, or for a job whose failure has been recorded.         *)
(***************************************************************************)
FailInv ==
    \A j \in JobIds :
       pc[j] = "fail" \/ j \in recorded => results[Node(j)] # "none"

\* Where a step may add to the left-hand side of FailInv.
FailMoves ==
    \A i \in JobIds :
       /\ pc'[i] = "fail" => pc[i] = "fail" \/ results'[Node(i)] # "none"
       /\ i \in recorded' => i \in recorded \/ results'[Node(i)] # "none"

LEMMA LeaveFails ==
    ASSUME JobsInv, NEW j \in JobIds, Leave(j)
    PROVE  \A i \in JobIds : pc'[i] = "fail" => pc[i] = "fail"
    BY DEF Leave, JobsInv

LEMMA ErrorFails ==
    ASSUME JobsInv, NEW j \in JobIds, HandleExecutionError(j) \/ HandleRateLimit(j)
    PROVE  /\ \A i \in JobIds : pc'[i] = "fail" => pc[i] = "fail"
           /\ UNCHANGED recorded
<1>1. CASE Recover(j)
    BY <1>1 DEF Recover, Goto, JobsInv, listenerVars
<1>2. CASE FailAttempt(j)
    BY <1>2, LeaveFails DEF FailAttempt
<1>3. CASE MoveLimitedBack(j)
    BY <1>3, LeaveFails DEF MoveLimitedBack, listenerVars
<1> QED
    BY <1>1, <1>2, <1>3 DEF HandleExecutionError, HandleRateLimit

LEMMA WorkFails ==
    ASSUME JobsInv, StoreInv, NEW j \in JobIds, Work(j)
    PROVE  FailMoves
<1> USE DEF JobsInv, FailMoves, Goto, listenerVars
<1>1. CASE TakeJob(j)
    BY <1>1 DEF TakeJob
<1>2. CASE CheckIdempotency(j)
    BY <1>2, LeaveFails DEF CheckIdempotency, Finish
<1>3. CASE CheckExecutionState(j)
  <2>1. Handler(j) # "fail"
      BY DEF Handler
  <2> QED
      BY <1>3, <2>1, LeaveFails DEF CheckExecutionState, Finish, MoveToDelayed
<1>4. CASE ExecuteNode(j)
    BY <1>4, ErrorFails DEF ExecuteNode
<1>5. CASE ScheduleResume(j)
    BY <1>5 DEF ScheduleResume
<1>6. CASE ReturnDelayed(j)
    BY <1>6, LeaveFails DEF ReturnDelayed
<1>7. CASE ResumeDelay(j)
    BY <1>7, LeaveFails DEF ResumeDelay, Finish
<1>8. CASE StoreResult(j)
  <2>1. Node(j) \in Nodes
      BY DEF Node, JobIds
  <2>2. results'[Node(j)] # "none"
      BY <1>8, <2>1 DEF StoreResult, ResultOf, StoreInv
  <2> QED
      BY <1>8, <2>2 DEF StoreResult
<1>9. CASE FailWorkflow(j)
    BY <1>9, LeaveFails DEF FailWorkflow, Finish
<1>10. CASE SkipChild(j)
    BY <1>10 DEF SkipChild
<1>11. CASE VisitChild(j)
    BY <1>11 DEF VisitChild
<1>12. CASE EnqueueChild(j)
    BY <1>12 DEF EnqueueChild
<1>13. CASE ChildrenDone(j)
    BY <1>13 DEF ChildrenDone
<1>14. CASE AcquireLock(j)
    BY <1>14, LeaveFails DEF AcquireLock, Finish
<1>15. CASE ReadStatus(j)
    BY <1>15 DEF ReadStatus
<1>16. CASE CountPending(j)
    BY <1>16 DEF CountPending
<1>17. CASE CompleteWorkflow(j)
    BY <1>17 DEF CompleteWorkflow
<1>18. CASE ReleaseLock(j)
    BY <1>18, LeaveFails DEF ReleaseLock, Finish
<1> QED
    BY <1>1, <1>2, <1>3, <1>4, <1>5, <1>6, <1>7, <1>8, <1>9, <1>10, <1>11,
       <1>12, <1>13, <1>14, <1>15, <1>16, <1>17, <1>18 DEF Work

LEMMA EveryFail ==
    ASSUME JobsInv, StoreInv, [Next]_vars
    PROVE  FailMoves
<1>1. CASE UNCHANGED pc /\ recorded' \subseteq recorded
    BY <1>1 DEF FailMoves
<1>2. ASSUME NEW j \in JobIds, Work(j) PROVE FailMoves
    BY <1>2, WorkFails
<1>3. ASSUME NEW j \in JobIds, RecordPermanentFailure(j) PROVE FailMoves
  <2>1. Node(j) \in Nodes
      BY DEF Node, JobIds
  <2> QED
      BY <1>3, <2>1 DEF RecordPermanentFailure, workVars, FailMoves, StoreInv
<1>4. ASSUME NEW j \in JobIds, Crash(j) PROVE FailMoves
    BY <1>4, LeaveFails DEF Crash, listenerVars, FailMoves
<1>5. ASSUME NEW j \in JobIds, Throws(j) PROVE FailMoves
    BY <1>5, LeaveFails, ErrorFails DEF Throws, FailAttempt, FailMoves
<1> QED
    BY <1>1, <1>2, <1>3, <1>4, <1>5
       DEF Next, vars, workVars, listenerVars, EnqueueEntry, AbandonStart,
           DelayElapses, Listen, FailExecution, CacheResult, LockExpires, Fail,
           LoseFailure

LEMMA FailStep ==
    ASSUME JobsInv, StoreInv, FailInv, [Next]_vars
    PROVE  FailInv'
<1> SUFFICES ASSUME NEW j \in JobIds, pc'[j] = "fail" \/ j \in recorded'
             PROVE  results'[Node(j)] # "none"
    BY DEF FailInv
<1>1. Node(j) \in Nodes
    BY DEF Node, JobIds
<1> QED
    BY <1>1, EveryFail, ResultsGrow DEF FailInv, FailMoves, ResultsKept

-----------------------------------------------------------------------------
\* A step of the detailed specification is one of the abstract one, or none.
LEMMA StepsAreAllowed ==
    ASSUME JobsInv, StoreInv, CompletionInv, FailInv, [Next]_vars
    PROVE  [Promised!Next]_<<status, results>>
<1>1. CASE UNCHANGED storeVars
    BY <1>1 DEF storeVars
<1>2. ASSUME NEW n \in Nodes, NEW r \in ResultKinds \ {"none"},
             results' = [results EXCEPT ![n] = r], UNCHANGED status
      PROVE  Promised!Next
    BY <1>2 DEF Promised!Next, Promised!Record, Promised!ResultKinds, ResultKinds
<1>3. ASSUME AllHaveResults, UNCHANGED results,
             status' = SetExecutionStatus(Guarded, status, "completed")
      PROVE  Promised!Next
    BY <1>3 DEF Promised!Next, Promised!Complete, Promised!SetStatus,
                Promised!SetExecutionStatus, SetExecutionStatus, AllHaveResults
<1>4. ASSUME NEW n \in Nodes, results[n] # "none", UNCHANGED results,
             status' = SetExecutionStatus(Guarded, status, "failed")
      PROVE  Promised!Next
    BY <1>4 DEF Promised!Next, Promised!Fail, Promised!SetStatus,
                Promised!SetExecutionStatus, SetExecutionStatus
<1>5. ASSUME NEW j \in JobIds, Work(j)
      PROVE  Promised!Next \/ UNCHANGED storeVars
  <2>1. Node(j) \in Nodes
      BY DEF Node, JobIds
  <2>2. CASE StoreResult(j)
      BY <1>2, <2>1, <2>2 DEF StoreResult, ResultOf, ResultKinds
  <2>3. CASE FailWorkflow(j)
      BY <1>4, <2>1, <2>3 DEF FailWorkflow, FailInv
  <2>4. CASE SkipChild(j)
    <3>1. todo[j] \in Seq(Visit) /\ todo[j] # << >>
        BY <2>4 DEF SkipChild, JobsInv
    <3>2. Head(todo[j]) \in Visit
        BY <3>1
    <3>3. Head(todo[j]).node \in Nodes
        BY <3>2 DEF Visit
    <3> QED
        BY <1>2, <2>4, <3>3 DEF SkipChild, ResultKinds
  <2>5. CASE CompleteWorkflow(j)
      BY <1>3, <2>5 DEF CompleteWorkflow, CompletionInv
  <2> QED
      BY <1>5, <2>2, <2>3, <2>4, <2>5
         DEF Work, storeVars, TakeJob, CheckIdempotency, CheckExecutionState,
             ExecuteNode, ScheduleResume, ReturnDelayed, ResumeDelay, VisitChild,
             EnqueueChild, ChildrenDone, AcquireLock, ReadStatus, CountPending,
             ReleaseLock
<1>6. ASSUME NEW j \in JobIds, Listen(j) PROVE Promised!Next
  <2>1. Node(j) \in Nodes
      BY DEF Node, JobIds
  <2>2. CASE RecordPermanentFailure(j)
      BY <1>2, <2>1, <2>2 DEF RecordPermanentFailure, ResultKinds
  <2>3. CASE FailExecution(j)
      BY <1>4, <2>1, <2>3 DEF FailExecution, FailInv
  <2> QED
      BY <1>6, <2>2, <2>3 DEF Listen
<1>7. ASSUME NEW event \in cacheEvents, CacheResult(event) PROVE Promised!Next
    BY <1>2, <1>7 DEF CacheResult, JobsInv
<1> QED
    BY <1>1, <1>5, <1>6, <1>7
       DEF Next, vars, storeVars, EnqueueEntry, AbandonStart, DelayElapses,
           LockExpires, Fail, Crash, Throws, LoseFailure

\* WorkflowRun implements the abstract execution: results appear one at a time
\* and stay, 'completed' follows the last of them, 'failed' follows one of them.
THEOREM RunImplementsExecution == Spec => ImplementsExecution
<1>1. Init => CompletionInv /\ FailInv
    BY DEF Init, Created, CompletionInv, FailInv
<1>2. TypeInv /\ CompletionInv /\ FailInv /\ [Next]_vars => CompletionInv' /\ FailInv'
    BY TypeInvParts, CompletionStep, FailStep
<1>3. Init => Promised!Init
    BY DEF Init, Created, Promised!Init
<1>4. TypeInv /\ CompletionInv /\ FailInv /\ [Next]_vars
        => [Promised!Next]_<<status, results>>
    BY TypeInvParts, StepsAreAllowed
<1> QED
    BY <1>1, <1>2, <1>3, <1>4, TypeInvariant, PTL
       DEF Spec, ImplementsExecution, Promised!Spec

-----------------------------------------------------------------------------
(***************************************************************************)
(* The joins.  As long as nothing has gone wrong, whoever resolves the     *)
(* last parent of a node still has to visit the node, or has already seen  *)
(* to it.                                                                  *)
(***************************************************************************)
\* What ends the promise: a fault, or a failure on its way to the status.  It
\* never goes away again.
Trouble ==
    \/ faults > 0
    \/ status # "running"
    \/ failing # {} \/ recorded # {}
    \/ \E j \in JobIds : pc[j] = "fail"

\* Labels a worker reaches only after it has stored a result.
PastStore == {"children", "enqueue", "lock"} \cup InLock

\* Somebody has the node on the list of children to look at.
OnList(n) ==
    \E j \in JobIds :
       /\ pc[j] \in {"children", "enqueue"}
       /\ \E i \in DOMAIN todo[j] : todo[j][i].node = n

\* A node whose parents are all resolved is resolved or about to get a job ...
Ahead(n) ==
    \/ ~ParentsResolved(n)
    \/ Resolved(results[n])
    \/ n \in starting
    \/ OnList(n)

\* ... or it has a job.
HasJob(n) == \E j \in JobIds : Node(j) = n /\ jobs[j] # "none"

Covered(n) == Ahead(n) \/ HasJob(n)

\* A finished job has resolved its node or, the first of a delay node, added
\* the job that will.
Handled(j) ==
    \/ Resolved(results[Node(j)])
    \/ ~IsResumed(j) /\ jobs[<<Node(j), "resumed">>] # "none"

JobsHandled ==
    \A j \in JobIds :
       /\ jobs[j] = "completed" => Handled(j)
       /\ pc[j] = "scheduled" => jobs[<<Node(j), "resumed">>] # "none"

WorkersInStep ==
    \A j \in JobIds :
       /\ jobs[j] # "failed"
       /\ pc[j] \in PastStore => Resolved(results[Node(j)])
       /\ pc[j] \in {"schedule", "scheduled"} => ~IsResumed(j)

EventsResolved ==
    \A event \in cacheEvents : Resolved(event[2]) /\ Resolved(results[event[1]])

JoinInv ==
    \/ Trouble
    \/ WorkersInStep /\ EventsResolved /\ JobsHandled /\ \A n \in Nodes : Covered(n)

\* No step takes a fault back, leaves the status "running" again, or lets go of
\* a failure without one of the two.
LEMMA FaultsGrow ==
    ASSUME StoreInv, [Next]_vars
    PROVE  faults' \in {faults, faults + 1}
<1>1. ASSUME NEW j \in JobIds, Work(j) PROVE UNCHANGED faults
    BY <1>1 DEF Work, observed, TakeJob, CheckIdempotency, CheckExecutionState,
                ExecuteNode, ScheduleResume, ReturnDelayed, ResumeDelay, StoreResult,
                FailWorkflow, SkipChild, VisitChild, EnqueueChild, ChildrenDone,
                AcquireLock, ReadStatus, CountPending, CompleteWorkflow, ReleaseLock
<1> QED
    BY <1>1 DEF Next, vars, observed, EnqueueEntry, AbandonStart, DelayElapses, Listen,
                RecordPermanentFailure, FailExecution, CacheResult, LockExpires, Fail,
                Crash, Throws, LoseFailure, Fault

LEMMA StatusLeavesRunning ==
    ASSUME [Next]_vars, status # "running"
    PROVE  status' # "running"
BY EveryStatusSet DEF StatusSet, SetExecutionStatus

LEMMA FailuresTravel ==
    ASSUME JobsInv, StoreInv, [Next]_vars, faults' = faults,
           NEW j \in JobIds, j \in failing \cup recorded \/ pc[j] = "fail"
    PROVE  \/ j \in failing' \cup recorded'
           \/ pc'[j] = "fail"
           \/ status' # "running"
<1>1. ASSUME NEW i \in JobIds, Work(i)
      PROVE  /\ j \in failing \cup recorded => j \in failing' \cup recorded'
             /\ pc[j] = "fail" => pc'[j] = "fail" \/ status' # "running"
  <2> USE DEF JobsInv, Leave, Goto, Finish, listenerVars
  <2>1. CASE FailWorkflow(i)
      BY <2>1 DEF FailWorkflow, SetExecutionStatus
  <2>2. CASE TakeJob(i)
      BY <2>2 DEF TakeJob, WorkerHasJob
  <2>3. CASE CheckIdempotency(i) \/ CheckExecutionState(i) \/ ResumeDelay(i) \/ ReturnDelayed(i)
      BY <2>3 DEF CheckIdempotency, CheckExecutionState, ResumeDelay, MoveToDelayed,
                  ReturnDelayed
  <2>4. CASE ExecuteNode(i)
      BY <2>4 DEF ExecuteNode, HandleExecutionError, Recover, FailAttempt, HandleRateLimit,
            MoveLimitedBack
  <2>5. CASE ScheduleResume(i) \/ StoreResult(i) \/ SkipChild(i) \/ VisitChild(i)
             \/ EnqueueChild(i) \/ ChildrenDone(i)
      BY <2>5 DEF ScheduleResume, StoreResult, SkipChild, VisitChild, EnqueueChild, ChildrenDone
  <2>6. CASE AcquireLock(i) \/ ReadStatus(i) \/ CountPending(i) \/ CompleteWorkflow(i)
             \/ ReleaseLock(i)
      BY <2>6 DEF AcquireLock, ReadStatus, CountPending, CompleteWorkflow, ReleaseLock
  <2> QED
      BY <1>1, <2>1, <2>2, <2>3, <2>4, <2>5, <2>6 DEF Work
<1>2. ASSUME NEW i \in JobIds, Listen(i)
      PROVE  /\ j \in failing \cup recorded =>
                    j \in failing' \cup recorded' \/ status' # "running"
             /\ pc[j] = "fail" => pc'[j] = "fail"
    BY <1>2 DEF Listen, RecordPermanentFailure, FailExecution, SetExecutionStatus, workVars
<1>3. ASSUME NEW i \in JobIds, Fail(i) PROVE FALSE
    BY <1>3 DEF Fail, Crash, Throws, LoseFailure, Fault, StoreInv
<1> QED
    BY <1>1, <1>2, <1>3
       DEF Next, vars, workVars, listenerVars, EnqueueEntry, AbandonStart, DelayElapses,
           CacheResult, LockExpires

LEMMA TroubleStays ==
    ASSUME JobsInv, StoreInv, Trouble, [Next]_vars
    PROVE  Trouble'
<1>1. CASE faults > 0 \/ faults' # faults
    BY <1>1, FaultsGrow DEF Trouble, StoreInv
<1>2. CASE status # "running"
    BY <1>2, StatusLeavesRunning DEF Trouble
<1>3. CASE /\ faults' = faults
           /\ failing # {} \/ recorded # {} \/ \E j \in JobIds : pc[j] = "fail"
  <2>1. PICK j \in JobIds : j \in failing \cup recorded \/ pc[j] = "fail"
      BY <1>3 DEF JobsInv
  <2> QED
      BY <1>3, <2>1, FailuresTravel DEF Trouble
<1> QED
    BY <1>1, <1>2, <1>3 DEF Trouble

-----------------------------------------------------------------------------
\* Steps before and after which nothing has gone wrong: what they do to the
\* places of the workers, to the events and to the results.
Fine ==
    /\ faults = 0
    /\ status \notin {"failed", "cancelled"}
    /\ failing = {} /\ recorded = {}
    /\ \A j \in JobIds : pc[j] # "fail"

Clean == Fine /\ Fine'

CleanJobs(i) ==
    /\ jobs'[i] = "completed" =>
          jobs[i] = "completed" \/ pc[i] = "scheduled" \/ Resolved(results[Node(i)])
    /\ jobs'[i] = "failed" => jobs[i] = "failed"
    /\ pc'[i] \in PastStore => pc[i] \in PastStore \/ Resolved(results'[Node(i)])
    /\ pc'[i] = "schedule" => pc[i] = "schedule" \/ ~IsResumed(i)
    /\ pc'[i] = "scheduled" =>
          \/ pc[i] = "scheduled"
          \/ pc[i] = "schedule" /\ jobs'[<<Node(i), "resumed">>] # "none"

CleanEvents ==
    \A event \in cacheEvents' :
       event \in cacheEvents \/ (Resolved(event[2]) /\ Resolved(results[event[1]]))

CleanResults ==
    \/ UNCHANGED results
    \/ \E n \in Nodes : results' = [results EXCEPT ![n] = "success"]
    \/ \E n \in Nodes : results' = [results EXCEPT ![n] = "skipped"]

LEMMA LeaveClean ==
    ASSUME JobsInv, NEW j \in JobIds, Leave(j), UNCHANGED cacheEvents,
           NEW s \in JobStates \ {"completed", "failed"}, jobs' = SetJob(jobs, j, s)
    PROVE  CleanEvents /\ \A i \in JobIds : CleanJobs(i)
BY DEF Leave, SetJob, JobsInv, CleanJobs, CleanEvents, PastStore, InLock

LEMMA FinishClean ==
    ASSUME JobsInv, NEW j \in JobIds, NEW r, Resolved(r), Resolved(results[Node(j)]),
           Finish(j, r)
    PROVE  CleanEvents /\ \A i \in JobIds : CleanJobs(i)
<1>1. /\ \A i \in JobIds : pc'[i] = IF i = j THEN "idle" ELSE pc[i]
      /\ \A i \in JobIds : jobs'[i] = IF i = j THEN "completed" ELSE jobs[i]
    BY DEF Finish, Leave, SetJob, JobsInv
<1>2. \A i \in JobIds : CleanJobs(i)
    BY <1>1 DEF CleanJobs, PastStore, InLock
<1>3. cacheEvents' = cacheEvents \cup {<<Node(j), r>>}
    BY DEF Finish
<1>4. CleanEvents
    BY <1>3 DEF CleanEvents
<1> QED
    BY <1>2, <1>4

LEMMA GotoClean ==
    ASSUME JobsInv, NEW j \in JobIds, NEW label, Goto(j, label),
           label \in PastStore => pc[j] \in PastStore,
           label = "schedule" => ~IsResumed(j),
           label # "scheduled",
           UNCHANGED <<queueVars, listenerVars>>
    PROVE  CleanEvents /\ \A i \in JobIds : CleanJobs(i)
BY DEF Goto, JobsInv, CleanJobs, CleanEvents, queueVars, listenerVars

\* A throw that is not the last one, that continueOnFail makes a success of, or that
\* counts for nothing.
LEMMA ErrorClean ==
    ASSUME JobsInv, NEW j \in JobIds, Clean, HandleExecutionError(j) \/ HandleRateLimit(j)
    PROVE  CleanEvents /\ \A i \in JobIds : CleanJobs(i)
<1>1. CASE Recover(j)
    BY <1>1, GotoClean DEF Recover, PastStore, InLock
<1>2. CASE FailAttempt(j)
  <2>1. AfterFailure(made[j], MaxAttempts) = "delayed"
      BY <1>2 DEF FailAttempt, AfterFailure, Clean, Fine
  <2> QED
      BY <1>2, <2>1, LeaveClean DEF FailAttempt, JobStates
<1>3. CASE MoveLimitedBack(j)
    BY <1>3, LeaveClean DEF MoveLimitedBack, JobStates, listenerVars
<1> QED
    BY <1>1, <1>2, <1>3 DEF HandleExecutionError, HandleRateLimit

LEMMA WorkClean ==
    ASSUME JobsInv, StoreInv, WorkersInStep, Clean, InvalidDelays = {},
           NEW j \in JobIds, Work(j)
    PROVE  CleanEvents /\ (\A i \in JobIds : CleanJobs(i)) /\ CleanResults
<1>n. Node(j) \in Nodes
    BY DEF Node, JobIds
<1>s. status # "cancelled" /\ pc[j] # "fail" /\ pc'[j] # "fail" /\ Resolved("success")
    BY DEF Clean, Fine, Resolved
<1>h. pc[j] \in PastStore => Resolved(results[Node(j)])
    BY DEF WorkersInStep
<1>1. CASE TakeJob(j)
    BY <1>1 DEF TakeJob, Goto, SetJob, JobsInv, CleanJobs, CleanEvents, CleanResults,
                PastStore, InLock, listenerVars, storeVars
<1>2. CASE CheckIdempotency(j)
    BY <1>2, FinishClean, GotoClean
       DEF CheckIdempotency, CleanResults, storeVars, PastStore, InLock
<1>3. CASE CheckExecutionState(j)
  <2>1. CASE MoveToDelayed(j)
      BY <1>3, <2>1, LeaveClean
         DEF CheckExecutionState, MoveToDelayed, CleanResults, JobStates, listenerVars, storeVars
  <2>2. CASE Goto(j, Handler(j)) /\ UNCHANGED <<queueVars, listenerVars, storeVars>>
    <3>1. /\ Handler(j) \notin PastStore \cup {"scheduled"}
          /\ Handler(j) = "schedule" => ~IsResumed(j)
        BY DEF Handler, PastStore, InLock
    <3> QED
        BY <2>2, <3>1, GotoClean DEF CleanResults, storeVars
  <2> QED
      BY <1>3, <1>s, <2>1, <2>2 DEF CheckExecutionState, storeVars
<1>4. CASE ExecuteNode(j)
    BY <1>4, ErrorClean, GotoClean DEF ExecuteNode, CleanResults, storeVars, PastStore, InLock
<1>5. CASE ScheduleResume(j)
  <2>1. PICK k \in JobIds : k = <<Node(j), "resumed">>
      BY <1>n DEF JobIds
  <2>2. /\ jobs'[k] # "none"
        /\ \A i \in JobIds :
              jobs'[i] \in {"completed", "failed"} => jobs'[i] = jobs[i]
      BY <1>5, <2>1 DEF ScheduleResume, AddJob, JobsInv
  <2> QED
      BY <1>5, <2>1, <2>2 DEF ScheduleResume, Goto, JobsInv, CleanJobs, CleanEvents,
                              CleanResults, PastStore, InLock, listenerVars, storeVars
<1>6. CASE ReturnDelayed(j)
    BY <1>6 DEF ReturnDelayed, Leave, SetJob, JobsInv, CleanJobs, CleanEvents,
                CleanResults, PastStore, InLock, listenerVars, storeVars
<1>7. CASE ResumeDelay(j)
    BY <1>7, <1>s, GotoClean DEF ResumeDelay, CleanResults, storeVars, PastStore, InLock
<1>8. CASE StoreResult(j)
  <2>1. outcome[j].kind # "failure" /\ Goto(j, "children")
      BY <1>8, <1>s DEF StoreResult, Goto, JobsInv
  <2>2. results' = [results EXCEPT ![Node(j)] = "success"]
      BY <1>8, <2>1 DEF StoreResult, ResultOf
  <2>3. Resolved(results'[Node(j)])
      BY <1>n, <1>s, <2>2 DEF StoreInv
  <2>4. UNCHANGED <<jobs, cacheEvents>>
      BY <1>8 DEF StoreResult, queueVars, listenerVars
  <2>5. \A i \in JobIds : CleanJobs(i)
      BY <2>1, <2>3, <2>4 DEF Goto, JobsInv, CleanJobs
  <2> QED
      BY <1>n, <2>2, <2>4, <2>5 DEF CleanEvents, CleanResults
<1>9. CASE FailWorkflow(j)
    BY <1>9, <1>s DEF FailWorkflow
<1>10. CASE SkipChild(j)
  <2>1. todo[j] \in Seq(Visit) /\ todo[j] # << >>
      BY <1>10 DEF SkipChild, JobsInv
  <2>2. Head(todo[j]) \in Visit
      BY <2>1
  <2>3. Head(todo[j]).node \in Nodes
      BY <2>2 DEF Visit
  <2>4. CleanResults
      BY <1>10, <2>3 DEF SkipChild, CleanResults
  <2> QED
      BY <1>10, <2>4 DEF SkipChild, CleanJobs, CleanEvents, queueVars, listenerVars
<1>11. CASE VisitChild(j)
    BY <1>11 DEF VisitChild, Goto, JobsInv, CleanJobs, CleanEvents, CleanResults,
                 PastStore, queueVars, listenerVars, storeVars
<1>12. CASE EnqueueChild(j)
  <2>1. \A i \in JobIds :
           jobs'[i] \in {"completed", "failed"} => jobs'[i] = jobs[i]
      BY <1>12 DEF EnqueueChild, AddJob, JobsInv
  <2> QED
      BY <1>12, <2>1 DEF EnqueueChild, Goto, JobsInv, CleanJobs, CleanEvents,
                         CleanResults, PastStore, listenerVars, storeVars
<1>13. CASE ChildrenDone(j)
    BY <1>13, GotoClean DEF ChildrenDone, CleanResults, storeVars, PastStore
<1>14. CASE AcquireLock(j)
    BY <1>14, <1>s, <1>h, FinishClean, GotoClean
       DEF AcquireLock, CleanResults, storeVars, PastStore
<1>15. CASE ReadStatus(j)
    BY <1>15, GotoClean DEF ReadStatus, CleanResults, storeVars, PastStore, InLock
<1>16. CASE CountPending(j)
    BY <1>16, GotoClean DEF CountPending, CleanResults, storeVars, PastStore, InLock
<1>17. CASE CompleteWorkflow(j)
    BY <1>17, GotoClean DEF CompleteWorkflow, CleanResults, PastStore, InLock
<1>18. CASE ReleaseLock(j)
    BY <1>18, <1>s, <1>h, FinishClean
       DEF ReleaseLock, CleanResults, storeVars, PastStore, InLock
<1> QED
    BY <1>1, <1>2, <1>3, <1>4, <1>5, <1>6, <1>7, <1>8, <1>9, <1>10, <1>11,
       <1>12, <1>13, <1>14, <1>15, <1>16, <1>17, <1>18 DEF Work

LEMMA StepClean ==
    ASSUME JobsInv, StoreInv, WorkersInStep, EventsResolved, Clean, InvalidDelays = {},
           [Next]_vars
    PROVE  /\ CleanEvents
           /\ \A i \in JobIds : CleanJobs(i)
           /\ \A n \in Nodes : Resolved(results[n]) => Resolved(results'[n])
<1>1. CASE UNCHANGED <<jobs, pc, cacheEvents, results>>
    BY <1>1 DEF CleanEvents, CleanJobs
<1>2. ASSUME NEW j \in JobIds, Work(j)
      PROVE  CleanEvents /\ (\A i \in JobIds : CleanJobs(i)) /\ CleanResults
    BY <1>2, WorkClean
<1>3. CleanResults => \A n \in Nodes : Resolved(results[n]) => Resolved(results'[n])
    BY DEF CleanResults, Resolved, StoreInv
<1>4. ASSUME NEW n \in Nodes, EnqueueEntry(n)
      PROVE  CleanEvents /\ (\A i \in JobIds : CleanJobs(i)) /\ UNCHANGED results
    BY <1>4 DEF EnqueueEntry, AddJob, JobsInv, CleanEvents, CleanJobs, workVars,
                listenerVars, storeVars, JobIds
<1>5. ASSUME NEW j \in JobIds, DelayElapses(j)
      PROVE  CleanEvents /\ (\A i \in JobIds : CleanJobs(i)) /\ UNCHANGED results
    BY <1>5 DEF DelayElapses, SetJob, JobsInv, CleanEvents, CleanJobs, workVars,
                listenerVars, storeVars
<1>6. ASSUME NEW event \in cacheEvents, CacheResult(event)
      PROVE  /\ CleanEvents /\ \A i \in JobIds : CleanJobs(i)
             /\ \A n \in Nodes : Resolved(results[n]) => Resolved(results'[n])
  <2>1. Resolved(event[2])
      BY DEF EventsResolved
  <2>2. \A n \in Nodes : Resolved(results[n]) => Resolved(results'[n])
      BY <1>6, <2>1 DEF CacheResult, StoreInv
  <2>3. UNCHANGED <<jobs, pc>> /\ cacheEvents' \subseteq cacheEvents
      BY <1>6 DEF CacheResult, queueVars, workVars
  <2> QED
      BY <2>2, <2>3 DEF CleanEvents, CleanJobs
<1>7. ASSUME NEW j \in JobIds, Fail(j) \/ Listen(j) PROVE FALSE
    BY <1>7 DEF Fail, Listen, Crash, Throws, LoseFailure, RecordPermanentFailure,
                FailExecution, Fault, StoreInv, Clean, Fine
<1> QED
    BY <1>1, <1>2, <1>3, <1>4, <1>5, <1>6, <1>7
       DEF Next, vars, queueVars, workVars, storeVars, listenerVars, AbandonStart, LockExpires

\* The queue forgets no job.
JobsKept == \A i \in JobIds : jobs[i] # "none" => jobs'[i] # "none"

LEMMA SetJobKeeps ==
    ASSUME JobsInv, NEW j \in JobIds, NEW s, s # "none", jobs' = SetJob(jobs, j, s)
    PROVE  JobsKept
BY DEF SetJob, JobsInv, JobsKept

LEMMA AddJobKeeps ==
    ASSUME JobsInv, NEW k, NEW s, jobs' = AddJob(jobs, k, s)
    PROVE  JobsKept
BY DEF AddJob, JobsInv, JobsKept

LEMMA ErrorKeeps ==
    ASSUME JobsInv, NEW j \in JobIds, HandleExecutionError(j) \/ HandleRateLimit(j) \/ FailAttempt(j)
    PROVE  JobsKept
<1>1. CASE Recover(j)
    BY <1>1 DEF Recover, queueVars, JobsKept
<1>2. CASE FailAttempt(j)
    BY <1>2, SetJobKeeps DEF FailAttempt, AfterFailure
<1>3. CASE MoveLimitedBack(j)
    BY <1>3, SetJobKeeps DEF MoveLimitedBack
<1> QED
    BY <1>1, <1>2, <1>3 DEF HandleExecutionError, HandleRateLimit

LEMMA JobsStay ==
    ASSUME JobsInv, StoreInv, [Next]_vars
    PROVE  JobsKept
<1>1. CASE UNCHANGED jobs
    BY <1>1 DEF JobsKept
<1>2. ASSUME NEW j \in JobIds, Work(j) PROVE JobsKept
  <2>1. ASSUME NEW result, Finish(j, result) PROVE JobsKept
      BY <2>1, SetJobKeeps DEF Finish
  <2>2. CASE TakeJob(j)
      BY <2>2, SetJobKeeps DEF TakeJob
  <2>3. CASE CheckExecutionState(j)
      BY <1>1, <2>1, <2>3, SetJobKeeps DEF CheckExecutionState, MoveToDelayed, queueVars
  <2>4. CASE ExecuteNode(j)
      BY <1>1, <2>4, ErrorKeeps DEF ExecuteNode, queueVars
  <2>5. CASE ScheduleResume(j) \/ EnqueueChild(j)
      BY <2>5, AddJobKeeps DEF ScheduleResume, EnqueueChild
  <2>6. CASE ReturnDelayed(j)
      BY <2>6, SetJobKeeps DEF ReturnDelayed
  <2> QED
      BY <1>1, <1>2, <2>1, <2>2, <2>3, <2>4, <2>5, <2>6
         DEF Work, queueVars, CheckIdempotency, ResumeDelay, StoreResult,
             FailWorkflow, SkipChild, VisitChild, ChildrenDone, AcquireLock,
             ReadStatus, CountPending, CompleteWorkflow, ReleaseLock
<1>3. ASSUME NEW n \in Nodes, EnqueueEntry(n) PROVE JobsKept
    BY <1>3, AddJobKeeps DEF EnqueueEntry
<1>4. ASSUME NEW j \in JobIds, DelayElapses(j) PROVE JobsKept
    BY <1>4, SetJobKeeps DEF DelayElapses
<1>5. ASSUME NEW j \in JobIds, Fail(j) PROVE JobsKept
    BY <1>1, <1>5, SetJobKeeps, ErrorKeeps DEF Fail, Crash, Throws, LoseFailure, queueVars
<1> QED
    BY <1>1, <1>2, <1>3, <1>4, <1>5
       DEF Next, vars, queueVars, AbandonStart, Listen, RecordPermanentFailure,
           FailExecution, CacheResult, LockExpires

-----------------------------------------------------------------------------
\* The lists of children.
Lists(visits, n) == \E i \in DOMAIN visits : visits[i].node = n

LEMMA VisitsListChildren ==
    ASSUME NEW p \in Nodes, NEW n \in Children(p), NEW next
    PROVE  Lists(Visits(p, next), n)
<1>1. PICK i \in DOMAIN Outputs[p] : Outputs[p][i] = n
    BY DEF Children, Range
<1>2. i \in DOMAIN Visits(p, next) /\ Visits(p, next)[i].node = n
    BY <1>1 DEF Visits
<1> QED
    BY <1>2 DEF Lists

LEMMA TailLists ==
    ASSUME NEW s \in Seq(Visit), s # << >>, NEW n, Lists(s, n)
    PROVE  Head(s).node = n \/ Lists(Tail(s), n)
<1>1. PICK i \in DOMAIN s : s[i].node = n
    BY DEF Lists
<1>2. CASE i = 1
    BY <1>1, <1>2
<1>3. CASE i # 1
  <2>1. i - 1 \in DOMAIN Tail(s) /\ Tail(s)[i - 1] = s[i]
      BY <1>1, <1>3
  <2> QED
      BY <1>1, <2>1 DEF Lists
<1> QED
    BY <1>2, <1>3

LEMMA ConcatLists ==
    ASSUME NEW s \in Seq(Visit), NEW t \in Seq(Visit), NEW n, Lists(s, n) \/ Lists(t, n)
    PROVE  Lists(s \o t, n)
<1>1. CASE Lists(s, n)
  <2>1. PICK i \in DOMAIN s : s[i].node = n
      BY <1>1 DEF Lists
  <2>2. i \in DOMAIN (s \o t) /\ (s \o t)[i] = s[i]
      BY <2>1
  <2> QED
      BY <2>1, <2>2 DEF Lists
<1>2. CASE Lists(t, n)
  <2>1. PICK i \in DOMAIN t : t[i].node = n
      BY <1>2 DEF Lists
  <2>2. Len(s) + i \in DOMAIN (s \o t) /\ (s \o t)[Len(s) + i] = t[i]
      BY <2>1
  <2> QED
      BY <2>1, <2>2 DEF Lists
<1> QED
    BY <1>1, <1>2

\* The worker of job j has node n on its list.
Lister(j, n) == pc[j] \in {"children", "enqueue"} /\ Lists(todo[j], n)

\* A node leaves a list skipped, enqueued, or because a parent is missing.
LEMMA ListsKept ==
    ASSUME JobsInv, StoreInv, NEW i \in JobIds, Work(i),
           NEW j \in JobIds, NEW n \in Nodes, Lister(j, n)
    PROVE  \/ Lister(j, n)'
           \/ Resolved(results'[n])
           \/ jobs'[<<n, "node">>] # "none"
           \/ ~ParentsResolved(n)
<1>1. CASE i # j
  <2>1. pc'[j] = pc[j] /\ todo'[j] = todo[j]
      BY <1>1 DEF JobsInv, Work, TakeJob, CheckIdempotency, CheckExecutionState, ExecuteNode,
            HandleExecutionError, Recover, FailAttempt, HandleRateLimit, MoveLimitedBack,
            MoveToDelayed, ScheduleResume, ReturnDelayed, ResumeDelay, StoreResult, FailWorkflow, SkipChild, VisitChild,
            EnqueueChild, ChildrenDone, AcquireLock, ReadStatus, CountPending,
            CompleteWorkflow, ReleaseLock, Goto, KeepWork, Finish, Leave
  <2> QED
      BY <2>1 DEF Lister
<1>2. CASE i = j
  <2>1. SkipChild(j) \/ VisitChild(j) \/ EnqueueChild(j) \/ ChildrenDone(j)
      BY <1>2 DEF Lister, Work, TakeJob, JobsInv, WorkerHasJob, CheckIdempotency,
            CheckExecutionState, ExecuteNode, ScheduleResume, ReturnDelayed, ResumeDelay,
            StoreResult, FailWorkflow, AcquireLock, ReadStatus, CountPending,
            CompleteWorkflow, ReleaseLock
  <2>2. todo[j] \in Seq(Visit) /\ todo[j] # << >>
    <3>1. todo[j] \in Seq(Visit)
        BY DEF JobsInv
    <3>2. CASE todo[j] = << >>
        BY <3>2 DEF Lister, Lists
    <3> QED
        BY <3>1, <3>2
  <2>3. Head(todo[j]) \in Visit /\ Tail(todo[j]) \in Seq(Visit)
      BY <2>2
  <2>4. Head(todo[j]).node \in Nodes
      BY <2>3 DEF Visit
  <2>5. Head(todo[j]).node = n \/ Lists(Tail(todo[j]), n)
      BY <2>2, TailLists DEF Lister
  <2>6. CASE SkipChild(j)
    <3>1. CASE Head(todo[j]).node = n
        BY <2>6, <3>1 DEF SkipChild, Resolved, StoreInv
    <3>2. CASE Lists(Tail(todo[j]), n)
      <4> DEFINE child == Head(todo[j]).node
      <4>1. Visits(child, Children(child)) \in Seq(Visit)
          BY <2>4, VisitsType
      <4>2. todo'[j] = Visits(child, Children(child)) \o Tail(todo[j])
          BY <2>6 DEF SkipChild, JobsInv
      <4>3. Lists(todo'[j], n)
          BY <2>3, <3>2, <4>1, <4>2, ConcatLists
      <4> QED
          BY <2>6, <4>3 DEF SkipChild, Lister
    <3> QED
        BY <2>5, <3>1, <3>2
  <2>7. CASE VisitChild(j)
      BY <2>5, <2>7 DEF VisitChild, Goto, JobsInv, Lister
  <2>8. CASE EnqueueChild(j)
    <3>1. CASE Head(todo[j]).node = n
      <4>1. PICK k \in JobIds : k = <<n, "node">>
          BY DEF JobIds
      <4>2. AddJob(jobs, k, "waiting")[k] # "none"
          BY DEF AddJob, JobsInv
      <4> QED
          BY <2>8, <3>1, <4>1, <4>2 DEF EnqueueChild
    <3>2. CASE Lists(Tail(todo[j]), n)
        BY <2>8, <3>2 DEF EnqueueChild, Goto, JobsInv, Lister
    <3> QED
        BY <2>5, <3>1, <3>2
  <2>9. CASE ChildrenDone(j)
      BY <2>2, <2>9 DEF ChildrenDone
  <2> QED
      BY <2>1, <2>6, <2>7, <2>8, <2>9
<1> QED
    BY <1>1, <1>2

\* Whoever resolves a node goes on to look at its children.
LEMMA ResolverLists ==
    ASSUME JobsInv, StoreInv, NEW j \in JobIds, Work(j), NEW p \in Nodes,
           ~Resolved(results[p]), Resolved(results'[p]), NEW n \in Children(p), n \in Nodes
    PROVE  Lister(j, n)'
<1>1. StoreResult(j) \/ SkipChild(j)
    BY DEF Work, TakeJob, CheckIdempotency, CheckExecutionState, ExecuteNode,
           ScheduleResume, ReturnDelayed, ResumeDelay, FailWorkflow, VisitChild,
           EnqueueChild, ChildrenDone, AcquireLock, ReadStatus, CountPending,
           CompleteWorkflow, ReleaseLock, storeVars
<1>2. CASE StoreResult(j)
  <2>1. Node(j) = p
      BY <1>2 DEF StoreResult, StoreInv
  <2>2. outcome[j].kind # "failure"
      BY <1>2, <2>1 DEF StoreResult, ResultOf, Resolved, StoreInv
  <2>3. pc'[j] = "children" /\ todo'[j] = Visits(p, outcome[j].next)
      BY <1>2, <2>1, <2>2 DEF StoreResult, Goto, JobsInv
  <2> QED
      BY <2>3, VisitsListChildren DEF Lister
<1>3. CASE SkipChild(j)
  <2> DEFINE child == Head(todo[j]).node
  <2>1. child = p
      BY <1>3 DEF SkipChild, StoreInv
  <2>2. todo'[j] = Visits(p, Children(p)) \o Tail(todo[j]) /\ pc'[j] = "children"
      BY <1>3, <2>1 DEF SkipChild, JobsInv
  <2>3. Tail(todo[j]) \in Seq(Visit)
      BY <1>3 DEF SkipChild, JobsInv
  <2>4. Lists(todo'[j], n)
    <3>1. Visits(p, Children(p)) \in Seq(Visit) /\ Lists(Visits(p, Children(p)), n)
        BY VisitsType, VisitsListChildren
    <3> QED
        BY <2>2, <2>3, <3>1, ConcatLists
  <2> QED
      BY <2>2, <2>4 DEF Lister
<1> QED
    BY <1>1, <1>2, <1>3

LEMMA InStepStep ==
    ASSUME JobsInv, StoreInv, WorkersInStep, EventsResolved, Clean, InvalidDelays = {},
           [Next]_vars
    PROVE  WorkersInStep' /\ EventsResolved'
<1>1. \A n \in Nodes : Resolved(results[n]) => Resolved(results'[n])
    BY StepClean
<1>2. WorkersInStep'
  <2>1. ASSUME NEW j \in JobIds
        PROVE  /\ jobs'[j] # "failed"
               /\ pc'[j] \in PastStore => Resolved(results'[Node(j)])
               /\ pc'[j] \in {"schedule", "scheduled"} => ~IsResumed(j)
    <3>1. Node(j) \in Nodes /\ CleanJobs(j)
        BY StepClean DEF Node, JobIds
    <3> QED
        BY <1>1, <3>1 DEF CleanJobs, WorkersInStep
  <2> QED
      BY <2>1 DEF WorkersInStep
<1>3. EventsResolved'
  <2>1. ASSUME NEW event \in cacheEvents'
        PROVE  Resolved(event[2]) /\ Resolved(results'[event[1]])
    <3>1. event[1] \in Nodes
        BY <2>1, NextJobs DEF JobsInv
    <3>2. event \in cacheEvents \/ (Resolved(event[2]) /\ Resolved(results[event[1]]))
        BY <2>1, StepClean DEF CleanEvents
    <3> QED
        BY <1>1, <3>1, <3>2 DEF EventsResolved
  <2> QED
      BY <2>1 DEF EventsResolved
<1> QED
    BY <1>2, <1>3

LEMMA HandledStep ==
    ASSUME JobsInv, StoreInv, WorkersInStep, EventsResolved, JobsHandled, Clean,
           InvalidDelays = {}, [Next]_vars
    PROVE  JobsHandled'
<1>1. \A n \in Nodes : Resolved(results[n]) => Resolved(results'[n])
    BY StepClean
<1>2. ASSUME NEW j \in JobIds
      PROVE  /\ jobs'[j] = "completed" => Handled(j)'
             /\ pc'[j] = "scheduled" => jobs'[<<Node(j), "resumed">>] # "none"
  <2>1. Node(j) \in Nodes /\ <<Node(j), "resumed">> \in JobIds
      BY DEF Node, JobIds
  <2>2. CleanJobs(j)
      BY StepClean
  <2>3. Handled(j) => Handled(j)'
      BY <1>1, <2>1, JobsStay DEF Handled, JobsKept
  <2> QED
      BY <1>1, <2>1, <2>2, <2>3, JobsStay
         DEF JobsKept, CleanJobs, JobsHandled, WorkersInStep, Handled
<1> QED
    BY <1>2 DEF JobsHandled

LEMMA AheadStep ==
    ASSUME JobsInv, StoreInv, EventsResolved, WorkersInStep, Clean, InvalidDelays = {},
           [Next]_vars, NEW n \in Nodes, Ahead(n),
           \A p \in Inputs[n] : n \in Children(p)
    PROVE  Ahead(n)' \/ HasJob(n)'
<1>0. Inputs[n] \subseteq Nodes
    BY WorkflowAssumption
<1>1. CASE Resolved(results[n])
    BY <1>1, StepClean DEF Ahead
<1>3. CASE n \in starting
  <2>1. n \in starting' \/ EnqueueEntry(n)
    <3>1. ASSUME NEW j \in JobIds, Work(j) PROVE UNCHANGED starting
        BY <3>1 DEF Work, TakeJob, CheckIdempotency, CheckExecutionState, ExecuteNode,
              ScheduleResume, ReturnDelayed, ResumeDelay, StoreResult, FailWorkflow,
              SkipChild, VisitChild, EnqueueChild, ChildrenDone, AcquireLock, ReadStatus,
              CountPending, CompleteWorkflow, ReleaseLock
    <3>2. ~AbandonStart
        BY DEF AbandonStart, Fault, Clean, Fine, StoreInv
    <3> QED
        BY <1>3, <3>1, <3>2 DEF Next, vars, EnqueueEntry, DelayElapses, Listen,
              RecordPermanentFailure, FailExecution, CacheResult, LockExpires, Fail,
              Crash, Throws, LoseFailure
  <2>2. CASE EnqueueEntry(n)
    <3>1. PICK k \in JobIds : k = <<n, "manual">>
        BY DEF JobIds
    <3>2. jobs'[k] # "none" /\ Node(k) = n
        BY <2>2, <3>1 DEF EnqueueEntry, AddJob, JobsInv, Node
    <3> QED
        BY <3>2 DEF HasJob
  <2> QED
      BY <2>1, <2>2 DEF Ahead
<1>4. CASE OnList(n) /\ ParentsResolved(n)
  <2>1. PICK j \in JobIds : Lister(j, n)
      BY <1>4 DEF OnList, Lister, Lists
  <2>2. Lister(j, n)' => OnList(n)'
      BY DEF OnList, Lister, Lists
  <2>3. CASE \E i \in JobIds : Work(i)
    <3>1. \/ Lister(j, n)' \/ Resolved(results'[n]) \/ jobs'[<<n, "node">>] # "none"
        BY <1>4, <2>1, <2>3, ListsKept
    <3>2. <<n, "node">> \in JobIds /\ Node(<<n, "node">>) = n
        BY DEF JobIds, Node
    <3> QED
        BY <1>4, <2>2, <3>1, <3>2 DEF Ahead, HasJob
  <2>4. CASE UNCHANGED <<pc, todo>>
      BY <2>1, <2>2, <2>4 DEF Lister, Ahead
  <2>5. ASSUME NEW i \in JobIds PROVE ~Fail(i)
      BY DEF Fail, Crash, Throws, LoseFailure, Fault, Clean, Fine, StoreInv
  <2> QED
      BY <2>3, <2>4, <2>5 DEF Next, vars, workVars, EnqueueEntry, AbandonStart,
         DelayElapses, Listen, RecordPermanentFailure, FailExecution, CacheResult,
         LockExpires
<1>5. CASE ~ParentsResolved(n) /\ ParentsResolved(n)'
  <2>1. PICK p \in Inputs[n] : ~Resolved(results[p]) /\ Resolved(results'[p])
      BY <1>5 DEF ParentsResolved
  <2>2. PICK j \in JobIds : Work(j)
    <3>1. results' # results
        BY <2>1
    <3>2. ASSUME NEW j \in JobIds PROVE ~Listen(j) /\ ~Fail(j)
        BY DEF Fail, Listen, Crash, Throws, LoseFailure, RecordPermanentFailure,
               FailExecution, Fault, Clean, Fine, StoreInv
    <3>3. ASSUME NEW event \in cacheEvents, CacheResult(event) PROVE FALSE
        BY <1>0, <2>1, <3>3 DEF CacheResult, EventsResolved, StoreInv
    <3> QED
        BY <3>1, <3>2, <3>3 DEF Next, vars, storeVars, EnqueueEntry, AbandonStart,
           DelayElapses, LockExpires
  <2>3. Lister(j, n)'
      BY <1>0, <2>1, <2>2, ResolverLists
  <2> QED
      BY <2>3 DEF Ahead, OnList, Lister, Lists
<1>6. CASE ~ParentsResolved(n) /\ ~ParentsResolved(n)'
    BY <1>6 DEF Ahead
<1> QED
    BY <1>1, <1>3, <1>4, <1>5, <1>6 DEF Ahead

LEMMA CoverStep ==
    ASSUME JobsInv, StoreInv, EventsResolved, WorkersInStep, Clean, InvalidDelays = {},
           [Next]_vars, NEW n \in Nodes, Covered(n),
           \A p \in Inputs[n] : n \in Children(p)
    PROVE  Covered(n)'
<1>1. HasJob(n) => HasJob(n)'
    BY JobsStay DEF HasJob, JobsKept
<1> QED
    BY <1>1, AheadStep DEF Covered

LEMMA JoinInit ==
    ASSUME Init, WorkflowIsValid
    PROVE  JoinInv
<1>1. WorkersInStep /\ EventsResolved /\ JobsHandled
    BY DEF Init, Created, WorkersInStep, JobsHandled, EventsResolved, PastStore, InLock
<1>2. ASSUME NEW n \in Nodes PROVE Covered(n)
  <2>1. CASE Inputs[n] = {}
      BY <2>1 DEF Init, WorkflowIsValid, Covered, Ahead
  <2>2. CASE Inputs[n] # {}
    <3>1. PICK p \in Nodes : p \in Inputs[n]
        BY <2>2, WorkflowAssumption
    <3>2. ~Resolved(results[p])
        BY DEF Init, Created, Resolved
    <3> QED
        BY <3>1, <3>2 DEF ParentsResolved, Covered, Ahead
  <2> QED
      BY <2>1, <2>2
<1> QED
    BY <1>1, <1>2 DEF JoinInv

LEMMA JoinStep ==
    ASSUME WorkflowIsValid, JobsInv, StoreInv, JoinInv, [Next]_vars
    PROVE  JoinInv'
<1>1. CASE Trouble
    BY <1>1, TroubleStays DEF JoinInv
<1>2. CASE ~Trouble /\ ~Trouble'
  <2>1. /\ InvalidDelays = {} /\ WorkersInStep /\ EventsResolved /\ JobsHandled
        /\ \A n \in Nodes : Covered(n) /\ \A p \in Inputs[n] : n \in Children(p)
      BY <1>2 DEF JoinInv, WorkflowIsValid
  <2>2. Clean
      BY <1>2, NextStore DEF Clean, Fine, Trouble, StoreInv
  <2> QED
      BY <2>1, <2>2, InStepStep, HandledStep, CoverStep DEF JoinInv
<1> QED
    BY <1>1, <1>2 DEF JoinInv

\* When nothing is left to run, the nodes that are done are closed under the
\* joins, so they are all of them.
LEMMA QuietIsDone ==
    ASSUME WorkflowIsValid, JobsInv, JoinInv
    PROVE  QuietMeansResolved
<1> SUFFICES ASSUME Quiet, status = "running", faults = 0
             PROVE  \A n \in Nodes : Resolved(results[n])
    BY DEF QuietMeansResolved
<1>1. \A j \in JobIds : pc[j] = "idle" /\ jobs[j] \in {"none", "completed", "failed"}
    BY DEF Quiet, JobsInv, WorkerHasJob
<1>2. ~Trouble
    BY <1>1 DEF Quiet, Trouble
<1>3. WorkersInStep /\ JobsHandled /\ \A n \in Nodes : Covered(n)
    BY <1>2 DEF JoinInv
<1>4. ASSUME NEW j \in JobIds, jobs[j] # "none" PROVE Resolved(results[Node(j)])
  <2>1. PICK k \in JobIds : k = <<Node(j), "resumed">>
      BY DEF JobIds, Node
  <2>2. Node(k) = Node(j) /\ IsResumed(k)
      BY <2>1 DEF Node, IsResumed
  <2>3. Handled(j) /\ (jobs[k] # "none" => Handled(k))
      BY <1>1, <1>3, <1>4 DEF JobsHandled, WorkersInStep
  <2> QED
      BY <2>1, <2>2, <2>3 DEF Handled
<1> DEFINE Done == {n \in Nodes : Resolved(results[n])}
<1>5. ASSUME NEW n \in Nodes, Inputs[n] \subseteq Done PROVE n \in Done
  <2>1. ParentsResolved(n)
      BY <1>5 DEF ParentsResolved
  <2>2. ~OnList(n) /\ n \notin starting
      BY <1>1 DEF OnList, Quiet
  <2> QED
      BY <1>3, <1>4, <2>1, <2>2 DEF Covered, Ahead, HasJob
<1>6. Done = Nodes
    BY <1>5 DEF WorkflowIsValid
<1> QED
    BY <1>6

(***************************************************************************)
(* checkAndEnqueueChildren reads the parents' results after the worker has *)
(* stored its own, so whichever parent is the last to be resolved finds    *)
(* the others resolved: in any order of the workers' reads and writes,     *)
(* with any choice of branches, no join of a valid workflow is lost.       *)
(***************************************************************************)
THEOREM JoinsLoseNothing ==
    ASSUME WorkflowIsValid
    PROVE  Spec => []QuietMeansResolved
<1>1. Init => JoinInv
    BY JoinInit
<1>2. TypeInv /\ JoinInv /\ [Next]_vars => JoinInv'
    BY JoinStep, TypeInvParts
<1>3. TypeInv /\ JoinInv => QuietMeansResolved
    BY QuietIsDone, TypeInvParts
<1> QED
    BY <1>1, <1>2, <1>3, TypeInvariant, PTL DEF Spec

-----------------------------------------------------------------------------
(***************************************************************************)
(* One slot.  The worker that stores the last result is the only one, so   *)
(* it finds the completion lock free and then counts no pending node: the  *)
(* completion that two slots can lose is not lost.                         *)
(***************************************************************************)
\* From the result to the write of the status.
Completing == {"children", "enqueue", "lock", "locked", "count", "complete"}

OneActive ==
    \A i, j \in JobIds : jobs[i] = "active" /\ jobs[j] = "active" => i = j

CompletesInv ==
    /\ lock # NoJob => pc[lock] \in InLock
    /\ AllHaveResults => \E j \in JobIds : pc[j] \in Completing

SerialInv == OneActive /\ JoinInv /\ (Trouble \/ CompletesInv)

\* A job becomes active only by being taken.
LEMMA ActiveStep ==
    ASSUME JobsInv, [Next]_vars, NEW i \in JobIds, jobs'[i] = "active", jobs[i] # "active"
    PROVE  TakeJob(i)
<1>0. ASSUME NEW j \in JobIds, NEW s \in JobStates \ {"active"}, jobs' = SetJob(jobs, j, s)
      PROVE  FALSE
    BY <1>0 DEF SetJob, JobsInv
<1> USE DEF JobStates
<1>1. jobs' # jobs
    OBVIOUS
<1>2. ASSUME NEW j \in JobIds,
             HandleExecutionError(j) \/ HandleRateLimit(j) \/ FailAttempt(j)
      PROVE  FALSE
    BY <1>0, <1>1, <1>2 DEF HandleExecutionError, Recover, FailAttempt, HandleRateLimit,
          MoveLimitedBack, AfterFailure, queueVars
<1>3. ASSUME NEW k, NEW s \in {"waiting", "delayed"}, jobs' = AddJob(jobs, k, s) PROVE FALSE
    BY <1>3 DEF AddJob, JobsInv
<1>4. ASSUME NEW j \in JobIds, NEW r, Finish(j, r) PROVE FALSE
    BY <1>0, <1>4 DEF Finish
<1>5. ASSUME NEW j \in JobIds, Work(j) PROVE TakeJob(i)
  <2>1. CASE TakeJob(j)
      BY <2>1 DEF TakeJob, SetJob, JobsInv
  <2>2. ~CheckExecutionState(j) /\ ~ReturnDelayed(j)
      BY <1>0, <1>1, <1>4 DEF CheckExecutionState, MoveToDelayed, ReturnDelayed, queueVars
  <2>3. ~ExecuteNode(j) /\ ~ScheduleResume(j) /\ ~EnqueueChild(j)
      BY <1>1, <1>2, <1>3 DEF ExecuteNode, ScheduleResume, EnqueueChild, queueVars
  <2> QED
      BY <1>1, <1>4, <1>5, <2>1, <2>2, <2>3
         DEF Work, queueVars, CheckIdempotency, ResumeDelay, StoreResult, FailWorkflow,
             SkipChild, VisitChild, ChildrenDone, AcquireLock, ReadStatus, CountPending,
             CompleteWorkflow, ReleaseLock
<1>6. ASSUME NEW j \in JobIds, Fail(j) PROVE FALSE
    BY <1>0, <1>1, <1>2, <1>6 DEF Fail, Crash, Throws, LoseFailure, queueVars
<1>7. ASSUME NEW j \in JobIds, DelayElapses(j) PROVE FALSE
    BY <1>0, <1>7 DEF DelayElapses
<1>8. ASSUME NEW n \in Nodes, EnqueueEntry(n) PROVE FALSE
    BY <1>3, <1>8 DEF EnqueueEntry
<1> QED
    BY <1>1, <1>5, <1>6, <1>7, <1>8
       DEF Next, vars, queueVars, AbandonStart, Listen, RecordPermanentFailure,
           FailExecution, CacheResult, LockExpires

LEMMA OneActiveStep ==
    ASSUME Concurrency = 1, JobsInv, OneActive, [Next]_vars
    PROVE  OneActive'
<1> SUFFICES ASSUME NEW i \in JobIds, NEW j \in JobIds,
                    jobs'[i] = "active", jobs'[j] = "active"
             PROVE  i = j
    BY DEF OneActive
<1>1. ASSUME NEW k \in JobIds, TakeJob(k), NEW l \in JobIds, jobs'[l] = "active" PROVE l = k
  <2>1. CASE jobs[l] = "active"
    <3>1. JobsIn(jobs, {"active"}) = {l}
        BY <2>1 DEF JobsIn, JobsInv, OneActive
    <3> QED
        BY <1>1, <3>1, FS_Singleton DEF TakeJob
  <2>2. CASE jobs[l] # "active"
      BY <1>1, <2>2 DEF TakeJob, SetJob, JobsInv
  <2> QED
      BY <2>1, <2>2
<1>2. CASE jobs[i] = "active" /\ jobs[j] = "active"
    BY <1>2 DEF OneActive
<1>3. CASE jobs[i] # "active"
    BY <1>1, <1>3, ActiveStep
<1>4. CASE jobs[j] # "active"
    BY <1>1, <1>4, ActiveStep
<1> QED
    BY <1>2, <1>3, <1>4

\* The converse of NothingPending.
LEMMA AllCounted ==
    ASSUME results \in [Nodes -> ResultKinds], AllHaveResults
    PROVE  PendingNodeCount(results) = 0
<1>1. {n \in DOMAIN results : results[n] # "none"} = DOMAIN results
    BY DEF AllHaveResults
<1>2. Cardinality(DOMAIN results) \in Nat
    BY WorkflowAssumption, FS_CardinalityType
<1> QED
    BY <1>1, <1>2 DEF PendingNodeCount

\* The steps of a single worker while nothing goes wrong.
LEMMA WorkCompletes ==
    ASSUME JobsInv, StoreInv, OneActive, CompletesInv, ~Trouble, ~Trouble',
           NEW i \in JobIds, Work(i)
    PROVE  CompletesInv'
<1>1. status = "running" /\ status' = "running" /\ pc'[i] # "fail"
    BY DEF Trouble
<1>2. \A j \in JobIds : pc[j] # "idle" /\ pc[i] # "idle" => j = i
    BY DEF OneActive, JobsInv, WorkerHasJob
<1>3. lock # NoJob => lock \in JobIds /\ pc[lock] \in InLock
    BY DEF CompletesInv, StoreInv
<1>4. ASSUME pc[i] # "idle", lock # NoJob PROVE lock = i
    BY <1>2, <1>3, <1>4 DEF InLock
\* Away from the completion.
<1>5. ASSUME pc[i] \notin InLock \cup Completing, UNCHANGED <<results, lock>>,
             \A j \in JobIds \ {i} : pc'[j] = pc[j]
      PROVE  CompletesInv'
  <2>1. lock' # NoJob => pc'[lock'] \in InLock
      BY <1>3, <1>5
  <2>2. ASSUME AllHaveResults' PROVE \E j \in JobIds : pc'[j] \in Completing
    <3>1. PICK j \in JobIds : pc[j] \in Completing
        BY <1>5, <2>2 DEF AllHaveResults, CompletesInv
    <3> QED
        BY <1>5, <3>1
  <2> QED
      BY <2>1, <2>2 DEF CompletesInv
\* Before the lock, with the last result stored perhaps.
<1>6. ASSUME pc[i] \notin InLock, pc'[i] \in Completing, UNCHANGED lock,
             \A j \in JobIds \ {i} : pc'[j] = pc[j]
      PROVE  CompletesInv'
  <2>1. lock' # NoJob => pc'[lock'] \in InLock
      BY <1>3, <1>6
  <2> QED
      BY <1>6, <2>1 DEF CompletesInv
\* Under the lock.
<1>7. ASSUME pc[i] # "idle", pc'[i] \in InLock, lock' \in {lock, i},
             AllHaveResults' => pc'[i] \in Completing
      PROVE  CompletesInv'
    BY <1>4, <1>7 DEF CompletesInv
<1> USE DEF Completing, InLock, Goto, KeepWork, storeVars
<1>8. CASE TakeJob(i)
  <2>1. pc[i] = "idle"
      BY <1>8 DEF TakeJob, JobsInv, WorkerHasJob
  <2> QED
      BY <1>5, <1>8, <2>1 DEF TakeJob, JobsInv
<1>9. CASE CheckIdempotency(i) \/ CheckExecutionState(i)
    BY <1>5, <1>9 DEF CheckIdempotency, CheckExecutionState, Finish, MoveToDelayed, Leave, JobsInv
<1>10. CASE ExecuteNode(i)
    BY <1>5, <1>10 DEF ExecuteNode, HandleExecutionError, Recover, FailAttempt,
          HandleRateLimit, MoveLimitedBack, Leave, JobsInv
<1>11. CASE ScheduleResume(i) \/ ReturnDelayed(i) \/ ResumeDelay(i)
    BY <1>5, <1>11 DEF ScheduleResume, ReturnDelayed, ResumeDelay, Finish, Leave, JobsInv
<1>12. CASE StoreResult(i)
    BY <1>1, <1>6, <1>12 DEF StoreResult, JobsInv
<1>13. CASE FailWorkflow(i)
    BY <1>1, <1>13 DEF FailWorkflow, SetExecutionStatus
<1>14. CASE SkipChild(i) \/ VisitChild(i) \/ EnqueueChild(i) \/ ChildrenDone(i)
    BY <1>6, <1>14 DEF SkipChild, VisitChild, EnqueueChild, ChildrenDone, JobsInv
<1>15. CASE AcquireLock(i)
  <2>1. lock = NoJob
      BY <1>3, <1>4, <1>15 DEF AcquireLock
  <2> QED
      BY <1>7, <1>15, <2>1 DEF AcquireLock, JobsInv
<1>16. CASE ReadStatus(i)
    BY <1>1, <1>7, <1>16 DEF ReadStatus, Terminal, JobsInv
<1>17. CASE CountPending(i)
  <2>1. AllHaveResults' => PendingNodeCount(results) = 0
      BY <1>17, AllCounted DEF CountPending, AllHaveResults, StoreInv
  <2> QED
      BY <1>7, <1>17, <2>1 DEF CountPending, JobsInv
<1>18. CASE CompleteWorkflow(i)
    BY <1>1, <1>18 DEF CompleteWorkflow, SetExecutionStatus
<1>19. CASE ReleaseLock(i)
  <2>1. lock' = NoJob /\ results' = results /\ pc[i] = "release"
      BY <1>4, <1>19 DEF ReleaseLock
  <2>2. ~AllHaveResults
      BY <1>2, <2>1 DEF CompletesInv
  <2> QED
      BY <2>1, <2>2 DEF CompletesInv, AllHaveResults
<1> QED
    BY <1>8, <1>9, <1>10, <1>11, <1>12, <1>13, <1>14, <1>15, <1>16, <1>17, <1>18, <1>19
       DEF Work

LEMMA CompletesStep ==
    ASSUME JobsInv, StoreInv, OneActive, EventsResolved, CompletesInv, ~Trouble, ~Trouble',
           [Next]_vars
    PROVE  CompletesInv'
<1>1. CASE UNCHANGED <<pc, lock, results>>
    BY <1>1 DEF CompletesInv, AllHaveResults
<1>2. ASSUME NEW j \in JobIds, Work(j) PROVE CompletesInv'
    BY <1>2, WorkCompletes
<1>3. ASSUME NEW event \in cacheEvents, CacheResult(event) PROVE CompletesInv'
  <2>1. results[event[1]] # "none"
      BY DEF EventsResolved, Resolved
  <2>2. AllHaveResults' => AllHaveResults
      BY <1>3, <2>1 DEF CacheResult, AllHaveResults, StoreInv
  <2> QED
      BY <1>3, <2>2 DEF CacheResult, workVars, CompletesInv
<1>4. ASSUME NEW j \in JobIds PROVE ~Fail(j) /\ ~RecordPermanentFailure(j)
    BY DEF Fail, Crash, Throws, LoseFailure, RecordPermanentFailure, Fault, Trouble, StoreInv
<1>5. ~LockExpires
    BY DEF LockExpires, Fault, Trouble, StoreInv, CompletesInv
<1> QED
    BY <1>1, <1>2, <1>3, <1>4, <1>5
       DEF Next, vars, workVars, storeVars, EnqueueEntry, AbandonStart, DelayElapses, Listen,
           FailExecution

LEMMA SerialInit ==
    ASSUME Init, WorkflowIsValid, Nodes # {}
    PROVE  SerialInv
BY JoinInit DEF Init, Created, SerialInv, OneActive, CompletesInv, AllHaveResults

LEMMA SerialStep ==
    ASSUME WorkflowIsValid, Concurrency = 1, JobsInv, StoreInv, SerialInv, [Next]_vars
    PROVE  SerialInv'
<1>1. OneActive' /\ JoinInv'
    BY OneActiveStep, JoinStep DEF SerialInv
<1>2. Trouble \/ EventsResolved
    BY DEF SerialInv, JoinInv
<1> QED
    BY <1>1, <1>2, TroubleStays, CompletesStep DEF SerialInv

\* The worker of the last result is still there when all results are, so what
\* has come to rest is not 'running'.
LEMMA RestIsEnd ==
    ASSUME WorkflowIsValid, JobsInv, SerialInv, Quiet, faults = 0
    PROVE  status # "running"
<1> SUFFICES ASSUME status = "running" PROVE FALSE
    OBVIOUS
<1>1. \A j \in JobIds : pc[j] = "idle"
    BY DEF Quiet, JobsInv, WorkerHasJob
<1>2. ~Trouble
    BY <1>1 DEF Quiet, Trouble
<1>3. AllHaveResults
    BY QuietIsDone DEF SerialInv, QuietMeansResolved, Resolved, AllHaveResults
<1> QED
    BY <1>1, <1>2, <1>3 DEF SerialInv, CompletesInv, Completing

\* An execution that has come to rest without a fault has ended.
RestsOnlyAtEnd == Quiet /\ faults = 0 => status # "running"

\* With one slot the completion of a valid workflow is never lost: two workers at
\* a time are what it takes (the run lost_completion).
THEOREM SerialCompletionIsNotLost ==
    ASSUME WorkflowIsValid, Concurrency = 1, Nodes # {}
    PROVE  Spec => []RestsOnlyAtEnd
<1>1. Init => SerialInv
    BY SerialInit
<1>2. TypeInv /\ SerialInv /\ [Next]_vars => SerialInv'
    BY SerialStep, TypeInvParts
<1>3. TypeInv /\ SerialInv => RestsOnlyAtEnd
    BY RestIsEnd, TypeInvParts DEF RestsOnlyAtEnd
<1> QED
    BY <1>1, <1>2, <1>3, TypeInvariant, PTL DEF Spec

-----------------------------------------------------------------------------
(***************************************************************************)
(* continueOnFail.  handleExecutionError turns an error into a success at  *)
(* the attempt whose number has come up to job.opts.attempts.  A worker is *)
(* never in a job that has failed so often: BullMQ gives it up.            *)
(***************************************************************************)
\* No worker ever has the result in hand that continueOnFail makes of an error.
NeverRecovers == \A j \in JobIds : outcome[j].kind # "recovered"

LEMMA AttemptsRunOut ==
    ASSUME JobsInv, NEW j \in JobIds, pc[j] # "idle"
    PROVE  ~Recovers(j)
<1>1. jobs[j] = "active"
    BY DEF JobsInv, WorkerHasJob
<1>2. made[j] < MaxAttempts /\ made[j] \in Nat /\ MaxAttempts \in Nat
    BY <1>1, EngineAssumption DEF JobsInv, AttemptsLeft
<1> QED
    BY <1>2 DEF Recovers, AttemptsMade

LEMMA LeaveRecovers ==
    ASSUME JobsInv, NeverRecovers, NEW j \in JobIds, Leave(j)
    PROVE  NeverRecovers'
BY DEF Leave, JobsInv, NeverRecovers, NoOutcome

LEMMA RecoverStep ==
    ASSUME JobsInv, NeverRecovers, NEW j \in JobIds, Work(j) \/ Fail(j)
    PROVE  NeverRecovers'
<1>1. CASE UNCHANGED outcome \/ Leave(j)
    BY <1>1, LeaveRecovers DEF NeverRecovers
<1>2. CASE HandleExecutionError(j) /\ pc[j] # "idle"
    BY <1>1, <1>2, AttemptsRunOut DEF HandleExecutionError, FailAttempt
<1>3. CASE ExecuteNode(j)
  <2>1. PICK answer \in Behaviour[Node(j)] :
          \/ HandleExecutionError(j) \/ HandleRateLimit(j)
          \/ /\ answer.kind \notin {"throw", "limited"}
             /\ outcome' = [outcome EXCEPT ![j] = answer]
      BY <1>3 DEF ExecuteNode
  <2>2. CASE HandleRateLimit(j)
      BY <1>1, <1>3, <2>2, AttemptsRunOut DEF ExecuteNode, HandleRateLimit, MoveLimitedBack
  <2>3. CASE outcome' = [outcome EXCEPT ![j] = answer]
    <3>1. Node(j) \in Nodes
        BY DEF Node, JobIds
    <3>2. answer \in Answers
        BY <3>1, WorkflowAssumption
    <3> QED
        BY <2>3, <3>2 DEF Answers, JobsInv, NeverRecovers
  <2> QED
      BY <1>2, <1>3, <2>1, <2>2, <2>3 DEF ExecuteNode
<1>4. CASE ResumeDelay(j)
  <2>1. CASE outcome' = [outcome EXCEPT ![j] = [kind |-> "success", next |-> Children(Node(j))]]
      BY <2>1 DEF JobsInv, NeverRecovers
  <2> QED
      BY <1>1, <1>4, <2>1 DEF ResumeDelay, Finish
<1>5. CASE Fail(j)
    BY <1>1, <1>2, <1>5 DEF Fail, Crash, Throws, LoseFailure, FailAttempt, workVars
<1>6. CASE Work(j) /\ ~ExecuteNode(j) /\ ~ResumeDelay(j)
    BY <1>1, <1>6
       DEF Work, TakeJob, CheckIdempotency, CheckExecutionState, MoveToDelayed,
           ScheduleResume, ReturnDelayed, StoreResult, FailWorkflow, SkipChild,
           VisitChild, EnqueueChild, ChildrenDone, AcquireLock, ReadStatus,
           CountPending, CompleteWorkflow, ReleaseLock, Finish, KeepWork, workVars
<1> QED
    BY <1>3, <1>4, <1>5, <1>6

(***************************************************************************)
(* continueOnFail is without effect: BullMQ counts an attempt when it has  *)
(* failed, so no error of any node, with any number of attempts, crashes   *)
(* and retries, is turned into a success (the run continue_on_fail).       *)
(***************************************************************************)
THEOREM ContinueOnFailIsIgnored == Spec => []NeverRecovers
<1>1. Init => NeverRecovers
    BY DEF Init, Created, NeverRecovers, NoOutcome
<1>2. TypeInv /\ NeverRecovers /\ [Next]_vars => NeverRecovers'
  <2> SUFFICES ASSUME JobsInv, NeverRecovers, [Next]_vars
               PROVE  NeverRecovers'
      BY TypeInvParts
  <2>1. CASE UNCHANGED outcome
      BY <2>1 DEF NeverRecovers
  <2> QED
      BY <2>1, RecoverStep
         DEF Next, vars, workVars, EnqueueEntry, AbandonStart, DelayElapses, Listen,
             RecordPermanentFailure, FailExecution, CacheResult, LockExpires
<1> QED
    BY <1>1, <1>2, TypeInvariant, PTL DEF Spec

-----------------------------------------------------------------------------
(***************************************************************************)
(* Delay nodes.  Only the second job of a delay node gets as far as        *)
(* storing a result, and the cache listener is given a success only of a   *)
(* node that has a result already.                                         *)
(***************************************************************************)
DelayInv ==
    /\ \A j \in JobIds :
          /\ pc[j] \in PastStore => results[Node(j)] # "none"
          /\ pc[j] = "execute" => Node(j) \notin DelayNodes
          /\ pc[j] = "resume" => IsResumed(j)
          /\ pc[j] = "store" /\ Node(j) \in DelayNodes => IsResumed(j)
    /\ \A event \in cacheEvents : Resolved(event[2]) => results[event[1]] # "none"

\* Where a step may add to the left-hand sides of DelayInv.
DelayMoves(i) ==
    /\ pc'[i] \in PastStore => pc[i] \in PastStore \/ results'[Node(i)] # "none"
    /\ pc'[i] = "execute" => pc[i] = "execute" \/ Node(i) \notin DelayNodes
    /\ pc'[i] = "resume" => pc[i] = "resume" \/ IsResumed(i)
    /\ pc'[i] = "store" =>
          pc[i] \in {"store", "execute", "resume"} \/ Node(i) \notin DelayNodes

EventMoves ==
    \A event \in cacheEvents' :
       \/ event \in cacheEvents
       \/ Resolved(event[2]) => results[event[1]] # "none"

Delayed == (\A i \in JobIds : DelayMoves(i)) /\ EventMoves

LEMMA LeaveDelayed ==
    ASSUME JobsInv, NEW j \in JobIds, Leave(j), UNCHANGED cacheEvents
    PROVE  Delayed
BY DEF Leave, JobsInv, Delayed, DelayMoves, EventMoves, PastStore, InLock

LEMMA FinishDelayed ==
    ASSUME JobsInv, NEW j \in JobIds, NEW r, Finish(j, r),
           Resolved(r) => results[Node(j)] # "none"
    PROVE  Delayed
<1>1. \A i \in JobIds : DelayMoves(i)
    BY DEF Finish, Leave, JobsInv, DelayMoves, PastStore, InLock
<1>2. cacheEvents' = cacheEvents \cup {<<Node(j), r>>}
    BY DEF Finish
<1> QED
    BY <1>1, <1>2 DEF Delayed, EventMoves

LEMMA GotoDelayed ==
    ASSUME JobsInv, NEW j \in JobIds, NEW label, Goto(j, label), UNCHANGED cacheEvents,
           label \in PastStore => pc[j] \in PastStore,
           label \notin {"execute", "resume"},
           label = "store" =>
              pc[j] \in {"store", "execute", "resume"} \/ Node(j) \notin DelayNodes
    PROVE  Delayed
BY DEF Goto, JobsInv, Delayed, DelayMoves, EventMoves

LEMMA ErrorDelayed ==
    ASSUME JobsInv, NEW j \in JobIds, HandleExecutionError(j) \/ HandleRateLimit(j)
    PROVE  Delayed
<1>1. CASE Recovers(j) /\ Recover(j)
    BY <1>1, GotoDelayed DEF Recovers, Recover, listenerVars, PastStore, InLock
<1>2. CASE FailAttempt(j)
    BY <1>2, LeaveDelayed DEF FailAttempt
<1>3. CASE MoveLimitedBack(j)
    BY <1>3, LeaveDelayed DEF MoveLimitedBack, listenerVars
<1> QED
    BY <1>1, <1>2, <1>3 DEF HandleExecutionError, HandleRateLimit

LEMMA WorkDelayed ==
    ASSUME JobsInv, StoreInv, DelayInv, NEW j \in JobIds, Work(j)
    PROVE  Delayed
<1>n. Node(j) \in Nodes
    BY DEF Node, JobIds
<1> USE DEF PastStore, InLock, listenerVars
<1>1. CASE TakeJob(j)
    BY <1>1, GotoDelayed DEF TakeJob
<1>2. CASE CheckIdempotency(j)
  <2>1. Resolved(results[Node(j)]) => results[Node(j)] # "none"
      BY DEF Resolved
  <2> QED
      BY <1>2, <2>1, FinishDelayed, GotoDelayed DEF CheckIdempotency
<1>3. CASE CheckExecutionState(j)
  <2>1. CASE Finish(j, "failed")
      BY <2>1, FinishDelayed DEF Resolved
  <2>2. CASE MoveToDelayed(j)
      BY <2>2, LeaveDelayed DEF MoveToDelayed
  <2>3. CASE Goto(j, Handler(j)) /\ UNCHANGED listenerVars
    <3>1. /\ Handler(j) \in {"execute", "schedule", "resume"}
          /\ Handler(j) = "execute" => Node(j) \notin DelayNodes
          /\ Handler(j) = "resume" => IsResumed(j)
        BY DEF Handler
    <3> QED
        BY <2>3, <3>1 DEF Goto, JobsInv, Delayed, DelayMoves, EventMoves
  <2> QED
      BY <1>3, <2>1, <2>2, <2>3 DEF CheckExecutionState
<1>4. CASE ExecuteNode(j)
    BY <1>4, ErrorDelayed, GotoDelayed DEF ExecuteNode
<1>5. CASE ScheduleResume(j)
    BY <1>5, GotoDelayed DEF ScheduleResume
<1>6. CASE ReturnDelayed(j)
    BY <1>6, LeaveDelayed DEF ReturnDelayed
<1>7. CASE ResumeDelay(j)
    BY <1>7, FinishDelayed, GotoDelayed DEF ResumeDelay, Resolved
<1>8. CASE StoreResult(j)
  <2>1. results'[Node(j)] # "none" /\ UNCHANGED cacheEvents
      BY <1>8, <1>n DEF StoreResult, ResultOf, StoreInv
  <2> QED
      BY <1>8, <2>1 DEF StoreResult, Goto, JobsInv, Delayed, DelayMoves, EventMoves
<1>9. CASE FailWorkflow(j)
    BY <1>9, FinishDelayed DEF FailWorkflow, Resolved
<1>10. CASE SkipChild(j)
    BY <1>10 DEF SkipChild, Delayed, DelayMoves, EventMoves
<1>11. CASE VisitChild(j)
    BY <1>11, GotoDelayed DEF VisitChild, Delayed, DelayMoves, EventMoves
<1>12. CASE EnqueueChild(j)
    BY <1>12, GotoDelayed DEF EnqueueChild
<1>13. CASE ChildrenDone(j)
    BY <1>13, GotoDelayed DEF ChildrenDone
<1>14. CASE AcquireLock(j)
    BY <1>14, FinishDelayed, GotoDelayed DEF AcquireLock, DelayInv
<1>15. CASE ReadStatus(j)
    BY <1>15, GotoDelayed DEF ReadStatus
<1>16. CASE CountPending(j)
    BY <1>16, GotoDelayed DEF CountPending
<1>17. CASE CompleteWorkflow(j)
    BY <1>17, GotoDelayed DEF CompleteWorkflow
<1>18. CASE ReleaseLock(j)
    BY <1>18, FinishDelayed DEF ReleaseLock, DelayInv
<1> QED
    BY <1>1, <1>2, <1>3, <1>4, <1>5, <1>6, <1>7, <1>8, <1>9, <1>10, <1>11,
       <1>12, <1>13, <1>14, <1>15, <1>16, <1>17, <1>18 DEF Work

LEMMA EveryDelay ==
    ASSUME JobsInv, StoreInv, DelayInv, [Next]_vars
    PROVE  Delayed
<1>1. CASE UNCHANGED pc /\ cacheEvents' \subseteq cacheEvents
    BY <1>1 DEF Delayed, DelayMoves, EventMoves
<1>2. ASSUME NEW j \in JobIds, Work(j) PROVE Delayed
    BY <1>2, WorkDelayed
<1>3. ASSUME NEW j \in JobIds, Fail(j) PROVE Delayed
    BY <1>1, <1>3, LeaveDelayed, ErrorDelayed
       DEF Fail, Crash, Throws, LoseFailure, FailAttempt, listenerVars, workVars
<1> QED
    BY <1>1, <1>2, <1>3
       DEF Next, vars, workVars, listenerVars, EnqueueEntry, AbandonStart,
           DelayElapses, Listen, RecordPermanentFailure, FailExecution, CacheResult,
           LockExpires

LEMMA DelayStep ==
    ASSUME JobsInv, StoreInv, DelayInv, [Next]_vars
    PROVE  DelayInv'
<1>1. ASSUME NEW n \in Nodes, results[n] # "none" PROVE results'[n] # "none"
    BY <1>1, ResultsGrow DEF ResultsKept
<1>2. ASSUME NEW j \in JobIds
      PROVE  /\ pc'[j] \in PastStore => results'[Node(j)] # "none"
             /\ pc'[j] = "execute" => Node(j) \notin DelayNodes
             /\ pc'[j] = "resume" => IsResumed(j)
             /\ pc'[j] = "store" /\ Node(j) \in DelayNodes => IsResumed(j)
  <2>1. DelayMoves(j) /\ Node(j) \in Nodes
      BY EveryDelay DEF Delayed, Node, JobIds
  <2> QED
      BY <1>1, <2>1 DEF DelayMoves, DelayInv
<1>3. ASSUME NEW event \in cacheEvents', Resolved(event[2])
      PROVE  results'[event[1]] # "none"
  <2>1. event[1] \in Nodes
      BY <1>3, NextJobs DEF JobsInv
  <2>2. results[event[1]] # "none"
      BY <1>3, EveryDelay DEF Delayed, EventMoves, DelayInv
  <2> QED
      BY <1>1, <2>1, <2>2
<1> QED
    BY <1>2, <1>3 DEF DelayInv

\* The first success of a delay node is stored by its second job.
LEMMA FirstSuccess ==
    ASSUME JobsInv, StoreInv, DelayInv, [Next]_vars, NEW n \in DelayNodes,
           results[n] = "none", results'[n] = "success"
    PROVE  jobs[<<n, "resumed">>] = "active"
<1>1. n \in Nodes
    BY WorkflowAssumption
<1>2. CASE \E j \in JobIds : StoreResult(j)
  <2>1. PICK j \in JobIds : StoreResult(j)
      BY <1>2
  <2>2. Node(j) = n /\ pc[j] = "store"
      BY <1>1, <2>1 DEF StoreResult, StoreInv
  <2>3. IsResumed(j) /\ jobs[j] = "active"
      BY <2>2 DEF DelayInv, JobsInv, WorkerHasJob
  <2>4. j = <<n, "resumed">>
      BY <2>2, <2>3 DEF Node, IsResumed, JobIds
  <2> QED
      BY <2>3, <2>4
<1>3. CASE \E j \in JobIds : SkipChild(j)
    BY <1>1, <1>3 DEF SkipChild, StoreInv
<1>4. CASE \E j \in JobIds : RecordPermanentFailure(j)
    BY <1>1, <1>4 DEF RecordPermanentFailure, StoreInv
<1>5. ASSUME NEW event \in cacheEvents, CacheResult(event) PROVE FALSE
  <2>1. event[1] = n /\ event[2] = "success"
      BY <1>1, <1>5 DEF CacheResult, StoreInv
  <2> QED
      BY <1>5, <2>1 DEF DelayInv, Resolved
<1>6. ~UNCHANGED results
    OBVIOUS
<1> QED
    BY <1>2, <1>3, <1>4, <1>5, <1>6
       DEF Next, vars, storeVars, EnqueueEntry, AbandonStart, DelayElapses, Listen,
           FailExecution, LockExpires, Fail, Crash, Throws, LoseFailure, Work, TakeJob,
           CheckIdempotency, CheckExecutionState, ExecuteNode, ScheduleResume,
           ReturnDelayed, ResumeDelay, FailWorkflow, VisitChild, EnqueueChild,
           ChildrenDone, AcquireLock, ReadStatus, CountPending, CompleteWorkflow,
           ReleaseLock

\* No delay node succeeds before the job that waits for its duration runs, with
\* any crash, error or retry of the first job.
THEOREM DelaysAreWaitedFor == Spec => DelayIsWaitedFor
<1>1. Init => DelayInv
    BY DEF Init, Created, DelayInv, PastStore, InLock
<1>2. TypeInv /\ DelayInv /\ [Next]_vars => DelayInv'
    BY DelayStep, TypeInvParts
<1>3. TypeInv /\ DelayInv /\ [Next]_vars =>
        [\A n \in DelayNodes :
            results[n] = "none" /\ results'[n] = "success"
               => jobs[<<n, "resumed">>] \in {"active", "completed"}]_vars
    BY FirstSuccess, TypeInvParts
<1> QED
    BY <1>1, <1>2, <1>3, TypeInvariant, PTL DEF Spec, DelayIsWaitedFor

-----------------------------------------------------------------------------
(***************************************************************************)
(* Idempotency.  Where nobody branches a regular node has one job, whose   *)
(* worker has it to itself from the idempotency check on: what could       *)
(* resolve the node meanwhile is the same job, or the event of its end.    *)
(***************************************************************************)
IsChild(n) == \E m \in Nodes : n \in Children(m)

\* The ids under which a node can be in the queue.
Belongs(j) ==
    jobs[j] # "none" =>
        \/ j[2] = "manual" /\ Node(j) \in EntryNodes
        \/ j[2] = "node" /\ IsChild(Node(j))
        \/ Node(j) \in DelayNodes

\* Every child is visited to be run.
VisitsRun(visits) ==
    \A i \in DOMAIN visits : visits[i].run /\ IsChild(visits[i].node)

SelectsAll(j) ==
    /\ pc[j] = "schedule" => Node(j) \in DelayNodes
    /\ pc[j] = "store" =>
          outcome[j].kind = "failure" \/ Children(Node(j)) \subseteq outcome[j].next
    /\ VisitsRun(todo[j])

Unresolved(j) ==
    pc[j] \in {"state", "execute"} /\ Node(j) \notin DelayNodes => ~Resolved(results[Node(j)])

\* The event of a result follows the end of the job.
Ended(n) == \E j \in JobIds : Node(j) = n /\ jobs[j] = "completed"

EventsFollow ==
    \A event \in cacheEvents :
       Resolved(event[2]) => event[1] \in DelayNodes \/ Ended(event[1])

OneJobInv ==
    /\ \A j \in JobIds : Belongs(j) /\ SelectsAll(j) /\ Unresolved(j)
    /\ EventsFollow

LEMMA OnlyOneJob ==
    ASSUME NobodyBranches, NEW i \in JobIds, NEW j \in JobIds, Node(i) = Node(j),
           Node(j) \notin DelayNodes, jobs[i] # "none", jobs[j] # "none",
           Belongs(i), Belongs(j)
    PROVE  i = j
<1>1. i = <<Node(i), i[2]>> /\ j = <<Node(j), j[2]>>
    BY DEF JobIds, Node
<1>2. Node(j) \in Nodes
    BY DEF JobIds, Node
<1>3. ~(IsChild(Node(j)) /\ Node(j) \in EntryNodes)
    BY <1>2 DEF NobodyBranches, IsChild
<1>4. i[2] = j[2]
    BY <1>3 DEF Belongs
<1> QED
    BY <1>1, <1>4

LEMMA VisitsAllRun ==
    ASSUME NEW n \in Nodes, NEW next, Children(n) \subseteq next
    PROVE  VisitsRun(Visits(n, next))
<1>1. \A i \in DOMAIN Outputs[n] : Outputs[n][i] \in Children(n)
    BY DEF Children, Range
<1>2. /\ DOMAIN Visits(n, next) = DOMAIN Outputs[n]
      /\ \A i \in DOMAIN Outputs[n] :
            Visits(n, next)[i] = [node |-> Outputs[n][i], run |-> Outputs[n][i] \in next]
    BY DEF Visits
<1>3. ASSUME NEW i \in DOMAIN Outputs[n]
      PROVE  Visits(n, next)[i].run /\ Visits(n, next)[i].node \in Children(n)
  <2>1. (Outputs[n][i] \in next) = TRUE
      BY <1>1
  <2>2. Visits(n, next)[i] = [node |-> Outputs[n][i], run |-> TRUE]
      BY <1>2, <2>1, Zenon
  <2> QED
      BY <1>1, <2>2
<1> QED
    BY <1>2, <1>3 DEF VisitsRun, IsChild

LEMMA TailRuns ==
    ASSUME NEW s \in Seq(Visit), s # << >>, VisitsRun(s)
    PROVE  VisitsRun(Tail(s)) /\ Head(s).run /\ IsChild(Head(s).node)
<1>1. \A i \in DOMAIN Tail(s) : i + 1 \in DOMAIN s /\ Tail(s)[i] = s[i + 1]
    OBVIOUS
<1>2. 1 \in DOMAIN s /\ Head(s) = s[1]
    OBVIOUS
<1> QED
    BY <1>1, <1>2 DEF VisitsRun

-----------------------------------------------------------------------------
LEMMA LeaveSelects ==
    ASSUME JobsInv, NEW j \in JobIds, \A i \in JobIds : SelectsAll(i), Leave(j)
    PROVE  \A i \in JobIds : SelectsAll(i)'
BY DEF Leave, JobsInv, SelectsAll, VisitsRun

LEMMA GotoSelects ==
    ASSUME JobsInv, NEW j \in JobIds, \A i \in JobIds : SelectsAll(i), NEW label,
           Goto(j, label), label # "store", label = "schedule" => Node(j) \in DelayNodes,
           UNCHANGED <<outcome, todo>>
    PROVE  \A i \in JobIds : SelectsAll(i)'
BY DEF Goto, JobsInv, SelectsAll

LEMMA ErrorSelects ==
    ASSUME JobsInv, NEW j \in JobIds, \A i \in JobIds : SelectsAll(i),
           HandleExecutionError(j) \/ HandleRateLimit(j)
    PROVE  \A i \in JobIds : SelectsAll(i)'
<1>1. CASE Recover(j)
    BY <1>1 DEF Recover, Recovered, Goto, JobsInv, SelectsAll, VisitsRun
<1>2. CASE FailAttempt(j)
    BY <1>2, LeaveSelects DEF FailAttempt
<1>3. CASE MoveLimitedBack(j)
    BY <1>3, LeaveSelects DEF MoveLimitedBack
<1> QED
    BY <1>1, <1>2, <1>3 DEF HandleExecutionError, HandleRateLimit

LEMMA WorkSelects ==
    ASSUME NobodyBranches, JobsInv, \A i \in JobIds : SelectsAll(i),
           NEW j \in JobIds, Work(j)
    PROVE  \A i \in JobIds : SelectsAll(i)'
<1>n. Node(j) \in Nodes
    BY DEF Node, JobIds
<1> USE DEF KeepWork
<1>1. CASE TakeJob(j) \/ ScheduleResume(j)
    BY <1>1, GotoSelects DEF TakeJob, ScheduleResume
<1>2. CASE CheckIdempotency(j)
    BY <1>2, LeaveSelects, GotoSelects DEF CheckIdempotency, Finish
<1>3. CASE CheckExecutionState(j)
  <2>1. CASE Leave(j)
      BY <2>1, LeaveSelects
  <2>2. CASE Goto(j, Handler(j)) /\ KeepWork
    <3>1. Handler(j) # "store" /\ (Handler(j) = "schedule" => Node(j) \in DelayNodes)
        BY DEF Handler
    <3> QED
        BY <2>2, <3>1, GotoSelects
  <2> QED
      BY <1>3, <2>1, <2>2 DEF CheckExecutionState, Finish, MoveToDelayed
<1>4. CASE ExecuteNode(j)
  <2>1. PICK answer \in Behaviour[Node(j)] :
          \/ HandleExecutionError(j) \/ HandleRateLimit(j)
          \/ /\ answer.kind \notin {"throw", "limited"}
             /\ Goto(j, "store")
             /\ outcome' = [outcome EXCEPT ![j] = answer]
             /\ UNCHANGED todo
      BY <1>4 DEF ExecuteNode
  <2>2. answer.kind \in {"failure", "throw", "limited"} \/ Children(Node(j)) \subseteq answer.next
    <3>1. answer \in Answers
        BY <1>n, WorkflowAssumption
    <3>2. answer.kind = "success" => Children(Node(j)) \subseteq answer.next
        BY <1>n DEF NobodyBranches
    <3> QED
        BY <3>1, <3>2 DEF Answers
  <2> QED
      BY <2>1, <2>2, ErrorSelects DEF Goto, JobsInv, SelectsAll
<1>5. CASE ReturnDelayed(j)
    BY <1>5, LeaveSelects DEF ReturnDelayed
<1>6. CASE ResumeDelay(j)
  <2>1. CASE Leave(j)
      BY <2>1, LeaveSelects
  <2>2. CASE ~Leave(j)
      BY <1>6, <2>2 DEF ResumeDelay, Finish, Goto, JobsInv, SelectsAll
  <2> QED
      BY <2>1, <2>2
<1>7. CASE StoreResult(j)
  <2>1. CASE outcome[j].kind = "failure"
      BY <1>7, <2>1, GotoSelects DEF StoreResult
  <2>2. CASE outcome[j].kind # "failure"
    <3>1. VisitsRun(Visits(Node(j), outcome[j].next))
        BY <1>7, <1>n, <2>2, VisitsAllRun DEF StoreResult, SelectsAll
    <3>2. /\ \A i \in JobIds : pc'[i] = IF i = j THEN "children" ELSE pc[i]
          /\ UNCHANGED outcome
          /\ \A i \in JobIds :
                todo'[i] = IF i = j THEN Visits(Node(j), outcome[j].next) ELSE todo[i]
        BY <1>7, <2>2 DEF StoreResult, Goto, JobsInv
    <3> QED
        BY <3>1, <3>2 DEF SelectsAll
  <2> QED
      BY <2>1, <2>2
<1>8. CASE FailWorkflow(j) \/ ReleaseLock(j)
    BY <1>8, LeaveSelects DEF FailWorkflow, ReleaseLock, Finish
<1>9. CASE SkipChild(j)
    BY <1>9, TailRuns DEF SkipChild, JobsInv, SelectsAll
<1>10. CASE VisitChild(j) \/ EnqueueChild(j)
  <2>1. todo[j] \in Seq(Visit) /\ todo[j] # << >>
      BY <1>10 DEF VisitChild, EnqueueChild, JobsInv, ChildToEnqueue
  <2>2. VisitsRun(Tail(todo[j]))
      BY <2>1, TailRuns DEF SelectsAll
  <2>3. /\ UNCHANGED outcome
        /\ pc'[j] \notin {"store", "schedule"}
        /\ todo'[j] \in {todo[j], Tail(todo[j])}
        /\ \A i \in JobIds \ {j} : pc'[i] = pc[i] /\ todo'[i] = todo[i]
      BY <1>10 DEF VisitChild, EnqueueChild, Goto, JobsInv
  <2> QED
      BY <2>2, <2>3 DEF SelectsAll
<1>11. CASE ChildrenDone(j) \/ ReadStatus(j) \/ CountPending(j) \/ CompleteWorkflow(j)
    BY <1>11, GotoSelects DEF ChildrenDone, ReadStatus, CountPending, CompleteWorkflow
<1>12. CASE AcquireLock(j)
    BY <1>12, LeaveSelects, GotoSelects DEF AcquireLock, Finish
<1> QED
    BY <1>1, <1>2, <1>3, <1>4, <1>5, <1>6, <1>7, <1>8, <1>9, <1>10, <1>11, <1>12 DEF Work

LEMMA EverySelects ==
    ASSUME NobodyBranches, JobsInv, \A i \in JobIds : SelectsAll(i), [Next]_vars
    PROVE  \A i \in JobIds : SelectsAll(i)'
<1>1. CASE UNCHANGED workVars
    BY <1>1 DEF workVars, SelectsAll
<1>2. ASSUME NEW j \in JobIds, Work(j) PROVE \A i \in JobIds : SelectsAll(i)'
    BY <1>2, WorkSelects
<1>3. ASSUME NEW j \in JobIds, Fail(j) PROVE \A i \in JobIds : SelectsAll(i)'
    BY <1>1, <1>3, LeaveSelects, ErrorSelects DEF Fail, Crash, Throws, LoseFailure, FailAttempt
<1> QED
    BY <1>1, <1>2, <1>3
       DEF Next, vars, EnqueueEntry, AbandonStart, DelayElapses, Listen,
           RecordPermanentFailure, FailExecution, CacheResult, LockExpires

-----------------------------------------------------------------------------
LEMMA BelongsStep ==
    ASSUME JobsInv, StoreInv, \A i \in JobIds : Belongs(i) /\ SelectsAll(i), [Next]_vars,
           NEW i \in JobIds
    PROVE  Belongs(i)'
<1>1. CASE jobs[i] # "none"
    BY <1>1 DEF Belongs
<1>2. CASE jobs[i] = "none" /\ jobs'[i] # "none"
  <2>1. CASE i[2] = "manual" /\ Node(i) \in starting
      BY <2>1 DEF StoreInv, Belongs
  <2>2. ASSUME NEW j \in JobIds, pc[j] = "schedule", Node(j) = Node(i)
        PROVE  Belongs(i)'
      BY <2>2 DEF SelectsAll, Belongs
  <2>3. ASSUME NEW j \in JobIds, pc[j] = "enqueue", i = <<Head(todo[j]).node, "node">>
        PROVE  Belongs(i)'
    <3>1. todo[j] \in Seq(Visit) /\ todo[j] # << >>
        BY <2>3 DEF JobsInv, ChildToEnqueue
    <3>2. IsChild(Head(todo[j]).node)
        BY <3>1, TailRuns DEF SelectsAll
    <3> QED
        BY <2>3, <3>2 DEF Belongs, Node
  <2> QED
      BY <1>2, <2>1, <2>2, <2>3, EveryAdd DEF OnlyChildren
<1> QED
    BY <1>1, <1>2 DEF Belongs

\* A completed job is not touched any more.
LEMMA CompletedStays ==
    ASSUME JobsInv, StoreInv, [Next]_vars, NEW i \in JobIds, jobs[i] = "completed"
    PROVE  jobs'[i] = "completed"
<1>1. pc[i] = "idle"
    BY DEF JobsInv, WorkerHasJob
<1> USE DEF JobsInv, SetJob, AddJob
<1>2. ASSUME NEW j \in JobIds, Work(j) PROVE jobs'[i] = jobs[i]
  <2>1. i # j
      BY <1>1, <1>2 DEF Work, TakeJob, CheckIdempotency, CheckExecutionState, ExecuteNode,
            ScheduleResume, ReturnDelayed, ResumeDelay, StoreResult, FailWorkflow, SkipChild,
            VisitChild, EnqueueChild, ChildrenDone, AcquireLock, ReadStatus, CountPending,
            CompleteWorkflow, ReleaseLock
  <2>2. CASE TakeJob(j) \/ CheckIdempotency(j) \/ CheckExecutionState(j) \/ ReturnDelayed(j)
             \/ ResumeDelay(j) \/ FailWorkflow(j) \/ AcquireLock(j) \/ ReleaseLock(j)
      BY <2>1, <2>2 DEF TakeJob, CheckIdempotency, CheckExecutionState, ReturnDelayed,
            ResumeDelay, FailWorkflow, AcquireLock, ReleaseLock, Finish, MoveToDelayed,
            queueVars
  <2>3. CASE ExecuteNode(j)
      BY <2>1, <2>3 DEF ExecuteNode, HandleExecutionError, Recover, FailAttempt,
            HandleRateLimit, MoveLimitedBack, queueVars
  <2>4. CASE ScheduleResume(j) \/ EnqueueChild(j)
      BY <2>4 DEF ScheduleResume, EnqueueChild
  <2>5. CASE UNCHANGED queueVars
      BY <2>5 DEF queueVars
  <2> QED
      BY <1>2, <2>2, <2>3, <2>4, <2>5
         DEF Work, StoreResult, SkipChild, VisitChild, ChildrenDone, ReadStatus,
             CountPending, CompleteWorkflow
<1>3. ASSUME NEW j \in JobIds, Fail(j) PROVE jobs'[i] = jobs[i]
    BY <1>1, <1>3 DEF Fail, Crash, Throws, LoseFailure, HandleExecutionError, Recover,
          FailAttempt, queueVars
<1>4. ASSUME NEW j \in JobIds, DelayElapses(j) PROVE jobs'[i] = jobs[i]
    BY <1>4 DEF DelayElapses
<1>5. ASSUME NEW n \in Nodes, EnqueueEntry(n) PROVE jobs'[i] = jobs[i]
    BY <1>5 DEF EnqueueEntry
<1> QED
    BY <1>2, <1>3, <1>4, <1>5
       DEF Next, vars, queueVars, AbandonStart, Listen, RecordPermanentFailure,
           FailExecution, CacheResult, LockExpires

\* An event is new, or its job is.
LEMMA EventsStep ==
    ASSUME JobsInv, StoreInv, EventsFollow, [Next]_vars
    PROVE  EventsFollow'
<1>1. \A n : Ended(n) => Ended(n)'
    BY CompletedStays DEF Ended
<1>2. ASSUME NEW j \in JobIds, Work(j)
      PROVE  \/ cacheEvents' \subseteq cacheEvents
             \/ \E r : /\ cacheEvents' = cacheEvents \cup {<<Node(j), r>>}
                       /\ jobs'[j] = "completed"
  <2>1. ASSUME NEW r, Finish(j, r)
        PROVE  cacheEvents' = cacheEvents \cup {<<Node(j), r>>} /\ jobs'[j] = "completed"
      BY <2>1 DEF Finish, SetJob, JobsInv
  <2>2. CASE UNCHANGED listenerVars
      BY <2>2 DEF listenerVars
  <2> QED
      BY <1>2, <2>1, <2>2
         DEF Work, listenerVars, TakeJob, CheckIdempotency, CheckExecutionState, MoveToDelayed,
             ExecuteNode, HandleExecutionError, Recover, FailAttempt, HandleRateLimit,
             MoveLimitedBack, ScheduleResume, ReturnDelayed, ResumeDelay, StoreResult, FailWorkflow, SkipChild, VisitChild,
             EnqueueChild, ChildrenDone, AcquireLock, ReadStatus, CountPending,
             CompleteWorkflow, ReleaseLock
<1>3. CASE cacheEvents' \subseteq cacheEvents
    BY <1>1, <1>3 DEF EventsFollow
<1>4. ASSUME NEW j \in JobIds, NEW r, cacheEvents' = cacheEvents \cup {<<Node(j), r>>},
             jobs'[j] = "completed"
      PROVE  EventsFollow'
  <2>1. Ended(Node(j))'
      BY <1>4 DEF Ended
  <2> QED
      BY <1>1, <1>4, <2>1 DEF EventsFollow
<1> QED
    BY <1>2, <1>3, <1>4
       DEF Next, vars, listenerVars, EnqueueEntry, AbandonStart, DelayElapses, Listen,
           RecordPermanentFailure, FailExecution, CacheResult, LockExpires, Fail, Crash,
           Throws, LoseFailure, HandleExecutionError, Recover, FailAttempt

\* Where a worker is after the idempotency check.
LEMMA ChecksFirst ==
    ASSUME JobsInv, StoreInv, [Next]_vars, NEW i \in JobIds, pc'[i] \in {"state", "execute"}
    PROVE  \/ pc[i] \in {"state", "execute"}
           \/ ~Resolved(results[Node(i)]) /\ UNCHANGED results
<1> USE DEF JobsInv, Goto, Leave, Finish
<1>1. ASSUME NEW j \in JobIds, Work(j)
      PROVE  \/ pc[i] \in {"state", "execute"}
             \/ ~Resolved(results[Node(i)]) /\ UNCHANGED results
  <2>1. CASE TakeJob(j)
      BY <2>1 DEF TakeJob
  <2>2. CASE CheckIdempotency(j)
      BY <2>2 DEF CheckIdempotency, storeVars
  <2>3. CASE CheckExecutionState(j)
      BY <2>3 DEF CheckExecutionState, MoveToDelayed
  <2>4. CASE ExecuteNode(j)
      BY <2>4 DEF ExecuteNode, HandleExecutionError, Recover, FailAttempt, HandleRateLimit,
            MoveLimitedBack
  <2>5. CASE ScheduleResume(j) \/ ReturnDelayed(j) \/ ResumeDelay(j) \/ StoreResult(j)
             \/ FailWorkflow(j)
      BY <2>5 DEF ScheduleResume, ReturnDelayed, ResumeDelay, StoreResult, FailWorkflow
  <2>6. CASE SkipChild(j) \/ VisitChild(j) \/ EnqueueChild(j) \/ ChildrenDone(j)
      BY <2>6 DEF SkipChild, VisitChild, EnqueueChild, ChildrenDone
  <2>7. CASE AcquireLock(j) \/ ReadStatus(j) \/ CountPending(j) \/ CompleteWorkflow(j)
             \/ ReleaseLock(j)
      BY <2>7 DEF AcquireLock, ReadStatus, CountPending, CompleteWorkflow, ReleaseLock
  <2> QED
      BY <1>1, <2>1, <2>2, <2>3, <2>4, <2>5, <2>6, <2>7 DEF Work
<1>2. ASSUME NEW j \in JobIds, Fail(j) PROVE pc[i] \in {"state", "execute"}
    BY <1>2 DEF Fail, Crash, Throws, LoseFailure, HandleExecutionError, Recover,
          FailAttempt, workVars
<1> QED
    BY <1>1, <1>2
       DEF Next, vars, workVars, EnqueueEntry, AbandonStart, DelayElapses, Listen,
           RecordPermanentFailure, FailExecution, CacheResult, LockExpires

LEMMA UnresolvedStep ==
    ASSUME NobodyBranches, JobsInv, StoreInv, OneJobInv, [Next]_vars, NEW i \in JobIds
    PROVE  Unresolved(i)'
<1> SUFFICES ASSUME pc'[i] \in {"state", "execute"}, Node(i) \notin DelayNodes,
                    Resolved(results'[Node(i)])
             PROVE  FALSE
    BY DEF Unresolved
<1>1. pc[i] \in {"state", "execute"} /\ ~Resolved(results[Node(i)])
    BY ChecksFirst DEF OneJobInv, Unresolved
<1>2. jobs[i] = "active" /\ Node(i) \in Nodes
    BY <1>1 DEF JobsInv, WorkerHasJob, Node, JobIds
<1>3. ASSUME NEW j \in JobIds, Node(j) = Node(i), jobs[j] # "none" PROVE j = i
    BY <1>2, <1>3, OnlyOneJob DEF OneJobInv
<1>4. CASE \E j \in JobIds : StoreResult(j)
  <2>1. PICK j \in JobIds : StoreResult(j)
      BY <1>4
  <2>2. Node(j) = Node(i) /\ pc[j] = "store"
      BY <1>1, <1>2, <2>1 DEF StoreResult, StoreInv
  <2>3. jobs[j] # "none"
      BY <2>2 DEF JobsInv, WorkerHasJob
  <2> QED
      BY <1>1, <1>3, <2>2, <2>3
<1>5. CASE \E j \in JobIds : SkipChild(j)
    BY <1>5, TailRuns DEF SkipChild, JobsInv, OneJobInv, SelectsAll
<1>6. CASE \E j \in JobIds : RecordPermanentFailure(j)
    BY <1>1, <1>2, <1>6 DEF RecordPermanentFailure, StoreInv, Resolved
<1>7. ASSUME NEW event \in cacheEvents, CacheResult(event) PROVE FALSE
  <2>1. event[1] = Node(i) /\ Resolved(event[2])
      BY <1>1, <1>2, <1>7 DEF CacheResult, StoreInv
  <2>2. PICK j \in JobIds : Node(j) = Node(i) /\ jobs[j] = "completed"
      BY <2>1 DEF OneJobInv, EventsFollow, Ended
  <2> QED
      BY <1>2, <1>3, <2>2
<1>8. ~UNCHANGED results
    BY <1>1
<1> QED
    BY <1>4, <1>5, <1>6, <1>7, <1>8
       DEF Next, vars, storeVars, EnqueueEntry, AbandonStart, DelayElapses, Listen,
           FailExecution, LockExpires, Fail, Crash, Throws, LoseFailure, Work, TakeJob,
           CheckIdempotency, CheckExecutionState, ExecuteNode, ScheduleResume,
           ReturnDelayed, ResumeDelay, FailWorkflow, VisitChild, EnqueueChild,
           ChildrenDone, AcquireLock, ReadStatus, CountPending, CompleteWorkflow,
           ReleaseLock

(***************************************************************************)
(* Retries, crashes, errors and late events notwithstanding, an executor   *)
(* is not called for a node whose result is resolved, where no executor    *)
(* selects among its children.  (If one does, a second parent may skip a   *)
(* node while it is executed.)                                             *)
(***************************************************************************)
THEOREM NodesRunOnce ==
    ASSUME NobodyBranches
    PROVE  Spec => NoReexecution
<1>1. Init => DelayInv /\ OneJobInv
  <2> SUFFICES ASSUME Init PROVE DelayInv /\ OneJobInv
      OBVIOUS
  <2>1. \A j \in JobIds : jobs[j] = "none" /\ pc[j] = "idle" /\ todo[j] = << >>
      BY DEF Init, Created
  <2>2. cacheEvents = {}
      BY DEF Init, Created
  <2> QED
      BY <2>1, <2>2 DEF DelayInv, PastStore, InLock, OneJobInv, Belongs, SelectsAll,
            VisitsRun, Unresolved, EventsFollow
<1>2. TypeInv /\ DelayInv /\ OneJobInv /\ [Next]_vars => DelayInv' /\ OneJobInv'
    BY DelayStep, BelongsStep, EverySelects, UnresolvedStep, EventsStep, TypeInvParts
       DEF OneJobInv
<1>3. TypeInv /\ DelayInv /\ OneJobInv /\ [Next]_vars =>
        [\A j \in JobIds :
            pc[j] = "execute" /\ pc'[j] = "store" => ~Resolved(results[Node(j)])]_vars
    BY DEF DelayInv, OneJobInv, Unresolved
<1> QED
    BY <1>1, <1>2, <1>3, TypeInvariant, PTL DEF Spec, NoReexecution

=============================================================================
