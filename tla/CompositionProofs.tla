-------------------------- MODULE CompositionProofs --------------------------
(***************************************************************************)
(* Theorems about the modules that put something next to WorkflowRun, for  *)
(* any workflow, numbers of jobs and faults.  Of WorkflowControl and       *)
(* DeadLetters: what WorkflowRun promises while any number of clients take *)
(* jobs out of the queue and put them back.  Of SubWorkflow: the flow's    *)
(* aggregator waits for the whole child, and every execution the node      *)
(* starts but one is paid for by a fault.  Of EngineShutdown: what is kept *)
(* when the process ends in the middle of a run, and begins again.         *)
(***************************************************************************)
EXTENDS DeadLetters, SubWorkflow, EngineShutdown, WorkflowRunProofs

-----------------------------------------------------------------------------
(***************************************************************************)
(* WorkflowControl and DeadLetters                                         *)
(***************************************************************************)

Steps == {"idle", "status", "list", "loop", "readd"}

\* The clients' side of the type.  A client keeps a job exactly between the
\* removal and the add of pauseWorkflow.
ControlType ==
    /\ op \in [Callers -> Operations \cup {"none"}]
    /\ step \in [Callers -> Steps]
    /\ list \in [Callers -> SUBSET JobIds]
    /\ held \in [Callers -> JobIds \cup {NoJob}]
    /\ cancelled \in BOOLEAN
    /\ late \subseteq JobIds
    /\ \A c \in Callers :
          /\ step[c] \in {"status", "list"} => op[c] \in Operations
          /\ step[c] = "readd" <=> held[c] # NoJob

ControlTypeInv == JobsInv /\ StoreInv /\ ControlType

\* What the steps of a client leave of WorkflowRun's state.
HandsOff ==
    /\ UNCHANGED <<starting, workVars, results, lock, listenerVars, announced>>
    /\ status' \in {status} \cup {SetExecutionStatus(Guarded, status, NewStatus(operation)) :
                                    operation \in OperationNames}

LEMMA NoJobIsNone == NoJob \notin JobIds
    BY EngineAssumption DEF JobIds

LEMMA ControlHandsOff ==
    ASSUME ControlType, NEW c \in Callers,
           Control(c) \/ CallerCrash(c) \/ \E operation \in Operations : Call(c, operation)
    PROVE  HandsOff
<1>1. CASE WriteStatus(c)
    BY <1>1, ControlAssumption DEF WriteStatus, HandsOff, ControlType, observed
<1>2. CASE UNCHANGED <<starting, workVars, storeVars, lock, listenerVars, announced>>
    BY <1>2 DEF HandsOff, storeVars
<1> QED
    BY <1>1, <1>2 DEF Control, CallerCrash, Call, ListJobs, EndCall, ReAddJob, CancelJob,
          PauseJob, PromoteJob, RemoveJob, vars, observed

\* A job that a worker has is left alone.
LEMMA RemoveType ==
    ASSUME JobsInv, NEW j \in JobIds, jobs[j] # "active", RemoveJob(j)
    PROVE  JobsInv'
<1>1. 0 \in 0 .. MaxAttempts /\ 0 < MaxAttempts
    BY EngineAssumption
<1> QED
    BY <1>1 DEF RemoveJob, JobsInv, SetJob, JobStates, workVars, listenerVars,
          WorkerHasJob, AttemptsLeft, ChildToEnqueue

LEMMA PromoteType ==
    ASSUME JobsInv, NEW j \in JobIds, jobs[j] = "delayed",
           jobs' = SetJob(jobs, j, "waiting"), UNCHANGED <<made, workVars, listenerVars>>
    PROVE  JobsInv'
BY DEF JobsInv, SetJob, JobStates, workVars, listenerVars, WorkerHasJob, AttemptsLeft,
       ChildToEnqueue

LEMMA SameJobs ==
    ASSUME JobsInv, UNCHANGED <<queueVars, workVars, listenerVars>>
    PROVE  JobsInv'
BY DEF JobsInv, queueVars, workVars, listenerVars, WorkerHasJob, AttemptsLeft,
       ChildToEnqueue

\* A client's step keeps the queue and the workers in their types.
LEMMA ControlJobs ==
    ASSUME ControlTypeInv, NEW c \in Callers,
           Control(c) \/ CallerCrash(c) \/ \E operation \in Operations : Call(c, operation)
    PROVE  JobsInv'
<1> USE DEF ControlTypeInv
<1>1. CASE UNCHANGED <<queueVars, workVars, listenerVars>>
    BY <1>1, SameJobs
<1>2. ASSUME NEW j \in list[c], CancelJob(c, j) \/ PauseJob(c, j) PROVE JobsInv'
  <2>1. j \in JobIds
      BY DEF ControlType
  <2> QED
      BY <1>1, <1>2, <2>1, RemoveType DEF CancelJob, PauseJob, Removable, vars
<1>3. ASSUME NEW j \in list[c], PromoteJob(c, j) PROVE JobsInv'
  <2>1. j \in JobIds
      BY DEF ControlType
  <2> QED
      BY <1>1, <1>3, <2>1, PromoteType DEF PromoteJob, queueVars
<1>4. CASE ReAddJob(c)
  <2>1. held[c] \in JobIds /\ "delayed" \in JobStates \ {"failed", "active"}
      BY <1>4 DEF ReAddJob, ControlType, JobStates
  <2> QED
      BY <1>4, <2>1, AddJobType DEF ReAddJob
<1> QED
    BY <1>1, <1>2, <1>3, <1>4
       DEF Control, CallerCrash, Call, WriteStatus, ListJobs, EndCall, vars

LEMMA ControlStore ==
    ASSUME StoreInv, HandsOff, faults' \in Nat
    PROVE  StoreInv'
BY DEF HandsOff, StoreInv, SetExecutionStatus, NewStatus, Statuses, OperationNames

LEMMA ControlFaults ==
    ASSUME StoreInv, NEW c \in Callers,
           Control(c) \/ CallerCrash(c) \/ \E operation \in Operations : Call(c, operation)
    PROVE  faults' \in {faults, faults + 1}
BY DEF Control, CallerCrash, Call, WriteStatus, ListJobs, EndCall, ReAddJob, CancelJob,
       PauseJob, PromoteJob, RemoveJob, vars, observed, Fault

\* A client's own variables.
LEMMA ControlOwn ==
    ASSUME ControlTypeInv, NEW c \in Callers,
           Control(c) \/ CallerCrash(c) \/ \E operation \in Operations : Call(c, operation)
    PROVE  ControlType'
<1> USE NoJobIsNone, ControlAssumption
        DEF ControlTypeInv, ControlType, Steps, StepTo, Return, seen
<1>1. ASSUME NEW operation \in Operations, Call(c, operation) PROVE ControlType'
    BY <1>1 DEF Call
<1>2. CASE WriteStatus(c)
    BY <1>2 DEF WriteStatus
<1>3. CASE ListJobs(c)
  <2>1. JobsIn(jobs, Listed(op[c])) \subseteq JobIds
      BY DEF JobsIn, JobsInv
  <2> QED
      BY <1>3, <2>1 DEF ListJobs
<1>4. CASE EndCall(c)
    BY <1>4 DEF EndCall
<1>5. CASE ReAddJob(c)
    BY <1>5 DEF ReAddJob
<1>6. ASSUME NEW j \in list[c], CancelJob(c, j) PROVE ControlType'
    BY <1>6 DEF CancelJob
<1>7. ASSUME NEW j \in list[c], PauseJob(c, j) PROVE ControlType'
    BY <1>7 DEF PauseJob
<1>8. ASSUME NEW j \in list[c], PromoteJob(c, j) PROVE ControlType'
    BY <1>8 DEF PromoteJob
<1>9. CASE CallerCrash(c)
    BY <1>9 DEF CallerCrash
<1> QED
    BY <1>1, <1>2, <1>3, <1>4, <1>5, <1>6, <1>7, <1>8, <1>9 DEF Control

LEMMA ControlTypeStep ==
    ASSUME ControlTypeInv, [ControlNext]_allVars
    PROVE  ControlTypeInv'
<1>1. CASE UNCHANGED allVars
    BY <1>1, SameJobs DEF allVars, vars, storeVars, observed, controlVars, callVars, seen,
          ControlTypeInv, StoreInv, ControlType
<1>2. CASE RunStep
  <2>1. JobsInv' /\ StoreInv'
      BY <1>2, NextJobs, NextStore DEF RunStep, ControlTypeInv
  <2>2. late' \subseteq JobIds
      BY <1>2, <2>1 DEF RunStep, Observe, JobsIn, JobsInv
  <2> QED
      BY <1>2, <2>1, <2>2 DEF RunStep, Observe, callVars, ControlTypeInv, ControlType
<1>3. ASSUME NEW c \in Callers,
             Control(c) \/ CallerCrash(c) \/ \E operation \in Operations : Call(c, operation)
      PROVE  ControlTypeInv'
  <2>1. faults' \in Nat
      BY <1>3, ControlFaults DEF ControlTypeInv, StoreInv
  <2> QED
      BY <1>3, <2>1, ControlHandsOff, ControlJobs, ControlStore, ControlOwn
         DEF ControlTypeInv
<1> QED
    BY <1>1, <1>2, <1>3 DEF ControlNext

LEMMA ControlInitType == ControlInit => ControlTypeInv
<1> SUFFICES ASSUME ControlInit PROVE ControlTypeInv
    OBVIOUS
<1>1. JobsInv /\ StoreInv
    BY InitTypeInv, TypeInvParts DEF ControlInit
<1>2. ControlType
    BY DEF ControlInit, ControlType, Steps
<1> QED
    BY <1>1, <1>2 DEF ControlTypeInv

LEMMA ControlTypeInvariant == ControlSpec => []ControlTypeInv
    BY ControlInitType, ControlTypeStep, PTL DEF ControlSpec

\* A step of the run, or one of a client that keeps its hands off the results.
LEMMA RunOrControl ==
    ASSUME ControlTypeInv, [ControlNext]_allVars
    PROVE  [Next]_vars \/ HandsOff
<1>1. CASE UNCHANGED allVars
    BY <1>1 DEF allVars
<1>2. CASE RunStep
    BY <1>2 DEF RunStep
<1>3. ASSUME NEW c \in Callers,
             Control(c) \/ CallerCrash(c) \/ \E operation \in Operations : Call(c, operation)
      PROVE  HandsOff
    BY <1>3, ControlHandsOff DEF ControlTypeInv
<1> QED
    BY <1>1, <1>2, <1>3 DEF ControlNext

-----------------------------------------------------------------------------
(***************************************************************************)
(* The invariants of WorkflowRunProofs that a client does not disturb.     *)
(***************************************************************************)
LEMMA HandsOffStatus ==
    ASSUME HandsOff
    PROVE  status' \in {status, "cancelled", "paused", "running"}
BY DEF HandsOff, SetExecutionStatus, NewStatus, OperationNames

LEMMA ControlCompletionStep ==
    ASSUME ControlTypeInv, CompletionInv, [ControlNext]_allVars
    PROVE  CompletionInv'
<1>1. CASE [Next]_vars
    BY <1>1, CompletionStep DEF ControlTypeInv
<1>2. CASE HandsOff
    BY <1>2, HandsOffStatus DEF HandsOff, workVars, CompletionInv, AllHaveResults
<1> QED
    BY <1>1, <1>2, RunOrControl

LEMMA ControlFailStep ==
    ASSUME ControlTypeInv, FailInv, [ControlNext]_allVars
    PROVE  FailInv'
<1>1. CASE [Next]_vars
    BY <1>1, FailStep DEF ControlTypeInv
<1>2. CASE HandsOff
    BY <1>2 DEF HandsOff, workVars, listenerVars, FailInv
<1> QED
    BY <1>1, <1>2, RunOrControl

LEMMA ControlDelayStep ==
    ASSUME ControlTypeInv, DelayInv, [ControlNext]_allVars
    PROVE  DelayInv'
<1>1. CASE [Next]_vars
    BY <1>1, DelayStep DEF ControlTypeInv
<1>2. CASE HandsOff
    BY <1>2 DEF HandsOff, workVars, listenerVars, DelayInv
<1> QED
    BY <1>1, <1>2, RunOrControl

\* Neither a pause nor a cancellation, however it falls between the workers'
\* count of the results and their write of the status, makes an execution
\* 'completed' too early.
THEOREM CompletedIsCompleteUnderControl == ControlSpec => []CompletedHasAllResults
<1>1. ControlInit => CompletionInv
    BY DEF ControlInit, Init, Created, CompletionInv
<1>2. CompletionInv => CompletedHasAllResults
    BY DEF CompletionInv, AllHaveResults, CompletedHasAllResults
<1> QED
    BY <1>1, <1>2, ControlCompletionStep, ControlTypeInvariant, PTL DEF ControlSpec

\* A client's write of the status is a request of the abstract execution.
LEMMA ControlStepsAreAllowed ==
    ASSUME ControlTypeInv, CompletionInv, FailInv, [ControlNext]_allVars
    PROVE  [Promised!Next]_<<status, results>>
<1>1. CASE [Next]_vars
    BY <1>1, StepsAreAllowed DEF ControlTypeInv
<1>2. CASE HandsOff
  <2>1. CASE status' = status
      BY <1>2, <2>1 DEF HandsOff
  <2>2. ASSUME NEW operation \in OperationNames,
               status' = SetExecutionStatus(Guarded, status, NewStatus(operation))
        PROVE  Promised!Request
    <3>1. NewStatus(operation) \in {"cancelled", "paused", "running"}
        BY DEF NewStatus, OperationNames
    <3> QED
        BY <1>2, <2>2, <3>1 DEF HandsOff, Promised!Request, Promised!SetStatus,
              Promised!SetExecutionStatus, SetExecutionStatus
  <2> QED
      BY <1>2, <2>1, <2>2 DEF HandsOff, Promised!Next
<1> QED
    BY <1>1, <1>2, RunOrControl

\* The run with its control calls implements the abstract execution.
THEOREM ControlImplementsExecution == ControlSpec => ImplementsExecution
<1>1. ControlInit => CompletionInv /\ FailInv /\ Promised!Init
    BY DEF ControlInit, Init, Created, CompletionInv, FailInv, Promised!Init
<1> QED
    BY <1>1, ControlCompletionStep, ControlFailStep, ControlStepsAreAllowed,
       ControlTypeInvariant, PTL DEF ControlSpec, ImplementsExecution, Promised!Spec

\* A pause that takes the second job of a delay node out of the queue and puts
\* it back, or a resume that promotes it, does not let the first job answer for it.
THEOREM DelaysAreWaitedForUnderControl == ControlSpec => DelayIsWaitedFor
<1>1. ControlInit => DelayInv
    BY DEF ControlInit, Init, Created, DelayInv, PastStore, InLock
<1>2. ControlTypeInv /\ DelayInv /\ [ControlNext]_allVars =>
        [\A n \in DelayNodes :
            results[n] = "none" /\ results'[n] = "success"
               => jobs[<<n, "resumed">>] \in {"active", "completed"}]_vars
    BY RunOrControl, FirstSuccess DEF ControlTypeInv, HandsOff
<1> QED
    BY <1>1, <1>2, ControlDelayStep, ControlTypeInvariant, PTL
       DEF ControlSpec, DelayIsWaitedFor

-----------------------------------------------------------------------------
\* A job a client has listed, or keeps to add it again, has been in the queue:
\* if it is the job of a child, the parents of the child have results, and those
\* outlast any time the client takes.
HasParents(j) ==
    j[2] = "node" => \A p \in Inputs[Node(j)] : results[p] # "none"

ListedInv ==
    \A c \in Callers :
       /\ \A j \in list[c] : HasParents(j)
       /\ held[c] # NoJob => HasParents(held[c])

LEMMA ParentsStay ==
    ASSUME NEW j \in JobIds, HasParents(j), ResultsKept
    PROVE  HasParents(j)'
<1>1. Inputs[Node(j)] \subseteq Nodes
    BY WorkflowAssumption DEF JobIds, Node
<1> QED
    BY <1>1 DEF HasParents, ResultsKept

LEMMA QueuedHasParents ==
    ASSUME ParentsBeforeChildren, NEW j \in JobIds, jobs[j] # "none"
    PROVE  HasParents(j)
<1>1. j = <<Node(j), j[2]>> /\ Node(j) \in Nodes
    BY DEF JobIds, Node
<1> QED
    BY <1>1 DEF ParentsBeforeChildren, HasParents

LEMMA ListedStep ==
    ASSUME ControlTypeInv, ParentsBeforeChildren, ListedInv, NEW c \in Callers,
           Control(c) \/ CallerCrash(c) \/ \E operation \in Operations : Call(c, operation)
    PROVE  ListedInv'
<1>1. UNCHANGED results
    BY ControlHandsOff DEF ControlTypeInv, HandsOff
<1>2. \A j \in JobIds : HasParents(j)' = HasParents(j)
    BY <1>1 DEF HasParents
<1> USE DEF ControlTypeInv, ControlType, ListedInv, StepTo, Return, seen
<1>3. CASE ListJobs(c)
  <2>1. op[c] \in OperationNames
      BY <1>3, ControlAssumption DEF ListJobs
  <2>2. \A j \in JobsIn(jobs, Listed(op[c])) : j \in JobIds /\ jobs[j] # "none"
      BY <2>1 DEF JobsIn, JobsInv, Listed, OperationNames
  <2>3. \A j \in JobsIn(jobs, Listed(op[c])) : HasParents(j)'
      BY <1>2, <2>2, QueuedHasParents
  <2> QED
      BY <1>2, <1>3, <2>3, NoJobIsNone DEF ListJobs
<1>4. ASSUME NEW operation \in Operations, Call(c, operation) PROVE ListedInv'
    BY <1>2, <1>4 DEF Call
<1>5. CASE WriteStatus(c) \/ EndCall(c) \/ ReAddJob(c) \/ CallerCrash(c)
    BY <1>2, <1>5 DEF WriteStatus, EndCall, ReAddJob, CallerCrash
<1>6. ASSUME NEW j \in list[c], CancelJob(c, j) \/ PauseJob(c, j) \/ PromoteJob(c, j)
      PROVE  ListedInv'
    BY <1>2, <1>6 DEF CancelJob, PauseJob, PromoteJob
<1> QED
    BY <1>3, <1>4, <1>5, <1>6 DEF Control

LEMMA ControlParentsStep ==
    ASSUME ControlTypeInv, ParentsInv, ListedInv, [ControlNext]_allVars
    PROVE  ParentsInv' /\ ListedInv'
<1>1. CASE [Next]_vars /\ UNCHANGED <<list, held>>
  <2>1. ResultsKept /\ ParentsInv'
      BY <1>1, ResultsGrow, ParentsStep DEF ControlTypeInv
  <2>2. \A c \in Callers : list[c] \subseteq JobIds /\ (held[c] # NoJob => held[c] \in JobIds)
      BY DEF ControlTypeInv, ControlType
  <2> QED
      BY <1>1, <2>1, <2>2, ParentsStay DEF ListedInv
<1>2. ASSUME NEW c \in Callers,
             Control(c) \/ CallerCrash(c) \/ \E operation \in Operations : Call(c, operation)
      PROVE  ParentsInv' /\ ListedInv'
  <2>1. UNCHANGED <<pc, todo, results>>
      BY <1>2, ControlHandsOff DEF ControlTypeInv, HandsOff, workVars
  <2>2. ASSUME NEW j \in JobIds, jobs[j] = "none", jobs'[j] # "none" PROVE HasParents(j)
    <3>1. ReAddJob(c) /\ j = held[c] /\ held[c] # NoJob
        BY <1>2, <2>2, NoJobIsNone DEF Control, CallerCrash, Call, WriteStatus, ListJobs,
              EndCall, ReAddJob, CancelJob, PauseJob, PromoteJob, RemoveJob, SetJob, AddJob,
              ControlTypeInv, ControlType, JobsInv, vars, queueVars
    <3> QED
        BY <3>1 DEF ListedInv
  <2>3. ParentsBeforeChildren'
    <3> SUFFICES ASSUME NEW n \in Nodes, jobs'[<<n, "node">>] # "none", NEW p \in Inputs[n]
                 PROVE  results'[p] # "none"
        BY DEF ParentsBeforeChildren
    <3>1. <<n, "node">> \in JobIds
        BY DEF JobIds
    <3>2. CASE jobs[<<n, "node">>] # "none"
        BY <2>1, <3>2 DEF ParentsInv, ParentsBeforeChildren
    <3>3. CASE jobs[<<n, "node">>] = "none"
      <4>1. HasParents(<<n, "node">>)
          BY <2>2, <3>1, <3>3
      <4> QED
          BY <2>1, <4>1 DEF HasParents, Node
    <3> QED
        BY <3>2, <3>3
  <2>4. ParentsInv'
      BY <2>1, <2>3 DEF ParentsInv
  <2> QED
      BY <1>2, <2>4, ListedStep DEF ParentsInv
<1>3. CASE UNCHANGED allVars
    BY <1>1, <1>3 DEF allVars, controlVars, callVars
<1> QED
    BY <1>1, <1>2, <1>3 DEF ControlNext, RunStep, Observe, callVars

\* A child is enqueued only when each of its parents has a result, also by a
\* client that puts back a job it took out of the queue long before.
THEOREM ParentsComeFirstUnderControl == ControlSpec => []ParentsBeforeChildren
<1>1. ControlInit => ParentsInv /\ ListedInv
  <2> SUFFICES ASSUME ControlInit PROVE ParentsInv /\ ListedInv
      OBVIOUS
  <2>1. ASSUME NEW n \in Nodes PROVE jobs[<<n, "node">>] = "none"
      BY DEF ControlInit, Init, Created, JobIds
  <2> QED
      BY <2>1 DEF ControlInit, Init, Created, ParentsInv, ParentsBeforeChildren, ListedInv
<1>2. ParentsInv => ParentsBeforeChildren
    BY DEF ParentsInv
<1> QED
    BY <1>1, <1>2, ControlParentsStep, ControlTypeInvariant, PTL DEF ControlSpec

-----------------------------------------------------------------------------
(***************************************************************************)
(* Cancellation.  With the Drizzle store a cancellation that has taken     *)
(* effect stays, and routeNodeExecution lets no job past it.               *)
(***************************************************************************)
Early == {"idle", "route", "state"}

CancelInv ==
    /\ cancelled => status = "cancelled"
    /\ late # {} => cancelled
    /\ \A j \in late : pc[j] \in Early

\* What a step of the run can do to a job that has not reached its node: a job
\* becomes active by being taken, and passes the check of the status only when
\* the execution is not cancelled.
EarlyMoves(i) ==
    /\ pc[i] \in Early => pc'[i] \in Early \/ status # "cancelled"
    /\ jobs'[i] = "active" /\ jobs[i] # "active" => pc'[i] = "route"

LEMMA LeaveEarly ==
    ASSUME JobsInv, NEW j \in JobIds, Leave(j), NEW s, s # "active",
           jobs' = SetJob(jobs, j, s)
    PROVE  \A i \in JobIds : EarlyMoves(i)
BY DEF Leave, SetJob, JobsInv, EarlyMoves, Early

LEMMA GotoEarly ==
    ASSUME JobsInv, NEW j \in JobIds, NEW label, Goto(j, label), UNCHANGED jobs,
           pc[j] \in Early => label \in Early \/ status # "cancelled"
    PROVE  \A i \in JobIds : EarlyMoves(i)
BY DEF Goto, JobsInv, EarlyMoves

LEMMA ErrorEarly ==
    ASSUME JobsInv, NEW j \in JobIds,
           \/ (HandleExecutionError(j) \/ HandleRateLimit(j)) /\ pc[j] \notin Early
           \/ FailAttempt(j)
    PROVE  \A i \in JobIds : EarlyMoves(i)
<1>1. CASE Recover(j) /\ pc[j] \notin Early
    BY <1>1, GotoEarly DEF Recover, queueVars
<1>2. CASE FailAttempt(j)
    BY <1>2, LeaveEarly DEF FailAttempt, AfterFailure
<1>3. CASE MoveLimitedBack(j)
    BY <1>3, LeaveEarly DEF MoveLimitedBack
<1> QED
    BY <1>1, <1>2, <1>3 DEF HandleExecutionError, HandleRateLimit

LEMMA WorkEarly ==
    ASSUME JobsInv, NEW j \in JobIds, Work(j)
    PROVE  \A i \in JobIds : EarlyMoves(i)
<1> USE DEF Early
<1>f. ASSUME NEW r, Finish(j, r) PROVE \A i \in JobIds : EarlyMoves(i)
    BY <1>f, LeaveEarly DEF Finish
<1>1. CASE TakeJob(j)
    BY <1>1 DEF TakeJob, SetJob, Goto, JobsInv, EarlyMoves
<1>2. CASE CheckIdempotency(j)
    BY <1>2, <1>f, GotoEarly DEF CheckIdempotency, queueVars
<1>3. CASE CheckExecutionState(j)
    BY <1>3, <1>f, GotoEarly, LeaveEarly DEF CheckExecutionState, MoveToDelayed, queueVars
<1>4. CASE ExecuteNode(j)
    BY <1>4, ErrorEarly, GotoEarly DEF ExecuteNode, queueVars
<1>5. CASE ScheduleResume(j)
    BY <1>5 DEF ScheduleResume, AddJob, Goto, JobsInv, EarlyMoves
<1>6. CASE ReturnDelayed(j)
    BY <1>6, LeaveEarly DEF ReturnDelayed
<1>7. CASE ResumeDelay(j)
    BY <1>7, <1>f, GotoEarly DEF ResumeDelay, queueVars
<1>8. CASE StoreResult(j)
    BY <1>8, GotoEarly DEF StoreResult, queueVars
<1>9. CASE FailWorkflow(j)
    BY <1>9, <1>f DEF FailWorkflow
<1>10. CASE SkipChild(j)
    BY <1>10 DEF SkipChild, queueVars, EarlyMoves
<1>11. CASE VisitChild(j)
    BY <1>11, GotoEarly DEF VisitChild, queueVars, EarlyMoves
<1>12. CASE EnqueueChild(j)
    BY <1>12 DEF EnqueueChild, AddJob, Goto, JobsInv, EarlyMoves
<1>13. CASE ChildrenDone(j)
    BY <1>13, GotoEarly DEF ChildrenDone, queueVars
<1>14. CASE AcquireLock(j)
    BY <1>14, <1>f, GotoEarly DEF AcquireLock, queueVars
<1>15. CASE ReadStatus(j)
    BY <1>15, GotoEarly DEF ReadStatus, queueVars
<1>16. CASE CountPending(j)
    BY <1>16, GotoEarly DEF CountPending, queueVars
<1>17. CASE CompleteWorkflow(j)
    BY <1>17, GotoEarly DEF CompleteWorkflow, queueVars
<1>18. CASE ReleaseLock(j)
    BY <1>18, <1>f DEF ReleaseLock
<1> QED
    BY <1>1, <1>2, <1>3, <1>4, <1>5, <1>6, <1>7, <1>8, <1>9, <1>10, <1>11,
       <1>12, <1>13, <1>14, <1>15, <1>16, <1>17, <1>18 DEF Work

LEMMA EveryEarly ==
    ASSUME JobsInv, [Next]_vars
    PROVE  \A i \in JobIds : EarlyMoves(i)
<1>1. CASE UNCHANGED <<jobs, pc>>
    BY <1>1 DEF EarlyMoves
<1>2. ASSUME NEW j \in JobIds, Work(j) PROVE \A i \in JobIds : EarlyMoves(i)
    BY <1>2, WorkEarly
<1>3. ASSUME NEW n \in Nodes, EnqueueEntry(n) PROVE \A i \in JobIds : EarlyMoves(i)
    BY <1>3 DEF EnqueueEntry, AddJob, workVars, JobsInv, EarlyMoves
<1>4. ASSUME NEW j \in JobIds, DelayElapses(j) PROVE \A i \in JobIds : EarlyMoves(i)
    BY <1>4 DEF DelayElapses, SetJob, workVars, JobsInv, EarlyMoves
<1>5. ASSUME NEW j \in JobIds, Fail(j) PROVE \A i \in JobIds : EarlyMoves(i)
    BY <1>1, <1>5, LeaveEarly, ErrorEarly
       DEF Fail, Crash, Throws, LoseFailure, Early, InTry, InLock, queueVars, workVars
<1> QED
    BY <1>1, <1>2, <1>3, <1>4, <1>5
       DEF Next, vars, queueVars, workVars, AbandonStart, Listen, RecordPermanentFailure,
           FailExecution, CacheResult, LockExpires

LEMMA CancelStep ==
    ASSUME Guarded, ControlTypeInv, CancelInv, [ControlNext]_allVars
    PROVE  CancelInv'
<1>0. status = "cancelled" => status' = "cancelled"
  <2>1. [Next]_vars => StatusSet
      BY EveryStatusSet
  <2> QED
      BY <2>1, RunOrControl DEF StatusSet, HandsOff, SetExecutionStatus
<1>1. CASE UNCHANGED allVars
    BY <1>1 DEF allVars, vars, workVars, storeVars, controlVars, seen, CancelInv
<1>2. CASE RunStep
  <2>1. \A i \in JobIds : EarlyMoves(i)
      BY <1>2, EveryEarly DEF RunStep, ControlTypeInv
  <2>2. UNCHANGED cancelled
      BY <1>2 DEF RunStep, Observe
  <2>3. ASSUME NEW j \in late', j \notin late
        PROVE  cancelled /\ j \in JobIds /\ jobs'[j] = "active" /\ jobs[j] # "active"
    <3>1. /\ cancelled
          /\ j \in JobsIn(jobs', {"active"}) \ JobsIn(jobs, {"active"})
        BY <1>2, <2>3 DEF RunStep, Observe
    <3>2. DOMAIN jobs = JobIds /\ DOMAIN jobs' = JobIds
        BY <1>2, NextJobs DEF RunStep, ControlTypeInv, JobsInv
    <3> QED
        BY <3>1, <3>2 DEF JobsIn
  <2>4. late' # {} => cancelled
      BY <2>3 DEF CancelInv
  <2>5. ASSUME NEW j \in late' PROVE pc'[j] \in Early
    <3>1. CASE j \in late
        BY <2>1, <3>1 DEF EarlyMoves, CancelInv, ControlTypeInv, ControlType
    <3>2. CASE j \notin late
        BY <2>1, <2>3, <3>2 DEF EarlyMoves, Early
    <3> QED
        BY <3>1, <3>2
  <2> QED
      BY <1>0, <2>2, <2>4, <2>5 DEF CancelInv
<1>3. ASSUME NEW c \in Callers,
             Control(c) \/ CallerCrash(c) \/ \E operation \in Operations : Call(c, operation)
      PROVE  CancelInv'
  <2>1. UNCHANGED pc
      BY <1>3, ControlHandsOff DEF ControlTypeInv, HandsOff, workVars
  <2>2. CASE WriteStatus(c)
      BY <1>0, <2>1, <2>2 DEF WriteStatus, CancelInv
  <2>3. CASE UNCHANGED seen
      BY <1>0, <2>1, <2>3 DEF seen, CancelInv
  <2> QED
      BY <1>3, <2>2, <2>3 DEF Control, CallerCrash, Call, ListJobs, EndCall, ReAddJob,
            CancelJob, PauseJob, PromoteJob, seen
<1> QED
    BY <1>1, <1>2, <1>3 DEF ControlNext

\* cancelWorkflow: with the Drizzle store no job taken after a cancellation has
\* taken effect reaches its node, in whatever state the jobs are that the call
\* could not remove, and whatever pauses and resumes follow.
THEOREM CancellationStops ==
    ASSUME Guarded
    PROVE  ControlSpec => []CancelStopsExecution
<1>1. ControlInit => CancelInv
    BY DEF ControlInit, CancelInv
<1>2. CancelInv => CancelStopsExecution
    BY DEF CancelInv, CancelStopsExecution, Early
<1> QED
    BY <1>1, <1>2, CancelStep, ControlTypeInvariant, PTL DEF ControlSpec

-----------------------------------------------------------------------------
(***************************************************************************)
(* The dead letters.                                                       *)
(***************************************************************************)
DeadType ==
    /\ letters \subseteq lettered
    /\ moved \subseteq lettered
    /\ lettered \subseteq JobIds
    /\ found \in [Retriers -> JobIds \cup {NoJob}]
    /\ added \subseteq Retriers
    /\ retriedBy \in [JobIds -> SUBSET JobIds]
    /\ \A r \in added : found[r] # NoJob
    /\ \A r \in Retriers : found[r] # NoJob => found[r] \in lettered

DeadTypeInv == ControlTypeInv /\ DeadType

\* A client's own steps leave the run alone, but for the retry it adds.
LEMMA AddRetryType ==
    ASSUME DeadTypeInv, NEW r \in Retriers, NEW stamp \in Retries, AddRetry(r, stamp)
    PROVE  /\ ControlTypeInv'
           /\ \E job \in JobIds :
                 /\ jobs' = AddJob(jobs, job, "waiting")
                 /\ retriedBy' = [retriedBy EXCEPT ![found[r]] = @ \cup {job}]
<1>1. found[r] \in JobIds
    BY DEF DeadTypeInv, DeadType, AddRetry, Idle
<1>2. <<Node(found[r]), stamp>> \in JobIds
    BY <1>1 DEF Node, JobIds
<1>3. /\ jobs' = AddJob(jobs, <<Node(found[r]), stamp>>, "waiting")
      /\ retriedBy' = [retriedBy EXCEPT ![found[r]] = @ \cup {<<Node(found[r]), stamp>>}]
    BY DEF AddRetry
<1>4. JobsInv'
  <2>1. "waiting" \in JobStates \ {"failed", "active"}
      BY DEF JobStates
  <2> QED
      BY <1>2, <1>3, <2>1, AddJobType DEF AddRetry, DeadTypeInv, ControlTypeInv
<1>5. StoreInv' /\ ControlType'
    BY DEF AddRetry, DeadTypeInv, ControlTypeInv, StoreInv, ControlType, storeVars, observed,
           controlVars, callVars, seen
<1> QED
    BY <1>2, <1>3, <1>4, <1>5 DEF ControlTypeInv

LEMMA DeadTypeStep ==
    ASSUME DeadTypeInv, [DeadNext]_deadVars
    PROVE  DeadTypeInv'
<1> USE NoJobIsNone DEF DeadTypeInv
<1>1. UNCHANGED allVars => ControlTypeInv'
    BY ControlTypeStep
<1>2. CASE UNCHANGED deadVars
    BY <1>1, <1>2 DEF deadVars, letterVars, retryVars, DeadType
<1>3. CASE EngineStep
  <2>1. ControlTypeInv'
      BY <1>3, ControlTypeStep DEF EngineStep
  <2> QED
      BY <1>3, <2>1 DEF EngineStep, LettersKept, retryVars, DeadType
<1>4. ASSUME NEW j \in JobIds, MoveToDLQ(j) PROVE DeadTypeInv'
    BY <1>1, <1>4 DEF MoveToDLQ, retryVars, DeadType
<1>5. ASSUME NEW r \in Retriers, NEW j \in letters, FindLetter(r, j) PROVE DeadTypeInv'
  <2>1. j \in JobIds
      BY DEF DeadType
  <2> QED
      BY <1>1, <1>5, <2>1 DEF FindLetter, letterVars, DeadType
<1>6. ASSUME NEW r \in Retriers, NEW stamp \in Retries, AddRetry(r, stamp)
      PROVE  DeadTypeInv'
  <2>1. ControlTypeInv' /\ retriedBy' \in [JobIds -> SUBSET JobIds]
      BY <1>6, AddRetryType DEF DeadType
  <2> QED
      BY <1>6, <2>1 DEF AddRetry, Idle, letterVars, DeadType
<1>7. ASSUME NEW r \in Retriers, RemoveLetter(r) \/ RetryFails(r) PROVE DeadTypeInv'
    BY <1>1, <1>7 DEF RemoveLetter, RetryFails, letterVars, DeadType
<1> QED
    BY <1>2, <1>3, <1>4, <1>5, <1>6, <1>7 DEF DeadNext

LEMMA DeadTypeInvariant == DeadSpec => []DeadTypeInv
<1>1. DeadInit => DeadTypeInv
    BY ControlInitType DEF DeadInit, DeadTypeInv, DeadType
<1> QED
    BY <1>1, DeadTypeStep, PTL DEF DeadSpec

-----------------------------------------------------------------------------
(***************************************************************************)
(* A job the queue knows, or that pauseWorkflow has in its hands.  Only    *)
(* cancelWorkflow, or the death of a client in pauseWorkflow, loses one.   *)
(***************************************************************************)
Known(j) == jobs[j] # "none" \/ \E c \in Callers : held[c] = j

LEMMA ControlKnows ==
    ASSUME ControlTypeInv, "cancel" \notin Operations, NEW c \in Callers,
           Control(c) \/ \E operation \in Operations : Call(c, operation),
           NEW j \in JobIds, Known(j)
    PROVE  Known(j)'
<1> USE NoJobIsNone DEF ControlTypeInv, JobsInv, ControlType, Known
<1>1. CASE UNCHANGED <<jobs, held>>
    BY <1>1
<1>2. ASSUME NEW i \in list[c], CancelJob(c, i) PROVE FALSE
    BY <1>2 DEF CancelJob
<1>3. ASSUME NEW i \in list[c], PauseJob(c, i) PROVE Known(j)'
  <2>1. held[c] = NoJob /\ i \in JobIds
      BY <1>3 DEF PauseJob
  <2>2. CASE RemoveJob(i) /\ held' = [held EXCEPT ![c] = i]
    <3>1. CASE i = j
        BY <2>2, <3>1
    <3>2. CASE i # j
      <4>1. jobs'[j] = jobs[j]
          BY <2>2, <3>2 DEF RemoveJob, SetJob
      <4>2. \A d \in Callers : held[d] = j => held'[d] = j
          BY <2>1, <2>2
      <4> QED
          BY <4>1, <4>2
    <3> QED
        BY <3>1, <3>2
  <2>3. CASE UNCHANGED <<vars, held>>
      BY <1>1, <2>3 DEF vars, queueVars
  <2> QED
      BY <1>3, <2>2, <2>3 DEF PauseJob
<1>4. ASSUME NEW i \in list[c], PromoteJob(c, i) PROVE Known(j)'
    BY <1>4 DEF PromoteJob, SetJob
<1>5. CASE ReAddJob(c)
    BY <1>5 DEF ReAddJob, AddJob
<1> QED
    BY <1>1, <1>2, <1>3, <1>4, <1>5
       DEF Control, Call, WriteStatus, ListJobs, EndCall, vars, queueVars

LEMMA KnownStays ==
    ASSUME DeadTypeInv, "cancel" \notin Operations, [DeadNext]_deadVars,
           \A c \in Callers : ~CallerCrash(c), NEW j \in JobIds, Known(j)
    PROVE  Known(j)'
<1> USE DEF DeadTypeInv, ControlTypeInv
<1>1. CASE UNCHANGED allVars
    BY <1>1 DEF allVars, vars, queueVars, controlVars, callVars, Known
<1>2. CASE RunStep
    BY <1>2, JobsStay DEF RunStep, Observe, callVars, Known, JobsKept
<1>3. ASSUME NEW c \in Callers,
             Control(c) \/ \E operation \in Operations : Call(c, operation)
      PROVE  Known(j)'
    BY <1>3, ControlKnows
<1>4. ASSUME NEW r \in Retriers, NEW stamp \in Retries, AddRetry(r, stamp)
      PROVE  Known(j)'
  <2>1. JobsKept
      BY <1>4, AddJobKeeps DEF AddRetry
  <2> QED
      BY <1>4, <2>1 DEF AddRetry, controlVars, callVars, Known, JobsKept
<1> QED
    BY <1>1, <1>2, <1>3, <1>4
       DEF DeadNext, deadVars, EngineStep, ControlNext, MoveToDLQ, FindLetter,
           RemoveLetter, RetryFails

\* A letter leaves its queue only after a retry was added, and the retries are
\* known ever after.
LetterInv ==
    /\ \A j \in JobIds : \A job \in retriedBy[j] : Known(job)
    /\ \A r \in added : retriedBy[found[r]] # {}
    /\ \A j \in lettered \ letters : retriedBy[j] # {}

LEMMA LetterStep ==
    ASSUME DeadTypeInv, LetterInv, "cancel" \notin Operations, "crash" \notin Faults,
           [DeadNext]_deadVars
    PROVE  LetterInv'
<1>0. \A c \in Callers : ~CallerCrash(c)
    BY DEF CallerCrash, Fault
<1>1. ASSUME UNCHANGED retriedBy
      PROVE  \A j \in JobIds : \A job \in retriedBy'[j] : Known(job)'
  <2>1. ASSUME NEW j \in JobIds, NEW job \in retriedBy'[j] PROVE Known(job)'
    <3>1. job \in JobIds /\ Known(job)
        BY <1>1, <2>1 DEF DeadTypeInv, DeadType, LetterInv
    <3> QED
        BY <1>0, <3>1, KnownStays
  <2> QED
      BY <2>1
<1>2. CASE UNCHANGED <<letterVars, retryVars>>
    BY <1>1, <1>2 DEF letterVars, retryVars, LetterInv
<1>3. CASE EngineStep
    BY <1>1, <1>3 DEF EngineStep, LettersKept, retryVars, LetterInv
<1>4. ASSUME NEW j \in JobIds, MoveToDLQ(j) PROVE LetterInv'
    BY <1>1, <1>4 DEF MoveToDLQ, retryVars, LetterInv
<1>5. ASSUME NEW r \in Retriers, NEW j \in letters, FindLetter(r, j) PROVE LetterInv'
  <2>1. r \notin added
      BY <1>5 DEF FindLetter, Idle, DeadTypeInv, DeadType
  <2> QED
      BY <1>1, <1>5, <2>1 DEF FindLetter, letterVars, LetterInv, DeadTypeInv, DeadType
<1>6. ASSUME NEW r \in Retriers, NEW stamp \in Retries, AddRetry(r, stamp)
      PROVE  LetterInv'
  <2>1. PICK job \in JobIds :
          /\ jobs' = AddJob(jobs, job, "waiting")
          /\ retriedBy' = [retriedBy EXCEPT ![found[r]] = @ \cup {job}]
      BY <1>6, AddRetryType
  <2>2. found[r] \in JobIds /\ added' = added \cup {r} /\ UNCHANGED <<found, letters, lettered>>
      BY <1>6 DEF AddRetry, Idle, DeadTypeInv, DeadType, letterVars
  <2>3. ASSUME NEW j \in JobIds, NEW i \in retriedBy'[j] PROVE Known(i)'
    <3>1. i = job \/ i \in retriedBy[j]
        BY <2>1, <2>2, <2>3 DEF DeadTypeInv, DeadType
    <3>2. CASE i = job
        BY <2>1, <3>2 DEF AddJob, Known, DeadTypeInv, ControlTypeInv, JobsInv
    <3>3. CASE i \in retriedBy[j]
      <4>1. i \in JobIds /\ Known(i)
          BY <3>3 DEF DeadTypeInv, DeadType, LetterInv
      <4> QED
          BY <1>0, <4>1, KnownStays
    <3> QED
        BY <3>1, <3>2, <3>3
  <2>4. \A j \in JobIds : retriedBy[j] # {} => retriedBy'[j] # {}
      BY <2>1, <2>2 DEF DeadTypeInv, DeadType
  <2>5. retriedBy'[found[r]] # {}
      BY <2>1, <2>2 DEF DeadTypeInv, DeadType
  <2>6. \A q \in added : found[q] \in JobIds
      BY DEF DeadTypeInv, DeadType
  <2>7. lettered \subseteq JobIds
      BY DEF DeadTypeInv, DeadType
  <2> QED
      BY <2>2, <2>3, <2>4, <2>5, <2>6, <2>7 DEF LetterInv
<1>7. ASSUME NEW r \in Retriers, RemoveLetter(r) PROVE LetterInv'
    BY <1>1, <1>7 DEF RemoveLetter, LetterInv, DeadTypeInv, DeadType
<1>8. ASSUME NEW r \in Retriers, RetryFails(r) PROVE LetterInv'
    BY <1>1, <1>8 DEF RetryFails, letterVars, LetterInv, DeadTypeInv, DeadType
<1> QED
    BY <1>2, <1>3, <1>4, <1>5, <1>6, <1>7, <1>8 DEF DeadNext, deadVars

\* retryDLQItem adds the job before it removes the item: as long as nobody
\* cancels and no client dies between the remove and the add of pauseWorkflow,
\* every dead letter is in its queue or has been retried by a job that is not
\* lost, for any number of clients that retry the same item and pause.
THEOREM LettersAreKept ==
    ASSUME "cancel" \notin Operations, "crash" \notin Faults
    PROVE  DeadSpec => []NoLetterLost
<1>1. DeadInit => LetterInv
    BY DEF DeadInit, LetterInv
<1>2. DeadTypeInv /\ LetterInv /\ [DeadNext]_deadVars => LetterInv'
    BY LetterStep
<1>3. DeadTypeInv /\ LetterInv => NoLetterLost
    BY DEF LetterInv, NoLetterLost, Known, DeadTypeInv, DeadType
<1> QED
    BY <1>1, <1>2, <1>3, DeadTypeInvariant, PTL DEF DeadSpec

-----------------------------------------------------------------------------
(***************************************************************************)
(* Pausing.  The argument about the joins, with the queue's jobs and those *)
(* in the hands of pauseWorkflow together.  It ends with a fault or with   *)
(* the first failure: the in-memory store would let a resume reopen a      *)
(* failed execution, so the status does not tell.                          *)
(***************************************************************************)
Lost == faults > 0 \/ failing # {} \/ lettered # {}

KnownHandled(j) ==
    \/ Resolved(results[Node(j)])
    \/ ~IsResumed(j) /\ Known(<<Node(j), "resumed">>)

JobsKnown ==
    /\ \A j \in JobIds :
          /\ jobs[j] = "completed" => KnownHandled(j)
          /\ pc[j] = "scheduled" => Known(<<Node(j), "resumed">>)
    /\ \A n \in Nodes : Ahead(n) \/ \E j \in JobIds : Node(j) = n /\ Known(j)

NothingFails ==
    /\ \A j \in JobIds : pc[j] # "fail" /\ outcome[j].kind # "failure"
    /\ status \in {"running", "paused", "completed"}

PauseInv ==
    /\ recorded \subseteq lettered
    /\ Lost \/ (WorkersInStep /\ EventsResolved /\ JobsKnown /\ NothingFails)

\* No executor answers success: false, so that a failure is a throw.
NoFailures == \A n \in Nodes : \A answer \in Behaviour[n] : answer.kind # "failure"

LEMMA LeaveNoFailure ==
    ASSUME JobsInv, NEW j \in JobIds, Leave(j), NEW i \in JobIds
    PROVE  /\ pc'[i] = "fail" => pc[i] = "fail"
           /\ outcome'[i].kind = "failure" => outcome[i].kind = "failure"
BY DEF Leave, JobsInv, NoOutcome

LEMMA ErrorNoFailure ==
    ASSUME JobsInv, NEW j \in JobIds, NEW i \in JobIds,
           HandleExecutionError(j) \/ HandleRateLimit(j)
    PROVE  /\ pc'[i] = "fail" => pc[i] = "fail"
           /\ outcome'[i].kind = "failure" => outcome[i].kind = "failure"
<1>1. CASE Recover(j)
    BY <1>1 DEF Recover, Recovered, Goto, JobsInv
<1>2. CASE FailAttempt(j)
    BY <1>2, LeaveNoFailure DEF FailAttempt
<1>3. CASE MoveLimitedBack(j)
    BY <1>3, LeaveNoFailure DEF MoveLimitedBack
<1> QED
    BY <1>1, <1>2, <1>3 DEF HandleExecutionError, HandleRateLimit

\* Without a failed answer, 'failed' is written only for a recorded failure.
LEMMA WorkNoFailure ==
    ASSUME NoFailures, JobsInv, NothingFails, NEW j \in JobIds, Work(j)
    PROVE  NothingFails'
<1> USE DEF JobsInv, Goto, KeepWork, storeVars, NothingFails
<1>n. Node(j) \in Nodes
    BY DEF Node, JobIds
<1>f. ASSUME NEW r, Finish(j, r), UNCHANGED status PROVE NothingFails'
    BY <1>f, LeaveNoFailure DEF Finish
<1>1. CASE TakeJob(j)
    BY <1>1 DEF TakeJob
<1>2. CASE CheckIdempotency(j)
    BY <1>2, <1>f DEF CheckIdempotency
<1>3. CASE CheckExecutionState(j)
  <2>1. Handler(j) # "fail"
      BY DEF Handler
  <2> QED
      BY <1>3, <1>f, <2>1, LeaveNoFailure DEF CheckExecutionState, MoveToDelayed
<1>4. CASE ExecuteNode(j)
  <2>1. \A answer \in Behaviour[Node(j)] : answer.kind # "failure"
      BY <1>n DEF NoFailures
  <2> QED
      BY <1>4, <2>1, ErrorNoFailure DEF ExecuteNode
<1>5. CASE ScheduleResume(j)
    BY <1>5 DEF ScheduleResume
<1>6. CASE ReturnDelayed(j)
    BY <1>6, LeaveNoFailure DEF ReturnDelayed
<1>7. CASE ResumeDelay(j)
    BY <1>7, <1>f DEF ResumeDelay
<1>8. CASE StoreResult(j)
    BY <1>8 DEF StoreResult
<1>9. CASE FailWorkflow(j)
    BY <1>9 DEF FailWorkflow
<1>10. CASE SkipChild(j)
    BY <1>10 DEF SkipChild
<1>11. CASE VisitChild(j)
    BY <1>11 DEF VisitChild
<1>12. CASE EnqueueChild(j)
    BY <1>12 DEF EnqueueChild
<1>13. CASE ChildrenDone(j)
    BY <1>13 DEF ChildrenDone
<1>14. CASE AcquireLock(j)
    BY <1>14, <1>f DEF AcquireLock
<1>15. CASE ReadStatus(j)
    BY <1>15 DEF ReadStatus
<1>16. CASE CountPending(j)
    BY <1>16 DEF CountPending
<1>17. CASE CompleteWorkflow(j)
    BY <1>17 DEF CompleteWorkflow, SetExecutionStatus
<1>18. CASE ReleaseLock(j)
    BY <1>18, <1>f DEF ReleaseLock
<1> QED
    BY <1>1, <1>2, <1>3, <1>4, <1>5, <1>6, <1>7, <1>8, <1>9, <1>10, <1>11,
       <1>12, <1>13, <1>14, <1>15, <1>16, <1>17, <1>18 DEF Work

LEMMA EveryNoFailure ==
    ASSUME NoFailures, JobsInv, NothingFails, recorded = {}, [Next]_vars
    PROVE  NothingFails'
<1>1. CASE UNCHANGED <<pc, outcome, status>>
    BY <1>1 DEF NothingFails
<1>2. ASSUME NEW j \in JobIds, Work(j) PROVE NothingFails'
    BY <1>2, WorkNoFailure
<1>3. ASSUME NEW j \in JobIds, Fail(j) PROVE NothingFails'
    BY <1>1, <1>3, LeaveNoFailure, ErrorNoFailure
       DEF Fail, Crash, Throws, LoseFailure, FailAttempt, NothingFails, workVars, storeVars
<1> QED
    BY <1>1, <1>2, <1>3
       DEF Next, vars, workVars, storeVars, EnqueueEntry, AbandonStart, DelayElapses,
           Listen, RecordPermanentFailure, FailExecution, CacheResult, LockExpires

\* The listener records a failure before it lets go of it.
LEMMA FailingRecorded ==
    ASSUME JobsInv, StoreInv, [Next]_vars, faults' = faults,
           NEW j \in failing, j \notin failing'
    PROVE  j \in recorded'
<1>1. ASSUME NEW i \in JobIds, Work(i) PROVE failing \subseteq failing'
    BY <1>1 DEF Work, TakeJob, CheckIdempotency, CheckExecutionState, ExecuteNode,
          HandleExecutionError, Recover, FailAttempt, HandleRateLimit, MoveLimitedBack,
          MoveToDelayed, ScheduleResume, ReturnDelayed, ResumeDelay, StoreResult,
          FailWorkflow, SkipChild, VisitChild, EnqueueChild, ChildrenDone, AcquireLock, ReadStatus, CountPending,
          CompleteWorkflow, ReleaseLock, Finish, listenerVars
<1>2. ASSUME NEW i \in JobIds, Listen(i) PROVE j \in recorded'
    BY <1>2 DEF Listen, RecordPermanentFailure, FailExecution
<1>3. ASSUME NEW i \in JobIds, Fail(i) PROVE FALSE
    BY <1>3 DEF Fail, Crash, Throws, LoseFailure, Fault, StoreInv
<1> QED
    BY <1>1, <1>2, <1>3
       DEF Next, vars, listenerVars, EnqueueEntry, AbandonStart, DelayElapses, CacheResult,
           LockExpires

LEMMA LostStays ==
    ASSUME ~Guarded, DeadTypeInv, recorded \subseteq lettered, Lost, [DeadNext]_deadVars
    PROVE  Lost'
<1>1. faults \in Nat /\ faults' \in Nat /\ faults' >= faults
  <2>1. DeadTypeInv'
      BY DeadTypeStep
  <2>2. ASSUME NEW c \in Callers, Control(c) \/ CallerCrash(c)
                 \/ \E operation \in Operations : Call(c, operation)
        PROVE  faults' \in {faults, faults + 1}
      BY <2>2, ControlFaults DEF DeadTypeInv, ControlTypeInv
  <2>3. [Next]_vars => faults' \in {faults, faults + 1}
      BY FaultsGrow DEF DeadTypeInv, ControlTypeInv
  <2>4. faults' \in {faults, faults + 1}
      BY <2>2, <2>3 DEF DeadNext, deadVars, allVars, vars, observed, EngineStep,
            ControlNext, RunStep, MoveToDLQ, FindLetter, AddRetry, RemoveLetter, RetryFails
  <2> QED
      BY <2>1, <2>4 DEF DeadTypeInv, ControlTypeInv, StoreInv
<1>2. lettered \subseteq lettered'
    BY DEF DeadNext, deadVars, letterVars, EngineStep, LettersKept, MoveToDLQ, FindLetter,
           AddRetry, RemoveLetter, RetryFails
<1>3. ASSUME NEW j \in failing, j \notin failing', faults' = faults PROVE lettered # {}
  <2>1. CASE HandsOff
      BY <1>3, <2>1 DEF HandsOff, listenerVars
  <2>2. CASE EngineStep /\ [Next]_vars
    <3>1. j \in recorded'
        BY <1>3, <2>2, FailingRecorded DEF DeadTypeInv, ControlTypeInv
    <3> QED
        BY <2>2, <3>1 DEF EngineStep, LettersKept, DeadTypeInv, DeadType
  <2>3. CASE UNCHANGED failing
      BY <1>3, <2>3
  <2>4. EngineStep => [Next]_vars \/ HandsOff
      BY RunOrControl DEF EngineStep, DeadTypeInv
  <2> QED
      BY <2>1, <2>2, <2>3, <2>4
         DEF DeadNext, deadVars, allVars, vars, listenerVars, MoveToDLQ,
             FindLetter, AddRetry, RemoveLetter, RetryFails
<1> QED
    BY <1>1, <1>2, <1>3 DEF Lost

\* What a step of a client does to the jobs: it finishes none.
LEMMA ControlFinishes ==
    ASSUME ControlTypeInv, NEW c \in Callers,
           Control(c) \/ CallerCrash(c) \/ \E operation \in Operations : Call(c, operation),
           NEW j \in JobIds
    PROVE  jobs'[j] \in {jobs[j], "none", "delayed", "waiting"}
<1> USE DEF ControlTypeInv, JobsInv, ControlType
<1>1. CASE UNCHANGED jobs
    BY <1>1
<1>2. ASSUME NEW i \in list[c], CancelJob(c, i) \/ PauseJob(c, i) \/ PromoteJob(c, i)
      PROVE  jobs'[j] \in {jobs[j], "none", "delayed", "waiting"}
    BY <1>1, <1>2 DEF CancelJob, PauseJob, PromoteJob, RemoveJob, SetJob, vars, queueVars
<1>3. CASE ReAddJob(c)
    BY <1>3 DEF ReAddJob, AddJob
<1> QED
    BY <1>1, <1>2, <1>3
       DEF Control, Call, CallerCrash, WriteStatus, ListJobs, EndCall, vars, queueVars

\* The steps of the run.
LEMMA PauseRunStep ==
    ASSUME NoFailures, WorkflowIsValid, DeadTypeInv, RunStep, faults = 0, Fine',
           failing = {}, recorded = {}, "cancel" \notin Operations,
           WorkersInStep, EventsResolved, JobsKnown, NothingFails,
           \A j \in JobIds : Known(j) => Known(j)'
    PROVE  WorkersInStep' /\ EventsResolved' /\ JobsKnown'
<1>1. Clean /\ InvalidDelays = {} /\ [Next]_vars /\ JobsInv /\ StoreInv
    BY DEF Clean, Fine, NothingFails, WorkflowIsValid, RunStep, DeadTypeInv, ControlTypeInv
<1>2. WorkersInStep' /\ EventsResolved'
    BY <1>1, InStepStep
<1>3. \A n \in Nodes : Resolved(results[n]) => Resolved(results'[n])
    BY <1>1, StepClean
<1>4. ASSUME NEW j \in JobIds
      PROVE  /\ jobs'[j] = "completed" => KnownHandled(j)'
             /\ pc'[j] = "scheduled" => Known(<<Node(j), "resumed">>)'
  <2>1. Node(j) \in Nodes /\ <<Node(j), "resumed">> \in JobIds
      BY DEF Node, JobIds
  <2>2. CleanJobs(j)
      BY <1>1, StepClean
  <2>3. KnownHandled(j) => KnownHandled(j)'
      BY <1>3, <2>1 DEF KnownHandled
  <2>4. jobs'[<<Node(j), "resumed">>] # "none" => Known(<<Node(j), "resumed">>)'
      BY DEF Known
  <2> QED
      BY <1>3, <2>1, <2>2, <2>3, <2>4 DEF CleanJobs, JobsKnown, WorkersInStep, KnownHandled
<1>5. ASSUME NEW n \in Nodes
      PROVE  Ahead(n)' \/ \E j \in JobIds : Node(j) = n /\ Known(j)'
  <2>1. HasJob(n)' => \E j \in JobIds : Node(j) = n /\ Known(j)'
      BY DEF HasJob, Known
  <2>2. \A p \in Inputs[n] : n \in Children(p)
      BY DEF WorkflowIsValid
  <2>3. Ahead(n) => Ahead(n)' \/ HasJob(n)'
      BY <1>1, <2>2, AheadStep
  <2> QED
      BY <2>1, <2>3 DEF JobsKnown
<1> QED
    BY <1>2, <1>4, <1>5 DEF JobsKnown

\* The steps of the clients.
LEMMA PauseControlStep ==
    ASSUME ControlTypeInv, "cancel" \notin Operations, NEW c \in Callers,
           Control(c) \/ \E operation \in Operations : Call(c, operation),
           WorkersInStep, EventsResolved, JobsKnown, NothingFails,
           \A j \in JobIds : Known(j) => Known(j)'
    PROVE  WorkersInStep' /\ EventsResolved' /\ JobsKnown' /\ NothingFails'
<1>1. /\ UNCHANGED <<starting, pc, outcome, todo, results, cacheEvents>>
      /\ \A j \in JobIds : jobs'[j] \in {jobs[j], "none", "delayed", "waiting"}
    BY ControlHandsOff, ControlFinishes DEF ControlTypeInv, HandsOff, workVars, listenerVars
<1>2. WorkersInStep' /\ EventsResolved'
    BY <1>1 DEF WorkersInStep, EventsResolved
<1>3. ASSUME NEW j \in JobIds
      PROVE  /\ jobs'[j] = "completed" => KnownHandled(j)'
             /\ pc'[j] = "scheduled" => Known(<<Node(j), "resumed">>)'
  <2>1. <<Node(j), "resumed">> \in JobIds
      BY DEF Node, JobIds
  <2> QED
      BY <1>1, <2>1 DEF JobsKnown, KnownHandled
<1>4. ASSUME NEW n \in Nodes
      PROVE  Ahead(n)' \/ \E j \in JobIds : Node(j) = n /\ Known(j)'
  <2>1. Ahead(n) => Ahead(n)'
      BY <1>1 DEF Ahead, ParentsResolved, OnList
  <2> QED
      BY <2>1 DEF JobsKnown
<1>5. NothingFails'
  <2>1. UNCHANGED status \/ WriteStatus(c)
      BY DEF Control, Call, ListJobs, EndCall, ReAddJob, CancelJob, PauseJob, PromoteJob,
             RemoveJob, vars, storeVars
  <2>2. CASE WriteStatus(c)
    <3>1. op[c] \in OperationNames \ {"cancel"}
        BY <2>2, ControlAssumption DEF WriteStatus, ControlTypeInv, ControlType
    <3>2. NewStatus(op[c]) \in {"paused", "running"}
        BY <3>1 DEF NewStatus, OperationNames
    <3> QED
        BY <1>1, <2>2, <3>2 DEF WriteStatus, SetExecutionStatus, NothingFails
  <2> QED
      BY <1>1, <2>1, <2>2 DEF NothingFails
<1> QED
    BY <1>2, <1>3, <1>4, <1>5 DEF JobsKnown

LEMMA PauseStep ==
    ASSUME ~Guarded, NoFailures, WorkflowIsValid, "cancel" \notin Operations,
           DeadTypeInv, PauseInv, [DeadNext]_deadVars
    PROVE  PauseInv'
<1>t. DeadTypeInv'
    BY DeadTypeStep
<1>1. recorded' \subseteq lettered'
  <2>1. CASE EngineStep
      BY <2>1 DEF EngineStep, LettersKept, PauseInv, DeadTypeInv, DeadType
  <2> QED
      BY <2>1 DEF DeadNext, deadVars, allVars, vars, listenerVars, letterVars, MoveToDLQ,
            FindLetter, AddRetry, RemoveLetter, RetryFails, PauseInv
<1>2. CASE Lost
    BY <1>1, <1>2, LostStays DEF PauseInv
<1>3. CASE Lost'
    BY <1>1, <1>3 DEF PauseInv
<1>4. CASE ~Lost /\ ~Lost'
  <2>1. /\ WorkersInStep /\ EventsResolved /\ JobsKnown /\ NothingFails
        /\ faults = 0 /\ failing = {} /\ recorded = {} /\ lettered = {}
        /\ faults' = 0 /\ failing' = {} /\ recorded' = {} /\ lettered' = {}
      BY <1>t, <1>1, <1>4 DEF PauseInv, Lost, DeadTypeInv, ControlTypeInv, StoreInv
  <2>2. \A c \in Callers : ~CallerCrash(c)
      BY <2>1 DEF CallerCrash, Fault
  <2>3. \A j \in JobIds : Known(j) => Known(j)'
      BY <2>2, KnownStays
  <2>4. CASE UNCHANGED allVars
      BY <1>1, <2>1, <2>4, SMTT(30) DEF PauseInv, allVars, vars, queueVars, workVars, storeVars,
            listenerVars, controlVars, callVars, WorkersInStep, EventsResolved, JobsKnown,
            NothingFails, KnownHandled, Known, Ahead, ParentsResolved, OnList
  <2>5. CASE RunStep
    <3>1. NothingFails'
        BY <2>1, <2>5, EveryNoFailure DEF RunStep, DeadTypeInv, ControlTypeInv
    <3>2. Fine'
        BY <2>1, <3>1 DEF Fine, NothingFails
    <3> QED
        BY <1>1, <2>1, <2>3, <2>5, <3>1, <3>2, PauseRunStep DEF PauseInv
  <2>6. ASSUME NEW c \in Callers,
               Control(c) \/ \E operation \in Operations : Call(c, operation)
        PROVE  PauseInv'
      BY <1>1, <2>1, <2>3, <2>6, PauseControlStep DEF PauseInv, DeadTypeInv
  <2>7. ASSUME NEW r \in Retriers, NEW stamp \in Retries, AddRetry(r, stamp) PROVE FALSE
      BY <2>1, <2>7 DEF AddRetry, Idle, DeadTypeInv, DeadType
  <2> QED
      BY <2>2, <2>4, <2>5, <2>6, <2>7
         DEF DeadNext, deadVars, EngineStep, ControlNext, MoveToDLQ, FindLetter,
             RemoveLetter, RetryFails
<1> QED
    BY <1>2, <1>3, <1>4

\* When no call is under way, pauseWorkflow has no job in its hands.
LEMMA PauseEnds ==
    ASSUME WorkflowIsValid, DeadTypeInv, PauseInv
    PROVE  PauseLosesNothing
<1> SUFFICES ASSUME NoCall, lettered = {}, Quiet, status = "running", faults = 0
             PROVE  QuietMeansResolved
    BY DEF PauseLosesNothing, QuietMeansResolved
<1>1. WorkersInStep /\ EventsResolved /\ JobsKnown
    BY DEF PauseInv, Lost, Quiet
<1>2. \A j \in JobIds : Known(j) => jobs[j] # "none"
    BY NoJobIsNone DEF Known, NoCall, DeadTypeInv, ControlTypeInv, ControlType
<1>3. JobsHandled
  <2>1. ASSUME NEW j \in JobIds
        PROVE  /\ KnownHandled(j) => Handled(j)
               /\ Known(<<Node(j), "resumed">>) => jobs[<<Node(j), "resumed">>] # "none"
    <3>1. <<Node(j), "resumed">> \in JobIds
        BY DEF Node, JobIds
    <3> QED
        BY <1>2, <3>1 DEF KnownHandled, Handled
  <2> QED
      BY <1>1, <2>1 DEF JobsKnown, JobsHandled
<1>4. \A n \in Nodes : Covered(n)
    BY <1>1, <1>2 DEF JobsKnown, Covered, HasJob
<1>5. JoinInv
    BY <1>1, <1>3, <1>4 DEF JoinInv
<1> QED
    BY <1>5, QuietIsDone DEF DeadTypeInv, ControlTypeInv

(***************************************************************************)
(* pauseWorkflow and resumeWorkflow: a paused job is out of the queue for  *)
(* a moment, a worker may finish or add the very jobs the call has listed, *)
(* and yet no node is forgotten, for any number of overlapping calls, as   *)
(* long as nothing fails and nobody cancels.                               *)
(***************************************************************************)
THEOREM PausingLosesNothing ==
    ASSUME ~Guarded, NoFailures, WorkflowIsValid, "cancel" \notin Operations
    PROVE  DeadSpec => []PauseLosesNothing
<1>1. DeadInit => PauseInv
  <2> SUFFICES ASSUME DeadInit PROVE PauseInv
      OBVIOUS
  <2>1. Init /\ recorded = {}
      BY DEF DeadInit, ControlInit, Init, Created
  <2>2. ~Trouble /\ NothingFails
      BY <2>1 DEF Init, Created, Trouble, NothingFails, NoOutcome
  <2>3. WorkersInStep /\ EventsResolved /\ JobsHandled /\ \A n \in Nodes : Covered(n)
      BY <2>1, <2>2, JoinInit DEF JoinInv
  <2>4. JobsKnown
      BY <2>3 DEF JobsHandled, JobsKnown, KnownHandled, Handled, Known, Covered, HasJob
  <2> QED
      BY <2>1, <2>2, <2>3, <2>4 DEF PauseInv
<1>2. DeadTypeInv /\ PauseInv /\ [DeadNext]_deadVars => PauseInv'
    BY PauseStep
<1>3. DeadTypeInv /\ PauseInv => PauseLosesNothing
    BY PauseEnds
<1> QED
    BY <1>1, <1>2, <1>3, DeadTypeInvariant, PTL DEF DeadSpec

-----------------------------------------------------------------------------
(***************************************************************************)
(* SubWorkflow                                                             *)
(***************************************************************************)

(***************************************************************************)
(* Types.  A worker is in a job of the parent exactly while the job is     *)
(* active, holds an answer exactly when it is about to store it, and is in *)
(* the aggregator exactly while the aggregator's job is active.            *)
(***************************************************************************)
AggStates == {"none", "waiting-children", "waiting", "active", "completed",
              "failing", "failed"}
AggLabels == {"idle", "complete", "store output", "notify"} \cup InCatch

ParentType ==
    /\ parentJobs \in [ParentIds -> JobStates]
    /\ parentPc \in [ParentIds -> {"idle", "route", "create", "flow", "store"}]
    /\ parentOutcome \in [ParentIds -> {"none", "started", "failed"}]
    /\ parentResult \in {"none", "started", "failed", "output"}
    /\ parentEvents \subseteq {"started", "failed", "output"}
    /\ started \in Nat
    /\ \A p \in ParentIds :
          /\ parentPc[p] # "idle" <=> parentJobs[p] = "active"
          /\ parentPc[p] = "store" <=> parentOutcome[p] # "none"

AggregatorType ==
    /\ agg \in AggStates
    /\ aggPc \in AggLabels
    /\ aggPc # "idle" <=> agg = "active"

\* The child's jobs come from the flow, never from enqueueWorkflow.
SubTypeInv ==
    /\ JobsInv
    /\ StoreInv
    /\ starting = {}
    /\ flow \subseteq Nodes
    /\ ParentType
    /\ AggregatorType

\* What a step outside WorkflowRun leaves of the child execution.
ChildKept ==
    /\ UNCHANGED <<starting, made, workVars, results, lock, recorded, cacheEvents,
                   announced>>
    /\ status' \in {status} \cup {SetExecutionStatus(Guarded, status, s) :
                                    s \in {"completed", "failed"}}
    /\ faults' \in {faults, faults + 1}

LEMMA FlowJobType ==
    ASSUME NEW n \in Nodes
    PROVE  FlowJob(n) \in JobIds /\ Node(FlowJob(n)) = n
BY DEF FlowJob, JobIds, Node

LEMMA FlowKeeps ==
    ASSUME SubTypeInv, NEW n \in Nodes, Flow(n)
    PROVE  /\ ChildKept
           /\ UNCHANGED <<status, faults, aggVars, parentVars, parentResult, started>>
           /\ flow' \subseteq Nodes
           /\ JobsInv'
<1>1. FlowJob(n) \in JobIds
    BY FlowJobType
<1>2. CASE ReleaseNode(n)
  <2>1. "waiting" \in JobStates \ {"failed", "active"}
      BY DEF JobStates
  <2> QED
      BY <1>1, <1>2, <2>1, AddJobType
         DEF ReleaseNode, SubTypeInv, ChildKept, storeVars, observed, listenerVars
<1>3. CASE FailNode(n)
  <2>1. jobs \in [JobIds -> JobStates] /\ "failed" \in JobStates
      BY DEF SubTypeInv, JobsInv, JobStates
  <2>2. JobsInv'
      BY <1>1, <1>3, <2>1, AddJobFact
         DEF FailNode, SubTypeInv, JobsInv, workVars, WorkerHasJob, AttemptsLeft,
             ChildToEnqueue
  <2> QED
      BY <1>3, <2>2 DEF FailNode, SubTypeInv, ChildKept, storeVars, observed
<1> QED
    BY <1>2, <1>3 DEF Flow

\* A worker of the parent touches nothing of the child but the flow.
LEMMA ParentKeeps ==
    ASSUME SubTypeInv, NEW p \in ParentIds, Parent(p) \/ ParentFault(p)
    PROVE  /\ ChildKept
           /\ UNCHANGED <<status, queueVars, listenerVars>>
           /\ flow' \subseteq Nodes
           /\ ParentType'
           /\ AggregatorType'
<1> USE DEF ParentGoto, SetJob, SubTypeInv, ChildKept, ParentType, AggregatorType,
            JobStates, aggVars, vars, queueVars, storeVars, listenerVars, observed
<1>1. CASE TakeParent(p)
    BY <1>1 DEF TakeParent
<1>2. CASE RouteParent(p)
  <2>1. CASE ParentResolved /\ ParentFinish(p, parentResult)
      BY <1>2, <2>1 DEF RouteParent, ParentFinish, ParentResolved
  <2>2. CASE ~ParentResolved
      BY <1>2, <2>2 DEF RouteParent
  <2> QED
      BY <1>2, <2>1, <2>2 DEF RouteParent
<1>3. CASE CreateExecution(p)
    BY <1>3 DEF CreateExecution
<1>4. CASE AddFlow(p)
    BY <1>4 DEF AddFlow, AggStates
<1>5. CASE StoreAnswer(p)
    BY <1>5 DEF StoreAnswer, ParentFinish
<1>6. CASE ParentFault(p)
    BY <1>6 DEF ParentFault, Fault
<1> QED
    BY <1>1, <1>2, <1>3, <1>4, <1>5, <1>6 DEF Parent

LEMMA CacheAnswerKeeps ==
    ASSUME SubTypeInv, NEW result \in parentEvents, CacheAnswer(result)
    PROVE  /\ ChildKept
           /\ UNCHANGED <<status, faults, queueVars, listenerVars, aggVars>>
           /\ flow' \subseteq Nodes
           /\ ParentType'
BY DEF CacheAnswer, SubTypeInv, ChildKept, ParentType, aggVars, vars, queueVars,
       storeVars, listenerVars, observed

\* The aggregator writes the child's status, the parent's result and its job.
AggregatorSteps == Aggregator \/ AggregatorThrows \/ AggregatorCrash

LEMMA AggregatorKeeps ==
    ASSUME SubTypeInv, AggregatorSteps
    PROVE  /\ ChildKept
           /\ UNCHANGED <<queueVars, listenerVars>>
           /\ flow' \subseteq Nodes
           /\ ParentType'
           /\ AggregatorType'
<1> USE DEF SubTypeInv, ChildKept, ParentType, AggregatorType, AggStates, AggLabels,
            InCatch, JobStates, parentVars, vars, queueVars, storeVars, listenerVars,
            observed, Fault
<1>1. CASE ReleaseAggregator \/ FailAggregator
    BY <1>1 DEF ReleaseAggregator, FailAggregator
<1>2. CASE TakeAggregator
    BY <1>2 DEF TakeAggregator
<1>3. CASE CompleteChild
    BY <1>3 DEF CompleteChild, aggVars
<1>4. CASE StoreOutput
    BY <1>4 DEF StoreOutput
<1>5. CASE NotifyParent
    BY <1>5 DEF NotifyParent, AddJob, ParentIds
<1>6. CASE AggregatorThrows
    BY <1>6 DEF AggregatorThrows
<1>7. CASE AggregatorCrash
    BY <1>7 DEF AggregatorCrash
<1>8. CASE AggregatorFailed
    BY <1>8 DEF AggregatorFailed
<1> QED
    BY <1>1, <1>2, <1>3, <1>4, <1>5, <1>6, <1>7, <1>8 DEF AggregatorSteps, Aggregator

LEMMA KeptJobs ==
    ASSUME JobsInv, ChildKept, UNCHANGED <<queueVars, listenerVars>>
    PROVE  JobsInv'
BY DEF ChildKept, JobsInv, queueVars, workVars, listenerVars, WorkerHasJob, AttemptsLeft,
       ChildToEnqueue

LEMMA KeptStore ==
    ASSUME StoreInv, ChildKept
    PROVE  StoreInv'
BY DEF ChildKept, StoreInv, SetExecutionStatus, Statuses

\* A step is one of the child's workers or listeners, or leaves ChildKept.
LEMMA RunOrKept ==
    ASSUME SubTypeInv, [SubNext]_treeVars
    PROVE  \/ [Next]_vars /\ UNCHANGED subVars
           \/ ChildKept
<1>1. CASE UNCHANGED treeVars
    BY <1>1 DEF treeVars
<1> QED
    BY <1>1, ParentKeeps, CacheAnswerKeeps, FlowKeeps, AggregatorKeeps
       DEF SubNext, AggregatorSteps

\* Nothing is added to the entry nodes enqueueWorkflow has still to enqueue.
LEMMA StartingShrinks ==
    ASSUME [Next]_vars
    PROVE  starting' \subseteq starting
<1>1. ASSUME NEW j \in JobIds, Work(j) PROVE starting' = starting
    BY <1>1
       DEF Work, TakeJob, CheckIdempotency, CheckExecutionState, ExecuteNode,
           ScheduleResume, ReturnDelayed, ResumeDelay, StoreResult, FailWorkflow,
           SkipChild, VisitChild, EnqueueChild, ChildrenDone, AcquireLock, ReadStatus,
           CountPending, CompleteWorkflow, ReleaseLock
<1>2. ASSUME NEW j \in JobIds, Listen(j) \/ Fail(j) \/ DelayElapses(j)
      PROVE  starting' = starting
    BY <1>2 DEF Listen, RecordPermanentFailure, FailExecution, Fail, Crash, Throws,
          LoseFailure, DelayElapses
<1> QED
    BY <1>1, <1>2
       DEF Next, vars, EnqueueEntry, AbandonStart, CacheResult, LockExpires

LEMMA SubTypeStep ==
    ASSUME SubTypeInv, [SubNext]_treeVars
    PROVE  SubTypeInv'
<1>1. CASE [Next]_vars /\ UNCHANGED subVars
  <2>1. JobsInv' /\ StoreInv'
      BY <1>1, NextJobs, NextStore DEF SubTypeInv
  <2>2. starting' = {}
      BY <1>1, StartingShrinks DEF SubTypeInv
  <2> QED
      BY <1>1, <2>1, <2>2 DEF SubTypeInv, subVars, aggVars, parentVars, ParentType,
           AggregatorType
<1>2. CASE ChildKept /\ UNCHANGED <<queueVars, listenerVars>> /\ flow' \subseteq Nodes
            /\ ParentType' /\ AggregatorType'
    BY <1>2, KeptJobs, KeptStore DEF SubTypeInv, ChildKept
<1>3. ASSUME NEW n \in Nodes, Flow(n) PROVE SubTypeInv'
    BY <1>3, FlowKeeps, KeptStore
       DEF SubTypeInv, ChildKept, aggVars, parentVars, ParentType, AggregatorType
<1>4. ASSUME NEW result \in parentEvents, CacheAnswer(result) PROVE SubTypeInv'
    BY <1>2, <1>4, CacheAnswerKeeps DEF SubTypeInv, aggVars, AggregatorType
<1>5. CASE UNCHANGED treeVars
    BY <1>1, <1>5 DEF treeVars
<1> QED
    BY <1>1, <1>2, <1>3, <1>4, <1>5, ParentKeeps, AggregatorKeeps
       DEF SubNext, AggregatorSteps

LEMMA SubInitType == SubInit => SubTypeInv
<1> SUFFICES ASSUME SubInit PROVE SubTypeInv
    OBVIOUS
<1>1. NoOutcome \in Outcome
    BY DEF NoOutcome, Outcome
<1>2. JobsInv /\ StoreInv
    BY <1>1, EngineAssumption
       DEF SubInit, Created, JobsInv, StoreInv, JobStates, Labels, Statuses, ResultKinds,
           WorkerHasJob, AttemptsLeft, ChildToEnqueue
<1>3. ParentType /\ AggregatorType
    BY DEF SubInit, ParentType, AggregatorType, AggStates, AggLabels, JobStates
<1> QED
    BY <1>2, <1>3 DEF SubInit, SubTypeInv

LEMMA SubTypeInvariant == SubSpec => []SubTypeInv
    BY SubInitType, SubTypeStep, PTL DEF SubSpec

-----------------------------------------------------------------------------
(***************************************************************************)
(* Executions started.  A job that may still create one is due.  As long   *)
(* as nothing failed the job the aggregator adds is not, for it finds a    *)
(* stored result; the fault that takes that result away pays for it.       *)
(***************************************************************************)
MayCreate(p) ==
    parentJobs[p] = "waiting" \/ parentPc[p] \in {"route", "create"}

Due(p) == IF MayCreate(p) THEN 1 ELSE 0

DueLater ==
    IF IsEntry /\ (parentJobs["node"] = "none" \/ MayCreate("node")) THEN 1 ELSE 0

Smooth ==
    /\ IsEntry
    /\ started + Due("manual") <= 1 + faults
    /\ parentResult # "failed" /\ "failed" \notin parentEvents
    /\ \A p \in ParentIds : parentOutcome[p] # "failed"
    /\ aggPc \notin InCatch
    /\ parentJobs["node"] # "none" \/ aggPc = "notify" => ParentResolved
    /\ parentPc["node"] \in {"idle", "route"}

Paid == started + Due(FirstJob) + DueLater <= 1 + faults

StartInv ==
    /\ ~IsEntry => parentJobs["manual"] = "none" /\ parentJobs["node"] # "none"
    /\ Smooth \/ Paid

LEMMA Counted ==
    \A p \in ParentIds : Due(p) \in {0, 1} /\ DueLater \in {0, 1}
BY DEF Due, DueLater

LEMMA ParentStart ==
    ASSUME SubTypeInv, StartInv, NEW p \in ParentIds, Parent(p) \/ ParentFault(p)
    PROVE  StartInv'
<1> USE SubWorkflowAssumption
        DEF SubTypeInv, StoreInv, ParentType, ParentGoto, SetJob, ParentIds, StartInv,
            Smooth, Paid, FirstJob, Due, DueLater, MayCreate, ParentResolved, aggVars,
            vars, observed
<1>1. CASE TakeParent(p)
    BY <1>1 DEF TakeParent
<1>2. CASE RouteParent(p)
    BY <1>2 DEF RouteParent, ParentFinish
<1>3. CASE CreateExecution(p)
    BY <1>3 DEF CreateExecution
<1>4. CASE AddFlow(p)
    BY <1>4 DEF AddFlow
<1>5. CASE StoreAnswer(p)
    BY <1>5 DEF StoreAnswer, ParentFinish
<1>6. CASE ParentFault(p)
    BY <1>6 DEF ParentFault, Fault
<1> QED
    BY <1>1, <1>2, <1>3, <1>4, <1>5, <1>6 DEF Parent

LEMMA CacheAnswerStart ==
    ASSUME SubTypeInv, StartInv, NEW result \in parentEvents, CacheAnswer(result)
    PROVE  StartInv'
BY DEF CacheAnswer, SubTypeInv, ParentType, StartInv, Smooth, Paid, FirstJob, Due,
       DueLater, MayCreate, ParentResolved, ParentIds, aggVars, vars, observed

\* A fault outside the parent's jobs pays for the job of the aggregator.
LEMMA FaultPays ==
    ASSUME SubTypeInv, StartInv, faults' = faults + 1, UNCHANGED <<parentVars, started>>
    PROVE  StartInv'
<1>1. started \in Nat /\ faults \in Nat
    BY DEF SubTypeInv, StoreInv, ParentType
<1>2. started + Due(FirstJob) <= 1 + faults
    BY <1>1, Counted DEF StartInv, Smooth, Paid, FirstJob, ParentIds
<1>3. UNCHANGED <<Due(FirstJob), DueLater>>
    BY DEF Due, DueLater, MayCreate, FirstJob, parentVars
<1>4. Due(FirstJob) \in {0, 1} /\ DueLater \in {0, 1}
    BY DEF Due, DueLater
<1>5. Paid'
    BY <1>1, <1>2, <1>3, <1>4 DEF Paid
<1> QED
    BY <1>5 DEF StartInv, parentVars

LEMMA AggregatorStart ==
    ASSUME SubTypeInv, StartInv, AggregatorSteps
    PROVE  StartInv'
<1> USE SubWorkflowAssumption
        DEF SubTypeInv, StoreInv, ParentType, AggregatorType, ParentIds, StartInv, Smooth,
            Paid, FirstJob, Due, DueLater, MayCreate, ParentResolved, InCatch, parentVars,
            vars, observed, Fault
<1>1. CASE ReleaseAggregator \/ FailAggregator
    BY <1>1 DEF ReleaseAggregator, FailAggregator
<1>2. CASE TakeAggregator
    BY <1>2 DEF TakeAggregator
<1>3. CASE CompleteChild
    BY <1>3 DEF CompleteChild, aggVars
<1>4. CASE StoreOutput
    BY <1>4 DEF StoreOutput
<1>5. CASE NotifyParent
    BY <1>5 DEF NotifyParent, AddJob
<1>6. CASE AggregatorThrows \/ AggregatorCrash
    BY <1>6, FaultPays DEF AggregatorThrows, AggregatorCrash
<1>7. CASE AggregatorFailed
    BY <1>7, FaultPays DEF AggregatorFailed
<1> QED
    BY <1>1, <1>2, <1>3, <1>4, <1>5, <1>6, <1>7 DEF AggregatorSteps, Aggregator

LEMMA StartStep ==
    ASSUME SubTypeInv, StartInv, [SubNext]_treeVars
    PROVE  StartInv'
<1>1. CASE UNCHANGED <<faults, aggPc, parentVars, parentResult, started>>
    BY <1>1 DEF parentVars, StartInv, Smooth, Paid, Due, DueLater, MayCreate, ParentResolved,
          FirstJob, InCatch
<1>2. CASE [Next]_vars /\ UNCHANGED subVars
  <2>1. faults' \in {faults, faults + 1}
      BY <1>2, FaultsGrow DEF SubTypeInv
  <2> QED
      BY <1>1, <1>2, <2>1, FaultPays DEF subVars, aggVars
<1>3. ASSUME NEW n \in Nodes, Flow(n) PROVE StartInv'
    BY <1>1, <1>3, FlowKeeps DEF aggVars
<1>4. CASE UNCHANGED treeVars
    BY <1>2, <1>4 DEF treeVars
<1> QED
    BY <1>2, <1>3, <1>4, ParentStart, CacheAnswerStart, AggregatorStart
       DEF SubNext, AggregatorSteps

\* However the answers of a job and of the aggregator overwrite one another, a
\* sub-workflow node creates one execution and at most one more for every fault.
THEOREM SubWorkflowsStartOnce == SubSpec => []StartsOnce
<1>1. SubInit => StartInv
    BY SubWorkflowAssumption
       DEF SubInit, Created, StartInv, Smooth, Paid, FirstJob, Due, DueLater, MayCreate,
           ParentIds, InCatch, NoOutcome
<1>2. SubTypeInv /\ StartInv => StartsOnce
    BY Counted DEF SubTypeInv, StoreInv, ParentType, StartInv, Smooth, Paid, FirstJob,
          ParentIds, StartsOnce
<1> QED
    BY <1>1, <1>2, StartStep, SubTypeInvariant, PTL DEF SubSpec

-----------------------------------------------------------------------------
(***************************************************************************)
(* Aggregation.  A flow job that ran has seen those it depends on complete *)
(* and, when it completes, leaves a result.                                *)
(***************************************************************************)
Executed(n) == jobs[FlowJob(n)] = "completed"

AtDelay == {"schedule", "scheduled", "resume"}

WholeInv ==
    /\ FailInv /\ DelayInv
    /\ \A j \in JobIds : pc[j] \notin AtDelay
    /\ status \in {"running", "completed", "failed"}
    /\ \A n \in Nodes : Executed(n) => results[n] # "none"
    /\ \A n \in Nodes : jobs[FlowJob(n)] \notin {"none", "failed"}
                           => \A p \in Inputs[n] : Executed(p)
    /\ \/ agg \in {"waiting", "active", "completed"}
       \/ parentResult = "output"
       \/ "output" \in parentEvents
       => \A n \in FinalNodes : Executed(n)

\* What a step of a worker or listener can do to a job of the child.
FlowMoves(i) ==
    /\ i[2] = "manual" /\ jobs[i] = "none" => jobs'[i] = "none"
    /\ jobs[i] \in {"completed", "failed"} => jobs'[i] = jobs[i]
    /\ jobs'[i] = "completed" /\ jobs[i] # "completed" => results[Node(i)] # "none"
    /\ pc'[i] \in AtDelay => pc[i] \in AtDelay

LEMMA LeaveFlow ==
    ASSUME JobsInv, NEW j \in JobIds, pc[j] # "idle", Leave(j), NEW s,
           jobs' = SetJob(jobs, j, s), s = "completed" => results[Node(j)] # "none"
    PROVE  \A i \in JobIds : FlowMoves(i)
<1>1. jobs[j] = "active"
    BY DEF JobsInv, WorkerHasJob
<1> QED
    BY <1>1 DEF JobsInv, Leave, SetJob, FlowMoves, AtDelay

LEMMA GotoFlow ==
    ASSUME JobsInv, NEW j \in JobIds, NEW label, Goto(j, label), UNCHANGED jobs,
           label \notin AtDelay
    PROVE  \A i \in JobIds : FlowMoves(i)
BY DEF JobsInv, Goto, FlowMoves

LEMMA ErrorFlow ==
    ASSUME JobsInv, NEW j \in JobIds, pc[j] # "idle",
           HandleExecutionError(j) \/ HandleRateLimit(j) \/ FailAttempt(j)
    PROVE  \A i \in JobIds : FlowMoves(i)
<1>1. CASE Recover(j)
    BY <1>1, GotoFlow DEF Recover, queueVars, AtDelay
<1>2. CASE FailAttempt(j)
    BY <1>2, LeaveFlow DEF FailAttempt, AfterFailure
<1>3. CASE MoveLimitedBack(j)
    BY <1>3, LeaveFlow DEF MoveLimitedBack
<1> QED
    BY <1>1, <1>2, <1>3 DEF HandleExecutionError, HandleRateLimit

LEMMA WorkFlow ==
    ASSUME DelayNodes = {}, SubTypeInv, WholeInv, NEW j \in JobIds, Work(j)
    PROVE  \A i \in JobIds : FlowMoves(i)
<1>0. JobsInv /\ pc[j] \notin AtDelay
    BY DEF SubTypeInv, WholeInv
<1>1. CASE UNCHANGED <<jobs, pc>>
    BY <1>1 DEF FlowMoves
<1>2. CASE TakeJob(j)
    BY <1>0, <1>2 DEF TakeJob, Goto, SetJob, JobsInv, FlowMoves, AtDelay
<1>3. ASSUME NEW result, pc[j] # "idle", Finish(j, result), results[Node(j)] # "none"
      PROVE  \A i \in JobIds : FlowMoves(i)
    BY <1>0, <1>3, LeaveFlow DEF Finish
<1>4. CASE CheckIdempotency(j)
    BY <1>0, <1>3, <1>4, GotoFlow DEF CheckIdempotency, Resolved, queueVars, AtDelay
<1>5. CASE CheckExecutionState(j)
  <2>1. status \notin {"cancelled", "paused"}
      BY DEF WholeInv
  <2>2. Node(j) \notin InvalidDelays /\ Handler(j) = "execute"
      BY WorkflowAssumption DEF Handler
  <2> QED
      BY <1>0, <1>5, <2>1, <2>2, GotoFlow DEF CheckExecutionState, queueVars, AtDelay
<1>6. CASE ExecuteNode(j)
    BY <1>0, <1>6, ErrorFlow, GotoFlow DEF ExecuteNode, queueVars, AtDelay
<1>7. CASE ScheduleResume(j) \/ ReturnDelayed(j) \/ ResumeDelay(j)
    BY <1>0, <1>7 DEF ScheduleResume, ReturnDelayed, ResumeDelay, AtDelay
<1>8. CASE StoreResult(j)
    BY <1>0, <1>8, GotoFlow DEF StoreResult, queueVars, AtDelay
<1>9. CASE FailWorkflow(j)
    BY <1>3, <1>9 DEF FailWorkflow, WholeInv, FailInv
<1>10. CASE EnqueueChild(j)
  <2>0. PICK k : k[2] = "node" /\ jobs' = AddJob(jobs, k, "waiting")
    <3>1. <<Head(todo[j]).node, "node">>[2] = "node"
        OBVIOUS
    <3> QED
        BY <1>10, <3>1 DEF EnqueueChild
  <2>1. \A i \in JobIds :
           \/ jobs'[i] = jobs[i]
           \/ i[2] = "node" /\ jobs[i] = "none" /\ jobs'[i] = "waiting"
      BY <1>0, <2>0 DEF AddJob, JobsInv
  <2>2. \A i \in JobIds : pc'[i] \in AtDelay => pc[i] \in AtDelay
      BY <1>0, <1>10 DEF EnqueueChild, Goto, JobsInv, AtDelay
  <2> QED
      BY <2>1, <2>2 DEF FlowMoves
<1>11. CASE VisitChild(j)
    BY <1>0, <1>1, <1>11, GotoFlow DEF VisitChild, queueVars, AtDelay
<1>12. CASE AcquireLock(j)
    BY <1>0, <1>3, <1>12, GotoFlow
       DEF AcquireLock, WholeInv, DelayInv, PastStore, queueVars, AtDelay
<1>13. CASE ReleaseLock(j)
    BY <1>3, <1>13 DEF ReleaseLock, WholeInv, DelayInv, PastStore, InLock
<1>14. CASE ChildrenDone(j) \/ ReadStatus(j) \/ CountPending(j) \/ CompleteWorkflow(j)
    BY <1>0, <1>14, GotoFlow
       DEF ChildrenDone, ReadStatus, CountPending, CompleteWorkflow, queueVars, AtDelay
<1>15. CASE SkipChild(j)
    BY <1>1, <1>15 DEF SkipChild, queueVars
<1> QED
    BY <1>2, <1>4, <1>5, <1>6, <1>7, <1>8, <1>9, <1>10, <1>11, <1>12, <1>13, <1>14, <1>15
       DEF Work

LEMMA EveryFlow ==
    ASSUME DelayNodes = {}, SubTypeInv, WholeInv, [Next]_vars
    PROVE  \A i \in JobIds : FlowMoves(i)
<1>0. JobsInv /\ starting = {}
    BY DEF SubTypeInv
<1>1. CASE UNCHANGED <<jobs, pc>>
    BY <1>1 DEF FlowMoves
<1>2. ASSUME NEW j \in JobIds, DelayElapses(j) PROVE \A i \in JobIds : FlowMoves(i)
    BY <1>0, <1>2 DEF DelayElapses, SetJob, workVars, JobsInv, FlowMoves
<1>3. ASSUME NEW j \in JobIds, Fail(j) PROVE \A i \in JobIds : FlowMoves(i)
    BY <1>0, <1>1, <1>3, LeaveFlow, ErrorFlow
       DEF Fail, Crash, Throws, LoseFailure, queueVars, workVars
<1> QED
    BY <1>0, <1>1, <1>2, <1>3, WorkFlow
       DEF Next, vars, queueVars, workVars, EnqueueEntry, AbandonStart, Listen,
           RecordPermanentFailure, FailExecution, CacheResult, LockExpires

LEMMA RunWhole ==
    ASSUME DelayNodes = {}, SubTypeInv, WholeInv, [Next]_vars, UNCHANGED subVars
    PROVE  WholeInv'
<1>0. JobsInv /\ StoreInv /\ FailInv /\ DelayInv
    BY DEF SubTypeInv, WholeInv
<1>1. \A i \in JobIds : FlowMoves(i)
    BY EveryFlow
<1>2. FailInv' /\ DelayInv'
    BY <1>0, FailStep, DelayStep
<1>3. \A j \in JobIds : pc'[j] \notin AtDelay
    BY <1>1 DEF FlowMoves, WholeInv
<1>4. status' \in {"running", "completed", "failed"}
    BY EveryStatusSet DEF StatusSet, SetExecutionStatus, WholeInv
<1>5. ASSUME NEW n \in Nodes
      PROVE  /\ Executed(n) => Executed(n)'
             /\ Executed(n)' => results'[n] # "none"
             /\ jobs'[FlowJob(n)] \notin {"none", "failed"}
                   => jobs[FlowJob(n)] \notin {"none", "failed"}
  <2>1. FlowJob(n) \in JobIds /\ Node(FlowJob(n)) = n /\ FlowJob(n)[2] = "manual"
      BY FlowJobType DEF FlowJob
  <2>2. results[n] # "none" => results'[n] # "none"
      BY <1>0, ResultsGrow DEF ResultsKept
  <2> QED
      BY <1>1, <2>1, <2>2 DEF FlowMoves, Executed, WholeInv
<1>6. ASSUME NEW n \in Nodes, jobs'[FlowJob(n)] \notin {"none", "failed"},
             NEW p \in Inputs[n]
      PROVE  Executed(p)'
  <2>1. p \in Nodes
      BY WorkflowAssumption
  <2> QED
      BY <1>5, <1>6, <2>1 DEF WholeInv
<1>7. (agg \in {"waiting", "active", "completed"} \/ parentResult = "output"
          \/ "output" \in parentEvents)
         => \A n \in FinalNodes : Executed(n)'
    BY <1>5 DEF WholeInv, FinalNodes
<1> QED
    BY <1>2, <1>3, <1>4, <1>5, <1>6, <1>7 DEF WholeInv, subVars, aggVars, parentVars

\* A flow job is released behind those it depends on, or fails with one of them.
LEMMA FlowWhole ==
    ASSUME ~ContinueFlow, SubTypeInv, WholeInv, NEW n \in Nodes, Flow(n)
    PROVE  WholeInv'
<1>1. FlowJob(n) \in JobIds /\ jobs \in [JobIds -> JobStates]
    BY FlowJobType DEF SubTypeInv, JobsInv
<1>2. \A m \in Nodes :
         \/ jobs'[FlowJob(m)] = jobs[FlowJob(m)]
         \/ /\ jobs[FlowJob(m)] = "none"
            /\ \/ jobs'[FlowJob(m)] = "failed"
               \/ m = n /\ jobs'[FlowJob(m)] = "waiting" /\ \A p \in Inputs[n] : Executed(p)
    BY <1>1, FlowJobType
       DEF Flow, ReleaseNode, FailNode, AddJob, Settled, Executed, FlowJob
<1>3. UNCHANGED <<pc, results, status, recorded, cacheEvents, agg, parentResult,
                  parentEvents>>
    BY FlowKeeps DEF ChildKept, workVars, aggVars, parentVars
<1>4. \A m \in Nodes : Executed(m)' <=> Executed(m)
    BY <1>2 DEF Executed
<1>5. FailInv' /\ DelayInv'
    BY <1>3 DEF WholeInv, FailInv, DelayInv
<1>6. ASSUME NEW m \in Nodes, jobs'[FlowJob(m)] \notin {"none", "failed"},
             NEW p \in Inputs[m]
      PROVE  Executed(p)'
  <2>1. p \in Nodes
      BY WorkflowAssumption
  <2> QED
      BY <1>2, <1>4, <1>6, <2>1 DEF WholeInv
<1> QED
    BY <1>3, <1>4, <1>5, <1>6 DEF WholeInv, FinalNodes

\* A step of the parent or of the aggregator: only the release of the aggregator
\* and what follows it need to be looked at.
LEMMA KeptWhole ==
    ASSUME WholeInv, ChildKept, UNCHANGED <<queueVars, listenerVars>>,
           \/ agg' \in {"waiting", "active", "completed"}
           \/ parentResult' = "output"
           \/ "output" \in parentEvents'
           => \A n \in FinalNodes : Executed(n)
    PROVE  WholeInv'
<1>1. status' \in {"running", "completed", "failed"}
    BY DEF WholeInv, ChildKept, SetExecutionStatus
<1>2. UNCHANGED <<pc, results, recorded, cacheEvents, jobs>>
    BY DEF ChildKept, workVars, queueVars
<1>3. FailInv' /\ DelayInv'
    BY <1>2 DEF WholeInv, FailInv, DelayInv
<1>4. \A n \in Nodes : Executed(n)' <=> Executed(n)
    BY <1>2 DEF Executed
<1> QED
    BY <1>1, <1>2, <1>3, <1>4 DEF WholeInv, FinalNodes, Executed

LEMMA ParentWhole ==
    ASSUME SubTypeInv, WholeInv, NEW p \in ParentIds, Parent(p) \/ ParentFault(p)
    PROVE  WholeInv'
<1>1. /\ agg' \in {"waiting", "active", "completed"} => agg' = agg
      /\ parentResult' = "output" => parentResult = "output"
      /\ "output" \in parentEvents' => "output" \in parentEvents \/ parentResult = "output"
    BY DEF Parent, ParentFault, TakeParent, RouteParent, CreateExecution, AddFlow,
          StoreAnswer, ParentFinish, SubTypeInv, ParentType, aggVars
<1> QED
    BY <1>1, KeptWhole, ParentKeeps DEF WholeInv

LEMMA CacheAnswerWhole ==
    ASSUME SubTypeInv, WholeInv, NEW result \in parentEvents, CacheAnswer(result)
    PROVE  WholeInv'
<1>1. /\ agg' = agg
      /\ parentResult' = result
      /\ parentEvents' \subseteq parentEvents
    BY DEF CacheAnswer, aggVars
<1> QED
    BY <1>1, KeptWhole, CacheAnswerKeeps DEF WholeInv

LEMMA AggregatorWhole ==
    ASSUME ~ContinueFlow, SubTypeInv, WholeInv, AggregatorSteps
    PROVE  WholeInv'
<1>1. ReleaseAggregator => \A n \in FinalNodes : Executed(n)
    BY DEF ReleaseAggregator, Settled, Executed
<1>2. aggPc # "idle" => agg = "active"
    BY DEF SubTypeInv, AggregatorType
<1>3. /\ \/ agg' \in {"waiting", "active", "completed"}
         \/ parentResult' = "output"
         => \/ ReleaseAggregator
            \/ agg \in {"waiting", "active", "completed"}
            \/ parentResult = "output"
      /\ parentEvents' = parentEvents
    BY <1>2 DEF AggregatorSteps, Aggregator, FailAggregator, ReleaseAggregator,
                TakeAggregator, CompleteChild, StoreOutput, NotifyParent,
                AggregatorFailed, AggregatorThrows, AggregatorCrash, parentVars
<1> QED
    BY <1>1, <1>3, KeptWhole, AggregatorKeeps DEF WholeInv

LEMMA WholeStep ==
    ASSUME DelayNodes = {}, ~ContinueFlow, SubTypeInv, WholeInv, [SubNext]_treeVars
    PROVE  WholeInv'
<1>1. CASE UNCHANGED treeVars
    BY <1>1, RunWhole DEF treeVars
<1> QED
    BY <1>1, RunWhole, ParentWhole, CacheAnswerWhole, FlowWhole, AggregatorWhole
       DEF SubNext, AggregatorSteps

LEMMA WholeInit == SubInit => WholeInv
<1> SUFFICES ASSUME SubInit PROVE WholeInv
    OBVIOUS
<1>1. FailInv /\ DelayInv
    BY DEF SubInit, Created, FailInv, DelayInv, PastStore, InLock
<1>2. \A n \in Nodes : jobs[FlowJob(n)] = "none"
    BY FlowJobType DEF SubInit, Created
<1> QED
    BY <1>1, <1>2 DEF SubInit, Created, WholeInv, AtDelay, Executed

\* When the final nodes have been executed all nodes have a result.
LEMMA FinalNodesLast ==
    ASSUME FlowIsWhole, WholeInv, \A n \in FinalNodes : Executed(n)
    PROVE  AllHaveResults
<1> DEFINE Done == {n \in Nodes : Executed(n)}
<1>1. FinalNodes \subseteq Done
    BY DEF FinalNodes
<1>2. ASSUME NEW n \in Done PROVE Inputs[n] \subseteq Done
  <2>1. Inputs[n] \subseteq Nodes
      BY WorkflowAssumption
  <2> QED
      BY <2>1 DEF WholeInv, Executed
<1>3. Done = Nodes
    BY <1>1, <1>2 DEF FlowIsWhole
<1> QED
    BY <1>3 DEF WholeInv, AllHaveResults

\* The aggregator finishes, and the parent has its output, only when every node of
\* the child has a result, in whatever order the workers, the listeners and the
\* flow move and whatever fails: of children without delay nodes (whose first job
\* ends before the delay), whose failures fail the flow.
THEOREM FlowsAggregateAll ==
    ASSUME DelayNodes = {}, ~ContinueFlow, FlowIsWhole
    PROVE  SubSpec => []AggregatesAll
<1>1. SubTypeInv /\ WholeInv => AggregatesAll
  <2> SUFFICES ASSUME SubTypeInv, WholeInv,
                      \/ aggPc \in {"complete", "store output", "notify"}
                      \/ parentResult = "output"
               PROVE  \A n \in Nodes : results[n] # "none"
      BY DEF AggregatesAll
  <2>1. \A n \in FinalNodes : Executed(n)
      BY DEF SubTypeInv, AggregatorType, WholeInv
  <2> QED
      BY <2>1, FinalNodesLast DEF AllHaveResults
<1> QED
    BY <1>1, WholeInit, WholeStep, SubTypeInvariant, PTL DEF SubSpec

\* The status becomes 'completed' after a worker's count, or in the aggregator.
LEMMA SubCompletionStep ==
    ASSUME FlowIsWhole, SubTypeInv, WholeInv, CompletionInv, [SubNext]_treeVars
    PROVE  CompletionInv'
<1>1. CASE [Next]_vars
    BY <1>1, CompletionStep DEF SubTypeInv
<1>2. CASE ChildKept /\ (status' = status \/ AggregatorSteps)
  <2>1. status' = "completed" => AllHaveResults
    <3>1. CASE status' = status
        BY <3>1 DEF CompletionInv
    <3>2. CASE AggregatorSteps /\ status' = "completed" /\ status # "completed"
      <4>1. aggPc = "complete"
          BY <3>2 DEF AggregatorSteps, Aggregator, ReleaseAggregator, FailAggregator,
                TakeAggregator, CompleteChild, StoreOutput, NotifyParent, AggregatorFailed,
                AggregatorThrows, AggregatorCrash, SetExecutionStatus, vars, storeVars
      <4>2. \A n \in FinalNodes : Executed(n)
          BY <4>1 DEF SubTypeInv, AggregatorType, WholeInv
      <4> QED
          BY <4>2, FinalNodesLast
    <3> QED
        BY <1>2, <3>1, <3>2 DEF CompletionInv
  <2> QED
      BY <1>2, <2>1 DEF ChildKept, workVars, CompletionInv, AllHaveResults
<1> QED
    BY <1>1, <1>2, ParentKeeps, CacheAnswerKeeps, FlowKeeps, AggregatorKeeps
       DEF SubNext, AggregatorSteps, treeVars

\* processAggregatorNode writes the status of the child beside the child's own
\* workers, without their lock and without their count: still no child is
\* completed before each of its nodes has a result.
THEOREM ChildCompletedIsComplete ==
    ASSUME DelayNodes = {}, ~ContinueFlow, FlowIsWhole
    PROVE  SubSpec => []CompletedHasAllResults
<1>1. SubInit => CompletionInv
    BY DEF SubInit, Created, CompletionInv
<1>2. CompletionInv => CompletedHasAllResults
    BY DEF CompletionInv, AllHaveResults, CompletedHasAllResults
<1> QED
    BY <1>1, <1>2, WholeInit, WholeStep, SubCompletionStep, SubTypeInvariant, PTL
       DEF SubSpec

-----------------------------------------------------------------------------
(***************************************************************************)
(* EngineShutdown.  An end of the process, orderly or not, takes workers,  *)
(* listeners and a start out of the middle of what they do.                *)
(***************************************************************************)

\* From when the workers are closed until the next process no job is active.
WorkersAway == phase \in {"handlers", "queues", "redis", "down"} => Active = {}

ShutTypeInv ==
    /\ JobsInv /\ StoreInv
    /\ phase \in {"up", "down"} \cup Closing
    /\ cut \in BOOLEAN
    /\ WorkersAway

End == Exit \/ ExitEarly

\* What an end does to the queue and the workers, in one place.
LEMMA EndLeaves ==
    ASSUME ShutTypeInv, End
    PROVE  /\ \A j \in JobIds :
                 /\ jobs'[j] = IF jobs[j] = "active" THEN "waiting" ELSE jobs[j]
                 /\ pc'[j] = "idle" /\ outcome'[j] = NoOutcome /\ todo'[j] = << >>
           /\ jobs' \in [JobIds -> JobStates] /\ pc' \in [JobIds -> Labels]
           /\ outcome' \in [JobIds -> Outcome] /\ todo' \in [JobIds -> Seq(Visit)]
           /\ UNCHANGED <<made, storeVars, lock, observed>>
           /\ starting' = {} /\ failing' = {} /\ recorded' = {} /\ cacheEvents' = {}
           /\ phase' = "down"
           /\ cut' = (cut \/ Unfinished \/ Active # {})
<1>1. ProcessGone /\ cut' = (cut \/ Unfinished \/ Active # {})
    BY DEF End, Exit, ExitEarly, ShutTypeInv, WorkersAway
<1>2. \A j \in JobIds : j \in Active <=> jobs[j] = "active"
    BY DEF Active, JobsIn, ShutTypeInv, JobsInv
<1>3. jobs' = [j \in JobIds |-> IF jobs[j] = "active" THEN "waiting" ELSE jobs[j]]
    BY <1>1, <1>2 DEF ProcessGone
<1>4. jobs' \in [JobIds -> JobStates]
    BY <1>3 DEF ShutTypeInv, JobsInv, JobStates
<1>5. pc' \in [JobIds -> Labels] /\ outcome' \in [JobIds -> Outcome]
    BY <1>1 DEF ProcessGone, Labels, NoOutcome, Outcome
<1>6. todo' \in [JobIds -> Seq(Visit)]
    BY <1>1 DEF ProcessGone
<1> QED
    BY <1>1, <1>3, <1>4, <1>5, <1>6 DEF ProcessGone

\* Closing the engine's listeners, before the queues.
HandlersLeave ==
    /\ starting' = {} /\ cacheEvents' = {}
    /\ cut' = (cut \/ starting # {})
    /\ UNCHANGED <<queueVars, workVars, storeVars, lock, failing, recorded, observed>>

LEMMA RunOrEnd ==
    ASSUME [ShutNext]_processVars
    PROVE  \/ [Next]_vars /\ cut' = cut
           \/ HandlersLeave /\ phase' = "queues" /\ phase = "handlers"
           \/ End
BY DEF ShutNext, Orderly, processVars, shutVars, ProcessStep, RedisStep, WorkersClosed,
       HandlersRun, HandlersLeave, QueuesClosed, Restart, Signal, End, Next

LEMMA ShutTypeStep ==
    ASSUME ShutTypeInv, [ShutNext]_processVars
    PROVE  ShutTypeInv'
<1> USE DEF ShutTypeInv
<1>1. CASE End
  <2>1. JobsInv'
      BY <1>1, EndLeaves DEF JobsInv, WorkerHasJob, AttemptsLeft, ChildToEnqueue
  <2>2. StoreInv'
      BY <1>1, EndLeaves DEF StoreInv, storeVars, observed
  <2>3. Active' = {}
      BY <1>1, <2>1, EndLeaves DEF Active, JobsIn, JobsInv
  <2> QED
      BY <1>1, <2>1, <2>2, <2>3, EndLeaves DEF WorkersAway
<1>2. CASE HandlersRun
  <2>1. JobsInv' /\ StoreInv'
      BY <1>2 DEF HandlersRun, JobsInv, StoreInv, queueVars, workVars, storeVars, observed,
            WorkerHasJob, AttemptsLeft, ChildToEnqueue
  <2>2. Active' = Active
      BY <1>2 DEF HandlersRun, Active, queueVars
  <2> QED
      BY <1>2, <2>1, <2>2 DEF HandlersRun, WorkersAway, Closing
<1>3. CASE Signal \/ WorkersClosed \/ QueuesClosed \/ Restart \/ UNCHANGED processVars
  <2>1. JobsInv' /\ StoreInv' /\ Active' = Active
      BY <1>3, SameJobs DEF Signal, WorkersClosed, QueuesClosed, Restart, processVars, vars,
            StoreInv, storeVars, observed, Active, queueVars
  <2> QED
      BY <1>3, <2>1 DEF Signal, WorkersClosed, QueuesClosed, Restart, processVars, shutVars,
            WorkersAway, Closing
<1>4. CASE ProcessStep
  <2>1. JobsInv' /\ StoreInv'
      BY <1>4, NextJobs, NextStore DEF ProcessStep
  <2>2. phase # "up" => Active' \subseteq Active
      BY <1>4 DEF ProcessStep, Active
  <2> QED
      BY <1>4, <2>1, <2>2 DEF ProcessStep, shutVars, WorkersAway
<1>5. CASE RedisStep
  <2>1. Next
      BY <1>5 DEF RedisStep, Next
  <2>2. JobsInv' /\ StoreInv'
      BY <2>1, NextJobs, NextStore
  <2>3. Active' \subseteq Active
      BY <1>5 DEF RedisStep, LockExpires, DelayElapses, SetJob, Active, JobsIn, JobsInv, queueVars
  <2> QED
      BY <1>5, <2>2, <2>3 DEF RedisStep, shutVars, WorkersAway
<1> QED
    BY <1>1, <1>2, <1>3, <1>4, <1>5 DEF ShutNext, Orderly, End

LEMMA ShutTypeInvariant == ShutSpec => []ShutTypeInv
<1>1. ShutInit => ShutTypeInv
    BY InitTypeInv, TypeInvParts DEF ShutInit, ShutTypeInv, WorkersAway
<1> QED
    BY <1>1, ShutTypeStep, PTL DEF ShutSpec

(***************************************************************************)
(* The invariants of WorkflowRunProofs speak of what a worker or listener  *)
(* is about to do; an end leaves none of them anything to do.              *)
(***************************************************************************)
LEMMA ShutCompletionStep ==
    ASSUME ShutTypeInv, CompletionInv, [ShutNext]_processVars
    PROVE  CompletionInv'
<1>1. CASE [Next]_vars
    BY <1>1, CompletionStep DEF ShutTypeInv
<1>2. CASE HandlersLeave
    BY <1>2 DEF HandlersLeave, workVars, storeVars, CompletionInv, AllHaveResults
<1>3. CASE End
    BY <1>3, EndLeaves DEF storeVars, CompletionInv, AllHaveResults
<1> QED
    BY <1>1, <1>2, <1>3, RunOrEnd

LEMMA ShutFailStep ==
    ASSUME ShutTypeInv, FailInv, [ShutNext]_processVars
    PROVE  FailInv'
<1>1. CASE [Next]_vars
    BY <1>1, FailStep DEF ShutTypeInv
<1>2. CASE HandlersLeave
    BY <1>2 DEF HandlersLeave, workVars, storeVars, FailInv
<1>3. CASE End
    BY <1>3, EndLeaves DEF FailInv
<1> QED
    BY <1>1, <1>2, <1>3, RunOrEnd

LEMMA ShutDelayStep ==
    ASSUME ShutTypeInv, DelayInv, [ShutNext]_processVars
    PROVE  DelayInv'
<1>1. CASE [Next]_vars
    BY <1>1, DelayStep DEF ShutTypeInv
<1>2. CASE HandlersLeave
    BY <1>2 DEF HandlersLeave, workVars, storeVars, DelayInv
<1>3. CASE End
    BY <1>3, EndLeaves DEF DelayInv, PastStore, InLock
<1> QED
    BY <1>1, <1>2, <1>3, RunOrEnd

LEMMA ShutParentsStep ==
    ASSUME ShutTypeInv, ParentsInv, [ShutNext]_processVars
    PROVE  ParentsInv'
<1>1. CASE [Next]_vars
    BY <1>1, ParentsStep DEF ShutTypeInv
<1>2. CASE HandlersLeave
    BY <1>2 DEF HandlersLeave, queueVars, workVars, storeVars, ParentsInv, ParentsBeforeChildren
<1>3. CASE End
  <2>1. \A n \in Nodes : <<n, "node">> \in JobIds
      BY DEF JobIds
  <2> QED
      BY <1>3, <2>1, EndLeaves DEF storeVars, ParentsInv, ParentsBeforeChildren
<1> QED
    BY <1>1, <1>2, <1>3, RunOrEnd

LEMMA ShutOnceStep ==
    ASSUME "overrun" \notin Faults, ShutTypeInv, LockInv, OnceInv, [ShutNext]_processVars
    PROVE  LockInv' /\ OnceInv'
<1>1. CASE [Next]_vars
    BY <1>1, LockStep, OnceStep DEF ShutTypeInv
<1>2. CASE HandlersLeave
    BY <1>2 DEF HandlersLeave, workVars, storeVars, observed, LockInv, OnceInv
<1>3. CASE End
    BY <1>3, EndLeaves DEF storeVars, observed, LockInv, OnceInv, InLock
<1> QED
    BY <1>1, <1>2, <1>3, RunOrEnd

LEMMA ShutOneJobStep ==
    ASSUME NobodyBranches, ShutTypeInv, DelayInv, OneJobInv, [ShutNext]_processVars
    PROVE  OneJobInv'
<1>1. CASE [Next]_vars
    BY <1>1, BelongsStep, EverySelects, UnresolvedStep, EventsStep DEF OneJobInv, ShutTypeInv
<1>2. CASE HandlersLeave
    BY <1>2 DEF HandlersLeave, queueVars, workVars, storeVars, OneJobInv, Belongs, SelectsAll,
          Unresolved, EventsFollow
<1>3. CASE End
    BY <1>3, EndLeaves DEF OneJobInv, Belongs, SelectsAll, VisitsRun, Unresolved, EventsFollow
<1> QED
    BY <1>1, <1>2, <1>3, RunOrEnd

\* No shutdown makes an execution 'completed' too early: not one that cuts off a
\* worker between its count and its write of the status.
THEOREM CompletedIsCompleteAcrossShutdowns == ShutSpec => []CompletedHasAllResults
<1>1. ShutInit => CompletionInv
    BY DEF ShutInit, Init, Created, CompletionInv
<1>2. CompletionInv => CompletedHasAllResults
    BY DEF CompletionInv, AllHaveResults, CompletedHasAllResults
<1> QED
    BY <1>1, <1>2, ShutCompletionStep, ShutTypeInvariant, PTL DEF ShutSpec

\* Whatever a shutdown cuts off, its executions remain abstract executions.
THEOREM ShutdownImplementsExecution == ShutSpec => ImplementsExecution
<1>1. ShutInit => CompletionInv /\ FailInv /\ Promised!Init
    BY DEF ShutInit, Init, Created, CompletionInv, FailInv, Promised!Init
<1>2. ShutTypeInv /\ CompletionInv /\ FailInv /\ [ShutNext]_processVars
        => [Promised!Next]_<<status, results>>
  <2> SUFFICES ASSUME ShutTypeInv, CompletionInv, FailInv, [ShutNext]_processVars
               PROVE  [Promised!Next]_<<status, results>>
      OBVIOUS
  <2>1. CASE [Next]_vars
      BY <2>1, StepsAreAllowed DEF ShutTypeInv
  <2>2. CASE HandlersLeave \/ End
      BY <2>2, EndLeaves DEF HandlersLeave, storeVars
  <2> QED
      BY <2>1, <2>2, RunOrEnd
<1> QED
    BY <1>1, <1>2, ShutCompletionStep, ShutFailStep, ShutTypeInvariant, PTL
       DEF ShutSpec, ImplementsExecution, Promised!Spec

\* A child that is in the queue when the process ends, or is put there by the next
\* one, has the results of all its parents.
THEOREM ParentsComeFirstAcrossShutdowns == ShutSpec => []ParentsBeforeChildren
<1>1. ShutInit => ParentsInv
  <2> SUFFICES ASSUME ShutInit PROVE ParentsInv
      OBVIOUS
  <2>1. ASSUME NEW n \in Nodes PROVE jobs[<<n, "node">>] = "none"
      BY DEF ShutInit, Init, Created, JobIds
  <2> QED
      BY <2>1 DEF ShutInit, Init, Created, ParentsInv, ParentsBeforeChildren
<1>2. ParentsInv => ParentsBeforeChildren
    BY DEF ParentsInv
<1> QED
    BY <1>1, <1>2, ShutParentsStep, ShutTypeInvariant, PTL DEF ShutSpec

\* A delay node whose first job is cut off still waits for its second.
THEOREM DelaysAreWaitedForAcrossShutdowns == ShutSpec => DelayIsWaitedFor
<1>1. ShutInit => DelayInv
    BY DEF ShutInit, Init, Created, DelayInv, PastStore, InLock
<1>2. ShutTypeInv /\ DelayInv /\ [ShutNext]_processVars =>
        [\A n \in DelayNodes :
            results[n] = "none" /\ results'[n] = "success"
               => jobs[<<n, "resumed">>] \in {"active", "completed"}]_vars
    BY RunOrEnd, EndLeaves, FirstSuccess DEF ShutTypeInv, HandlersLeave, storeVars
<1> QED
    BY <1>1, <1>2, ShutDelayStep, ShutTypeInvariant, PTL DEF ShutSpec, DelayIsWaitedFor

\* The lock a process leaves behind admits no second announcement.
THEOREM CompletionAnnouncedOnceAcrossShutdowns ==
    ASSUME "overrun" \notin Faults
    PROVE  ShutSpec => []CompletedOnce
<1>1. ShutInit => LockInv /\ OnceInv
    BY DEF ShutInit, Init, Created, LockInv, OnceInv, InLock
<1>2. ShutTypeInv /\ LockInv /\ OnceInv /\ [ShutNext]_processVars => LockInv' /\ OnceInv'
    BY ShutOnceStep
<1>3. OnceInv => CompletedOnce
    BY DEF OnceInv, CompletedOnce
<1> QED
    BY <1>1, <1>2, <1>3, ShutTypeInvariant, PTL DEF ShutSpec

\* A job that was cut off is run again by the next process, which finds a result
\* that had been stored.
THEOREM NodesRunOnceAcrossShutdowns ==
    ASSUME NobodyBranches
    PROVE  ShutSpec => NoReexecution
<1>1. ShutInit => DelayInv /\ OneJobInv
  <2> SUFFICES ASSUME ShutInit PROVE DelayInv /\ OneJobInv
      OBVIOUS
  <2>1. \A j \in JobIds : jobs[j] = "none" /\ pc[j] = "idle" /\ todo[j] = << >>
      BY DEF ShutInit, Init, Created
  <2>2. cacheEvents = {}
      BY DEF ShutInit, Init, Created
  <2> QED
      BY <2>1, <2>2 DEF DelayInv, PastStore, InLock, OneJobInv, Belongs, SelectsAll,
            VisitsRun, Unresolved, EventsFollow
<1>2. ShutTypeInv /\ DelayInv /\ OneJobInv /\ [ShutNext]_processVars => DelayInv' /\ OneJobInv'
    BY ShutDelayStep, ShutOneJobStep
<1>3. ShutTypeInv /\ DelayInv /\ OneJobInv /\ [ShutNext]_processVars =>
        [\A j \in JobIds :
            pc[j] = "execute" /\ pc'[j] = "store" => ~Resolved(results[Node(j)])]_vars
    BY DEF DelayInv, OneJobInv, Unresolved
<1> QED
    BY <1>1, <1>2, <1>3, ShutTypeInvariant, PTL DEF ShutSpec, NoReexecution

-----------------------------------------------------------------------------
(***************************************************************************)
(* What EndsUnlessCut says without fairness: an execution that has come to *)
(* rest has ended, or an end of the process has cut somebody off.          *)
(***************************************************************************)
RestsOnlyAtEndOrCut == Quiet /\ faults = 0 => status \in Terminal \/ cut

NeverPaused == status \in {"running", "completed", "failed"}

ShutSerialInv == NeverPaused /\ (cut \/ SerialInv)

\* An end that cuts nobody off changes nothing but the memory nobody uses.
LEMMA EndInOrder ==
    ASSUME ShutTypeInv, End, ~cut'
    PROVE  /\ UNCHANGED <<jobs, pc, starting, failing, recorded, results, status, lock, faults>>
           /\ \A j \in JobIds : pc[j] = "idle"
           /\ cacheEvents' = {}
<1>1. Active = {} /\ starting = {} /\ failing = {} /\ recorded = {}
    BY EndLeaves DEF Unfinished
<1>2. \A j \in JobIds : jobs[j] # "active"
    BY <1>1 DEF Active, JobsIn, ShutTypeInv, JobsInv
<1>3. \A j \in JobIds : pc[j] = "idle"
    BY <1>2 DEF ShutTypeInv, JobsInv, WorkerHasJob
<1>4. jobs' = jobs
    BY <1>2, EndLeaves DEF ShutTypeInv, JobsInv
<1>5. pc' = pc
    BY <1>3 DEF End, Exit, ExitEarly, ProcessGone, ShutTypeInv, JobsInv
<1> QED
    BY <1>1, <1>3, <1>4, <1>5, EndLeaves DEF storeVars, observed

\* Nor does SerialInv, then.
LEMMA RestKept ==
    ASSUME SerialInv, UNCHANGED <<jobs, pc, starting, failing, recorded, results, status,
                                  lock, faults>>,
           cacheEvents' = {},
           todo' = todo \/ \A j \in JobIds : pc[j] = "idle"
    PROVE  SerialInv'
<1>1. Trouble' = Trouble
    BY DEF Trouble
<1>2. OneActive' /\ (CompletesInv => CompletesInv')
    BY DEF SerialInv, OneActive, CompletesInv, AllHaveResults
<1>3. WorkersInStep /\ JobsHandled => WorkersInStep' /\ JobsHandled' /\ EventsResolved'
    BY DEF WorkersInStep, JobsHandled, Handled, EventsResolved
<1>4. ASSUME NEW n \in Nodes, Covered(n) PROVE Covered(n)'
  <2>1. OnList(n) => OnList(n)'
      BY DEF OnList
  <2> QED
      BY <1>4, <2>1 DEF Covered, Ahead, HasJob, ParentsResolved
<1> QED
    BY <1>1, <1>2, <1>3, <1>4 DEF SerialInv, JoinInv

LEMMA ShutSerialStep ==
    ASSUME WorkflowIsValid, Concurrency = 1, ShutTypeInv, ShutSerialInv,
           [ShutNext]_processVars
    PROVE  ShutSerialInv'
<1>1. NeverPaused'
  <2>1. CASE [Next]_vars
      BY <2>1, EveryStatusSet DEF StatusSet, SetExecutionStatus, ShutSerialInv, NeverPaused
  <2>2. CASE HandlersLeave \/ End
      BY <2>2, EndLeaves DEF HandlersLeave, storeVars, ShutSerialInv, NeverPaused
  <2> QED
      BY <2>1, <2>2, RunOrEnd
<1>2. cut' \/ SerialInv'
  <2> SUFFICES ASSUME ~cut' PROVE SerialInv'
      OBVIOUS
  <2>1. SerialInv
      BY RunOrEnd, EndLeaves DEF ShutSerialInv, HandlersLeave
  <2>2. CASE [Next]_vars
      BY <2>1, <2>2, SerialStep DEF ShutTypeInv
  <2>3. CASE HandlersLeave
      BY <2>1, <2>3, RestKept DEF HandlersLeave, queueVars, workVars, storeVars, observed
  <2>4. CASE End
      BY <2>1, <2>4, EndInOrder, RestKept
  <2> QED
      BY <2>2, <2>3, <2>4, RunOrEnd
<1> QED
    BY <1>1, <1>2 DEF ShutSerialInv

\* A shutdown that comes to its end by itself, and cuts off no start and no
\* listener, loses no job and no completion, however many of them there are: with
\* one slot and without faults an execution of a valid workflow that has come to
\* rest is at its end.
THEOREM ShutdownsLoseNothing ==
    ASSUME WorkflowIsValid, Concurrency = 1, Nodes # {}
    PROVE  ShutSpec => []RestsOnlyAtEndOrCut
<1>1. ShutInit => ShutSerialInv
    BY SerialInit DEF ShutInit, Init, Created, ShutSerialInv, NeverPaused
<1>2. ShutTypeInv /\ ShutSerialInv /\ [ShutNext]_processVars => ShutSerialInv'
    BY ShutSerialStep
<1>3. ShutTypeInv /\ ShutSerialInv => RestsOnlyAtEndOrCut
    BY RestIsEnd DEF ShutTypeInv, ShutSerialInv, NeverPaused, RestsOnlyAtEndOrCut, Terminal
<1> QED
    BY <1>1, <1>2, <1>3, ShutTypeInvariant, PTL DEF ShutSpec

=============================================================================
