-------------------------- MODULE WorkflowControl --------------------------
(***************************************************************************)
(* WorkflowEngine.cancelWorkflow, pauseWorkflow and resumeWorkflow, called *)
(* while the execution of WorkflowRun goes on.  A call is a process of its *)
(* own: it writes the status, lists the execution's jobs once, and then    *)
(* handles the listed jobs one await at a time, while the workers go on    *)
(* taking and adding jobs.                                                 *)
(***************************************************************************)
EXTENDS WorkflowRun

CONSTANTS
    Callers,     \* clients that may be inside a control call at a time
    Operations,  \* calls they make, out of OperationNames
    MaxCalls     \* bound on the number of calls

OperationNames == {"cancel", "pause", "resume"}

ASSUME ControlAssumption ==
    /\ Operations \subseteq OperationNames
    /\ MaxCalls \in Nat

VARIABLES
    op,        \* the call a client is in
    step,      \* where it is in the call
    list,      \* jobs the call has still to handle
    held,      \* the job pauseWorkflow has removed and not yet added again
    calls,     \* number of calls begun (bound only)
    cancelled, \* a cancellation has taken effect (observation only)
    late       \* active jobs taken after a cancellation (observation only)

callVars == <<op, step, list, held, calls>>
seen == <<cancelled, late>>
controlVars == <<callVars, seen>>
allVars == <<vars, controlVars>>

ControlInit ==
    /\ Init
    /\ op = [c \in Callers |-> "none"]
    /\ step = [c \in Callers |-> "idle"]
    /\ list = [c \in Callers |-> {}]
    /\ held = [c \in Callers |-> NoJob]
    /\ calls = 0
    /\ cancelled = FALSE
    /\ late = {}

StepTo(c, label) == step' = [step EXCEPT ![c] = label]

\* The call returns, or rejects, and keeps nothing.
Return(c) ==
    /\ StepTo(c, "idle")
    /\ op' = [op EXCEPT ![c] = "none"]
    /\ list' = [list EXCEPT ![c] = {}]

Call(c, operation) ==
    /\ step[c] = "idle"
    /\ calls < MaxCalls
    /\ calls' = calls + 1
    /\ op' = [op EXCEPT ![c] = operation]
    /\ StepTo(c, "status")
    /\ UNCHANGED <<vars, list, held, seen>>

NewStatus(operation) ==
    CASE operation = "cancel" -> "cancelled"
      [] operation = "pause" -> "paused"
      [] operation = "resume" -> "running"

WriteStatus(c) ==
    /\ step[c] = "status"
    /\ status' = SetExecutionStatus(Guarded, status, NewStatus(op[c]))
    /\ cancelled' = (cancelled \/ (op[c] = "cancel" /\ status' = "cancelled"))
    /\ StepTo(c, "list")
    /\ UNCHANGED <<starting, queueVars, workVars, results, lock, listenerVars,
                   observed, op, list, held, calls, late>>

\* The job states each operation asks the queue for.
Listed(operation) ==
    CASE operation = "cancel" -> {"waiting", "delayed"}
      [] operation = "pause" -> {"waiting"}
      [] operation = "resume" -> {"delayed"}

ListJobs(c) ==
    /\ step[c] = "list"
    /\ list' = [list EXCEPT ![c] = JobsIn(jobs, Listed(op[c]))]
    /\ StepTo(c, "loop")
    /\ UNCHANGED <<vars, op, held, calls, seen>>

EndCall(c) ==
    /\ step[c] = "loop"
    /\ list[c] = {}
    /\ Return(c)
    /\ UNCHANGED <<vars, held, calls, cancelled, late>>

-----------------------------------------------------------------------------
\* job.remove deletes a job in whatever state it is by now, unless a worker
\* holds it.
RemoveJob(j) ==
    /\ jobs' = SetJob(jobs, j, "none")
    /\ made' = [made EXCEPT ![j] = 0]
    /\ UNCHANGED <<starting, workVars, storeVars, lock, listenerVars, observed>>

CancelJob(c, j) ==
    /\ step[c] = "loop" /\ op[c] = "cancel"
    /\ j \in list[c]
    /\ \/ /\ Removable(jobs, j)
          /\ RemoveJob(j)
          /\ list' = [list EXCEPT ![c] = @ \ {j}]
          /\ UNCHANGED <<op, step>>
       \* the error is not caught: the call rejects with the rest of its list
       \/ /\ ~Removable(jobs, j)
          /\ Return(c)
          /\ UNCHANGED vars
    /\ UNCHANGED <<held, calls, cancelled, late>>

PauseJob(c, j) ==
    /\ step[c] = "loop" /\ op[c] = "pause"
    /\ j \in list[c]
    /\ list' = [list EXCEPT ![c] = @ \ {j}]
    /\ \/ /\ Removable(jobs, j)
          /\ RemoveJob(j)
          /\ held' = [held EXCEPT ![c] = j]
          /\ StepTo(c, "readd")
       \* the error is caught and logged: next job
       \/ /\ ~Removable(jobs, j)
          /\ UNCHANGED <<vars, held, step>>
    /\ UNCHANGED <<op, calls, seen>>

ReAddJob(c) ==
    /\ step[c] = "readd"
    /\ jobs' = AddJob(jobs, held[c], "delayed")
    /\ held' = [held EXCEPT ![c] = NoJob]
    /\ StepTo(c, "loop")
    /\ UNCHANGED <<starting, made, workVars, storeVars, lock, listenerVars,
                   observed, op, list, calls, seen>>

\* job.promote; the error for a job that is not delayed any more is ignored.
PromoteJob(c, j) ==
    /\ step[c] = "loop" /\ op[c] = "resume"
    /\ j \in list[c]
    /\ list' = [list EXCEPT ![c] = @ \ {j}]
    /\ \/ /\ jobs[j] = "delayed"
          /\ jobs' = SetJob(jobs, j, "waiting")
       \/ /\ jobs[j] # "delayed"
          /\ UNCHANGED jobs
    /\ UNCHANGED <<starting, made, workVars, storeVars, lock, listenerVars,
                   observed, op, step, held, calls, seen>>

\* The process of the client dies; a removed job it had not added again is lost.
CallerCrash(c) ==
    /\ step[c] # "idle"
    /\ Fault("crash")
    /\ StepTo(c, "idle")
    /\ op' = [op EXCEPT ![c] = "none"]
    /\ list' = [list EXCEPT ![c] = {}]
    /\ held' = [held EXCEPT ![c] = NoJob]
    /\ UNCHANGED <<starting, queueVars, workVars, storeVars, lock, listenerVars,
                   announced, calls, seen>>

-----------------------------------------------------------------------------
Observe ==
    /\ LET active == JobsIn(jobs', {"active"})
           taken == IF cancelled THEN active \ JobsIn(jobs, {"active"}) ELSE {} IN
          late' = (late \cap active) \cup taken
    /\ UNCHANGED <<callVars, cancelled>>

RunStep == Next /\ Observe

Control(c) ==
    \/ WriteStatus(c) \/ ListJobs(c) \/ EndCall(c) \/ ReAddJob(c)
    \/ \E j \in list[c] : CancelJob(c, j) \/ PauseJob(c, j) \/ PromoteJob(c, j)

ControlNext ==
    \/ RunStep
    \/ \E c \in Callers, operation \in Operations : Call(c, operation)
    \/ \E c \in Callers : Control(c) \/ CallerCrash(c)

ControlSpec == ControlInit /\ [][ControlNext]_allVars

-----------------------------------------------------------------------------
(***************************************************************************)
(* Properties                                                              *)
(***************************************************************************)
NoCall == \A c \in Callers : step[c] = "idle"

\* The status check of routeNodeExecution: a job taken after a cancellation has
\* taken effect never gets as far as its node.
CancelStopsExecution ==
    \A j \in late : pc[j] \in {"idle", "route", "state"}

=============================================================================
