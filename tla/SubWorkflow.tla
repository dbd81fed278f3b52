---------------------------- MODULE SubWorkflow ----------------------------
(***************************************************************************)
(* A sub-workflow node of a parent execution and the execution it starts.  *)
(* The variables of WorkflowRun are those of the child execution; its      *)
(* nodes come as jobs of a BullMQ flow, under an aggregator job that waits *)
(* for the final nodes, completes the child and hands its output to the    *)
(* parent.  Each of them is a job <<n, "manual">>: it has an id of its own *)
(* beside the deterministic one of checkAndEnqueueChildren.  The parent's  *)
(* execution is running throughout, and its workers have free slots.       *)
(***************************************************************************)
EXTENDS WorkflowRun

CONSTANTS
    IsEntry,       \* the sub-workflow node is an entry node of its workflow
    ContinueFlow   \* SubWorkflowConfig.continueOnFail

FinalNodes == {n \in Nodes : Outputs[n] = <<>>}

\* A flow job has one parent, so a node may feed at most one other; and the
\* jobs of the parent (three attempts) survive the faults of a run.
ASSUME SubWorkflowAssumption ==
    /\ IsEntry \in BOOLEAN
    /\ ContinueFlow \in BOOLEAN
    /\ \A n \in Nodes : Cardinality(Children(n)) <= 1
    /\ FinalNodes # {}
    /\ MaxFaults < 3

VARIABLES
    flow,          \* nodes whose flow job waits for those it depends on
    agg,           \* state of the aggregator job
    aggPc,         \* where the aggregator is
    parentJobs,    \* jobs of the sub-workflow node
    parentPc,      \* where a worker is in them
    parentOutcome, \* the result it holds
    parentResult,  \* the node's stored result
    parentEvents,  \* 'completed' events the result cache has not handled
    started        \* number of executions the node has created

aggVars == <<agg, aggPc>>
parentVars == <<parentJobs, parentPc, parentOutcome, parentEvents>>
subVars == <<flow, aggVars, parentVars, parentResult, started>>
treeVars == <<vars, subVars>>

\* Where the failure path of the aggregator is; its other labels are in its try.
InCatch == {"fail", "store failure", "notify failure"}

ParentIds == {"manual", "node"}
FirstJob == IF IsEntry THEN "manual" ELSE "node"

\* Wrong: the placeholder does not count as a stored success.
HasOutput == parentResult = "output"

ParentResolved == parentResult \in {"started", "output"}

FlowJob(n) == <<n, "manual">>

SubInit ==
    /\ starting = {}
    /\ Created
    /\ flow = {}
    /\ agg = "none"
    /\ aggPc = "idle"
    /\ parentJobs = [p \in ParentIds |-> IF p = FirstJob THEN "waiting" ELSE "none"]
    /\ parentPc = [p \in ParentIds |-> "idle"]
    /\ parentOutcome = [p \in ParentIds |-> "none"]
    /\ parentResult = "none"
    /\ parentEvents = {}
    /\ started = 0

-----------------------------------------------------------------------------
(***************************************************************************)
(* The parent's side: routeNodeExecution, processSubWorkflowNode and       *)
(* executeSubWorkflowWithFlow.                                             *)
(***************************************************************************)
ParentGoto(p, label) == parentPc' = [parentPc EXCEPT ![p] = label]

ParentFinish(p, result) ==
    /\ ParentGoto(p, "idle")
    /\ parentJobs' = SetJob(parentJobs, p, "completed")
    /\ parentOutcome' = [parentOutcome EXCEPT ![p] = "none"]
    /\ parentEvents' = parentEvents \cup {result}

TakeParent(p) ==
    /\ parentJobs[p] = "waiting"
    /\ parentJobs' = SetJob(parentJobs, p, "active")
    /\ ParentGoto(p, "route")
    /\ UNCHANGED <<vars, flow, aggVars, parentOutcome, parentEvents,
                   parentResult, started>>

RouteParent(p) ==
    /\ parentPc[p] = "route"
    /\ \/ /\ ParentResolved
          /\ ParentFinish(p, parentResult)
       \/ /\ ~ParentResolved
          /\ ParentGoto(p, "create")
          /\ UNCHANGED <<parentJobs, parentOutcome, parentEvents>>
    /\ UNCHANGED <<vars, flow, aggVars, parentResult, started>>

\* createExecution and its metadata: every call creates another execution.
CreateExecution(p) ==
    /\ parentPc[p] = "create"
    /\ started' = started + 1
    /\ ParentGoto(p, "flow")
    /\ UNCHANGED <<vars, flow, aggVars, parentJobs, parentOutcome, parentEvents,
                   parentResult>>

\* flowProducer.add adds the whole tree at once.  The first one is the child
\* execution of this model; later ones are counted and not followed.
AddFlow(p) ==
    /\ parentPc[p] = "flow"
    /\ \/ /\ agg = "none"
          /\ flow' = Nodes
          /\ agg' = "waiting-children"
       \/ /\ agg # "none"
          /\ UNCHANGED <<flow, agg>>
    /\ parentOutcome' = [parentOutcome EXCEPT ![p] = "started"]
    /\ ParentGoto(p, "store")
    /\ UNCHANGED <<vars, aggPc, parentJobs, parentEvents, parentResult, started>>

\* updateNodeResult with the answer; neither children nor completion of the
\* parent are looked at.
StoreAnswer(p) ==
    /\ parentPc[p] = "store"
    /\ parentResult' = parentOutcome[p]
    /\ ParentFinish(p, parentOutcome[p])
    /\ UNCHANGED <<vars, flow, aggVars, started>>

\* The result-cache listener of the parent's job.
CacheAnswer(result) ==
    /\ result \in parentEvents
    /\ parentEvents' = parentEvents \ {result}
    /\ parentResult' = result
    /\ UNCHANGED <<vars, flow, aggVars, parentJobs, parentPc, parentOutcome, started>>

\* The catch block of executeSubWorkflowWithFlow answers with a failure; other
\* errors, and crashes, have the job taken again.
ParentFault(p) ==
    /\ parentPc[p] # "idle"
    /\ \/ /\ parentPc[p] \in {"create", "flow"}
          /\ Fault("error")
          /\ parentOutcome' = [parentOutcome EXCEPT ![p] = "failed"]
          /\ ParentGoto(p, "store")
          /\ UNCHANGED parentJobs
       \/ /\ \/ Fault("crash")
             \/ parentPc[p] \in {"route", "store"} /\ Fault("error")
          /\ parentOutcome' = [parentOutcome EXCEPT ![p] = "none"]
          /\ ParentGoto(p, "idle")
          /\ parentJobs' = SetJob(parentJobs, p, "waiting")
    /\ UNCHANGED <<starting, queueVars, workVars, storeVars, lock, listenerVars,
                   announced, flow, aggVars, parentEvents, parentResult, started>>

-----------------------------------------------------------------------------
(***************************************************************************)
(* The flow: BullMQ starts a job when those it depends on are done.  With  *)
(* failParentOnFailure it fails the job when one of them failed, by way of *)
(* the worker and its 'failed' event; with ignoreDependencyOnFailure a     *)
(* failed one counts as done.                                              *)
(***************************************************************************)
Settled(n) ==
    \/ jobs[FlowJob(n)] = "completed"
    \/ ContinueFlow /\ jobs[FlowJob(n)] = "failed"

Broken(n) == ~ContinueFlow /\ jobs[FlowJob(n)] = "failed"

\* Wrong: the tree is built from the entry nodes, so a join depends on one input.
ReleaseAfterOne(n) ==
    /\ n \in flow
    /\ Inputs[n] = {} \/ \E p \in Inputs[n] : Settled(p)
    /\ flow' = flow \ {n}
    /\ jobs' = AddJob(jobs, FlowJob(n), "waiting")
    /\ UNCHANGED <<starting, made, workVars, storeVars, lock, listenerVars,
                   observed, aggVars, parentVars, parentResult, started>>

ReleaseNode(n) ==
    /\ n \in flow
    /\ \A p \in Inputs[n] : Settled(p)
    /\ flow' = flow \ {n}
    /\ jobs' = AddJob(jobs, FlowJob(n), "waiting")
    /\ UNCHANGED <<starting, made, workVars, storeVars, lock, listenerVars,
                   observed, aggVars, parentVars, parentResult, started>>

FailNode(n) ==
    /\ n \in flow
    /\ \E p \in Inputs[n] : Broken(p)
    /\ flow' = flow \ {n}
    /\ jobs' = AddJob(jobs, FlowJob(n), "failed")
    /\ failing' = failing \cup {FlowJob(n)}
    /\ UNCHANGED <<starting, made, workVars, storeVars, lock, recorded, cacheEvents,
                   observed, aggVars, parentVars, parentResult, started>>

ReleaseAggregator ==
    /\ agg = "waiting-children"
    /\ \A n \in FinalNodes : Settled(n)
    /\ agg' = "waiting"
    /\ UNCHANGED <<vars, flow, aggPc, parentVars, parentResult, started>>

FailAggregator ==
    /\ agg = "waiting-children"
    /\ \E n \in FinalNodes : Broken(n)
    /\ agg' = "failing"
    /\ UNCHANGED <<vars, flow, aggPc, parentVars, parentResult, started>>

-----------------------------------------------------------------------------
(***************************************************************************)
(* processAggregatorNode                                                   *)
(***************************************************************************)
TakeAggregator ==
    /\ agg = "waiting"
    /\ agg' = "active"
    /\ aggPc' = "complete"
    /\ UNCHANGED <<vars, flow, parentVars, parentResult, started>>

\* Wrong: leaves the child's status to checkWorkflowCompletion.
AggregateOnly ==
    /\ aggPc = "complete"
    /\ aggPc' = "store output"
    /\ UNCHANGED <<vars, flow, agg, parentVars, parentResult, started>>

\* getChildrenValues, and the status of the child execution: 'failed' in the
\* catch block.
CompleteChild ==
    /\ \/ /\ aggPc = "complete"
          /\ status' = SetExecutionStatus(Guarded, status, "completed")
          /\ aggPc' = "store output"
       \/ /\ aggPc = "fail"
          /\ status' = SetExecutionStatus(Guarded, status, "failed")
          /\ aggPc' = "store failure"
    /\ UNCHANGED <<starting, queueVars, workVars, results, lock, listenerVars,
                   observed, flow, agg, parentVars, parentResult, started>>

StoreOutput ==
    /\ \/ /\ aggPc = "store output"
          /\ parentResult' = "output"
          /\ aggPc' = "notify"
       \/ /\ aggPc = "store failure"
          /\ parentResult' = "failed"
          /\ aggPc' = "notify failure"
    /\ UNCHANGED <<vars, flow, agg, parentVars, started>>

\* enqueueNode of the parent's node, under its deterministic id.
NotifyParent ==
    /\ aggPc \in {"notify", "notify failure"}
    /\ parentJobs' = AddJob(parentJobs, "node", "waiting")
    /\ agg' = "completed"
    /\ aggPc' = "idle"
    /\ UNCHANGED <<vars, flow, parentPc, parentOutcome, parentEvents, parentResult,
                   started>>

\* An error leads into the catch block, and in there to the 'failed' event.
AggregatorThrows ==
    /\ aggPc # "idle"
    /\ Fault("error")
    /\ \/ /\ aggPc \notin InCatch
          /\ aggPc' = "fail"
          /\ UNCHANGED agg
       \/ /\ aggPc \in InCatch
          /\ aggPc' = "idle"
          /\ agg' = "failing"
    /\ UNCHANGED <<starting, queueVars, workVars, storeVars, lock, listenerVars,
                   announced, flow, parentVars, parentResult, started>>

AggregatorCrash ==
    /\ aggPc # "idle"
    /\ Fault("crash")
    /\ aggPc' = "idle"
    /\ agg' = "waiting"
    /\ UNCHANGED <<starting, queueVars, workVars, storeVars, lock, listenerVars,
                   announced, flow, parentVars, parentResult, started>>

\* The 'failed' listener: it fails the child execution, or is lost.
AggregatorFailed ==
    /\ agg = "failing"
    /\ agg' = "failed"
    /\ \/ /\ status' = SetExecutionStatus(Guarded, status, "failed")
          /\ UNCHANGED faults
       \/ /\ Fault("crash") \/ Fault("error")
          /\ UNCHANGED status
    /\ UNCHANGED <<starting, queueVars, workVars, results, lock, listenerVars,
                   announced, flow, aggPc, parentVars, parentResult, started>>

-----------------------------------------------------------------------------
Parent(p) ==
    \/ TakeParent(p) \/ RouteParent(p) \/ CreateExecution(p) \/ AddFlow(p)
    \/ StoreAnswer(p)

Flow(n) == ReleaseNode(n) \/ FailNode(n)

Aggregator ==
    \/ ReleaseAggregator \/ FailAggregator \/ TakeAggregator \/ CompleteChild
    \/ StoreOutput \/ NotifyParent \/ AggregatorFailed

SubNext ==
    \/ Next /\ UNCHANGED subVars
    \/ \E p \in ParentIds : Parent(p) \/ ParentFault(p)
    \/ \E result \in parentEvents : CacheAnswer(result)
    \/ \E n \in Nodes : Flow(n)
    \/ Aggregator \/ AggregatorThrows \/ AggregatorCrash

SubSpec == SubInit /\ [][SubNext]_treeVars

\* As in WorkflowRun: workers take and run jobs, BullMQ releases and delivers.
SubFairness ==
    /\ Fairness
    /\ \A p \in ParentIds : WF_treeVars(Parent(p))
    /\ WF_treeVars(\E result \in parentEvents : CacheAnswer(result))
    /\ \A n \in Nodes : WF_treeVars(Flow(n))
    /\ WF_treeVars(Aggregator)

FairSubSpec == SubSpec /\ SubFairness

-----------------------------------------------------------------------------
(***************************************************************************)
(* Properties                                                              *)
(***************************************************************************)
\* The children whose every node some final node waits for: a set with the final
\* nodes, and with the parents of each of its nodes, has all nodes.
FlowIsWhole ==
    \A S \in SUBSET Nodes :
        FinalNodes \subseteq S /\ (\A n \in S : Inputs[n] \subseteq S) => S = Nodes

\* "BullMQ FlowProducer ensures all children complete before parent continues":
\* when the aggregator completes the child execution, and when the parent has
\* its output, every node of the child has a result.
AggregatesAll ==
    \/ aggPc \in {"complete", "store output", "notify"}
    \/ parentResult = "output"
    => \A n \in Nodes : results[n] # "none"

\* "The parent node's idempotency check will return this stored result": the job
\* the aggregator adds starts no other sub-workflow, unless something failed.
StartsOnce == started <= 1 + faults

\* A child execution whose flow was added ends, whichever of its workers loses
\* the completion check.
ChildEnds == (agg # "none") ~> (status \in Terminal)

=============================================================================
