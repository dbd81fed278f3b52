-------------------------- MODULE GraphValidation --------------------------
(***************************************************************************)
(* engine/graph-validation.ts: what validateWorkflow finds in a workflow   *)
(* definition, and what registerWorkflow and enqueueWorkflow make of it.   *)
(* A workflow is a sequence of nodes, each with an id, inputs and outputs, *)
(* an entryNodeId or NoId, and whether it has triggers.  The behaviours    *)
(* validate one workflow, a call of hasCycleFromNode or a turn of a loop   *)
(* at a time; the properties compare the outcome with what the edges say.  *)
(***************************************************************************)
EXTENDS Integers, FiniteSets, Sequences, Functions, Paths

CONSTANTS
    Workflows,  \* the definitions to validate
    NodeIds,    \* ids of nodes, and what references may say
    NoId        \* entryNodeId is not given

NodeDefinition == [id : NodeIds, inputs : SUBSET NodeIds, outputs : Seq(NodeIds)]

ASSUME ValidationAssumption ==
    \A w \in Workflows :
        w \in [nodes : Seq(NodeDefinition), entryNodeId : NodeIds \cup {NoId},
               triggers : BOOLEAN]

VARIABLES
    workflow,
    phase,     \* "cycle" in detectCycle, "reach" in findUnreachableNodes, "done"
    start,     \* nodes from which detectCycle has started a search
    visited,   \* the visited set of this search
    stack,     \* the calls of hasCycleFromNode under way: the node of each and the
               \* number of its outputs looked at
    cycle,     \* nodes reported as a cycle, none if there are none
    queue,     \* of the breadth-first search
    reachable

searchVars == <<start, visited, stack, cycle>>
reachVars == <<queue, reachable>>
validationVars == <<workflow, phase, searchVars, reachVars>>

Ids(w) == {w.nodes[i].id : i \in DOMAIN w.nodes}

\* new Map(nodes) keeps the last node of an id, find returns the first.
LastNode(w, id) == w.nodes[CHOOSE i \in DOMAIN w.nodes :
    /\ w.nodes[i].id = id
    /\ \A j \in DOMAIN w.nodes : w.nodes[j].id = id => j <= i]

FirstNode(w, id) == w.nodes[CHOOSE i \in DOMAIN w.nodes :
    /\ w.nodes[i].id = id
    /\ \A j \in DOMAIN w.nodes : w.nodes[j].id = id => i <= j]

ValidationInit ==
    /\ workflow \in Workflows
    /\ phase = "cycle"
    /\ start = 0 /\ visited = {} /\ stack = <<>> /\ cycle = <<>>
    /\ queue = <<>> /\ reachable = {}

-----------------------------------------------------------------------------
(***************************************************************************)
(* detectCycle and hasCycleFromNode                                        *)
(***************************************************************************)
OnStack == {stack[i].id : i \in DOMAIN stack}
Top == stack[Len(stack)]
Outputs(id) == LastNode(workflow, id).outputs

\* The call on top has an output left to look at.
Calling ==
    /\ phase = "cycle"
    /\ stack # <<>>
    /\ Top.at < Len(Outputs(Top.id))

Child == Outputs(Top.id)[Top.at + 1]
PastChild == [stack EXCEPT ![Len(stack)].at = @ + 1]

\* Wrong: asks for visited nodes first, and a node on the stack is one.
VisitedFirst(id) == id \in OnStack \ visited

InRecursionStack(id) == id \in OnStack

\* The whole stack, behind its first node once more.
FindCyclePath == <<stack[1].id>> \o [i \in DOMAIN stack |-> stack[i].id]

\* Each search has a visited set of its own.
StartSearch ==
    /\ phase = "cycle" /\ stack = <<>> /\ start < Len(workflow.nodes)
    /\ start' = start + 1
    /\ LET id == workflow.nodes[start + 1].id
       IN /\ visited' = {id}
          /\ stack' = <<[id |-> id, at |-> 0]>>
    /\ UNCHANGED <<workflow, phase, cycle, reachVars>>

\* The breadth-first search begins with the entry node, if one is given.
BeginReach ==
    /\ phase' = "reach"
    /\ queue' = IF workflow.entryNodeId = NoId THEN <<>> ELSE <<workflow.entryNodeId>>
    /\ UNCHANGED <<workflow, start, visited, stack, reachable>>

\* Every call under way returns true.
FindCycle ==
    /\ Calling /\ InRecursionStack(Child)
    /\ cycle' = FindCyclePath
    /\ BeginReach

SkipChild ==
    /\ Calling /\ ~InRecursionStack(Child)
    /\ Child \in visited \/ Child \notin Ids(workflow)
    /\ visited' = visited \cup {Child}
    /\ stack' = PastChild
    /\ UNCHANGED <<workflow, phase, start, cycle, reachVars>>

EnterChild ==
    /\ Calling /\ ~InRecursionStack(Child)
    /\ Child \notin visited /\ Child \in Ids(workflow)
    /\ visited' = visited \cup {Child}
    /\ stack' = Append(PastChild, [id |-> Child, at |-> 0])
    /\ UNCHANGED <<workflow, phase, start, cycle, reachVars>>

ReturnFalse ==
    /\ phase = "cycle" /\ stack # <<>> /\ ~Calling
    /\ stack' = SubSeq(stack, 1, Len(stack) - 1)
    /\ UNCHANGED <<workflow, phase, start, visited, cycle, reachVars>>

NoCycle ==
    /\ phase = "cycle" /\ stack = <<>> /\ start = Len(workflow.nodes)
    /\ BeginReach
    /\ UNCHANGED cycle

-----------------------------------------------------------------------------
(***************************************************************************)
(* findUnreachableNodes                                                    *)
(***************************************************************************)
\* Wrong: the children of the first node are marked, those of others are not visited.
VisitEntry ==
    /\ phase = "reach" /\ queue # <<>>
    /\ LET id == Head(queue)
       IN reachable' = reachable \cup {id} \cup
              IF id \in Ids(workflow) THEN Range(FirstNode(workflow, id).outputs) ELSE {}
    /\ queue' = Tail(queue)
    /\ UNCHANGED <<workflow, phase, searchVars>>

Visit ==
    /\ phase = "reach" /\ queue # <<>>
    /\ LET id == Head(queue)
       IN /\ reachable' = reachable \cup {id}
          /\ queue' = IF id \in reachable \/ id \notin Ids(workflow) THEN Tail(queue)
                      ELSE Tail(queue) \o FirstNode(workflow, id).outputs
    /\ UNCHANGED <<workflow, phase, searchVars>>

Finish ==
    /\ phase = "reach" /\ queue = <<>>
    /\ phase' = "done"
    /\ UNCHANGED <<workflow, searchVars, reachVars>>

Unreachable == IF workflow.entryNodeId = NoId THEN {} ELSE Ids(workflow) \ reachable

-----------------------------------------------------------------------------
(***************************************************************************)
(* The other checks                                                        *)
(***************************************************************************)
\* Wrong: looks at inputs only.
MissingInputs(w) == (UNION {w.nodes[i].inputs : i \in DOMAIN w.nodes}) \ Ids(w)

FindMissingReferences(w) ==
    (UNION {w.nodes[i].inputs \cup Range(w.nodes[i].outputs) : i \in DOMAIN w.nodes})
        \ Ids(w)

FindDuplicateNodeIds(w) ==
    {w.nodes[i].id : i \in {j \in DOMAIN w.nodes :
        \E k \in 1..(j - 1) : w.nodes[k].id = w.nodes[j].id}}

EntryNodeInvalid(w) ==
    \/ w.entryNodeId = NoId /\ ~w.triggers
    \/ w.entryNodeId # NoId /\ w.entryNodeId \notin Ids(w)

\* registerWorkflow throws on errors and logs warnings, of unreachable nodes.
Accepted ==
    /\ phase = "done"
    /\ ~EntryNodeInvalid(workflow)
    /\ cycle = <<>>
    /\ FindDuplicateNodeIds(workflow) = {}
    /\ FindMissingReferences(workflow) = {}

\* The entry nodes enqueueWorkflow finds; it throws if there are none.
EntryNodes(w) ==
    IF w.entryNodeId # NoId THEN {w.entryNodeId} \cap Ids(w)
    ELSE {w.nodes[i].id : i \in {j \in DOMAIN w.nodes : w.nodes[j].inputs = {}}}

Validate ==
    \/ StartSearch \/ FindCycle \/ SkipChild \/ EnterChild \/ ReturnFalse \/ NoCycle
    \/ Visit \/ Finish

ValidationSpec == ValidationInit /\ [][Validate]_validationVars

-----------------------------------------------------------------------------
(***************************************************************************)
(* What the edges say                                                      *)
(***************************************************************************)
\* There is an edge from d to e, by some node of id d.
Edges(w) == [d \in Ids(w) |-> {e \in Ids(w) :
    \E i \in DOMAIN w.nodes : w.nodes[i].id = d /\ e \in Range(w.nodes[i].outputs)}]

UniqueIds(w) == \A i, j \in DOMAIN w.nodes : w.nodes[i].id = w.nodes[j].id => i = j

\* Inputs and outputs tell of the same edges.
EdgesAgree(w) == \A i, j \in DOMAIN w.nodes :
    w.nodes[j].id \in Range(w.nodes[i].outputs) <=> w.nodes[i].id \in w.nodes[j].inputs

\* The joins come to every node: what has each node all of whose inputs it has, has
\* all nodes.  (WorkflowIsValid of WorkflowRun asks for it.)
JoinsReachAll(w) == \A S \in SUBSET Ids(w) :
    (\A i \in DOMAIN w.nodes : w.nodes[i].inputs \subseteq S => w.nodes[i].id \in S)
        => S = Ids(w)

(***************************************************************************)
(* Properties                                                              *)
(***************************************************************************)
\* "Detects cycles in a workflow graph": wherever the cycle is, reachable from the
\* entry node or not, and none where several paths meet.  The nodes reported with
\* it, without the first, are a path, and the last of them leads back into it.
\* (The path may have a head that is not on the cycle.)
CyclesAreFound ==
    phase # "cycle" /\ UniqueIds(workflow) =>
        /\ cycle = <<>> <=> Acyclic(Edges(workflow))
        /\ cycle # <<>> =>
              LET path == Tail(cycle)
              IN /\ \A i \in 1..(Len(path) - 1) : path[i + 1] \in Edges(workflow)[path[i]]
                 /\ \E i \in DOMAIN path : path[i] \in Edges(workflow)[path[Len(path)]]

\* "Finds nodes that are not reachable from the entry node": those to which no path
\* of any length leads, also in a graph with cycles.
UnreachableAreFound ==
    LET entry == workflow.entryNodeId
    IN phase = "done" /\ UniqueIds(workflow) /\ entry \in Ids(workflow) \ {NoId} =>
        Unreachable =
            {id \in Ids(workflow) : id # entry /\ ~Leads(Edges(workflow), entry, id)}

\* A workflow that registerWorkflow accepts can be walked: each id is one node, each
\* reference is to a node, and no path returns.  Validation and start fit
\* together: if there are nodes, no warning, and inputs and outputs that agree,
\* enqueueWorkflow finds entry nodes, all nodes without inputs among them; from
\* them every node is reached, and no join is out of reach, so that the pending
\* nodes can come down to none.
AcceptedCanBeWalked ==
    Accepted =>
        /\ UniqueIds(workflow)
        /\ \A i \in DOMAIN workflow.nodes :
              /\ workflow.nodes[i].inputs \subseteq Ids(workflow)
              /\ Range(workflow.nodes[i].outputs) \subseteq Ids(workflow)
        /\ Acyclic(Edges(workflow))
        /\ Unreachable = {} /\ EdgesAgree(workflow) =>
              /\ workflow.nodes # <<>> => EntryNodes(workflow) # {}
              /\ \A i \in DOMAIN workflow.nodes : workflow.nodes[i].inputs = {} =>
                    workflow.nodes[i].id \in EntryNodes(workflow)
              /\ JoinsReachAll(workflow)
              /\ \A id \in Ids(workflow) :
                    \/ id \in EntryNodes(workflow)
                    \/ \E entry \in EntryNodes(workflow) :
                          Leads(Edges(workflow), entry, id)

=============================================================================
