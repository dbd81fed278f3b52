-------------------------- MODULE ValidationProofs --------------------------
(***************************************************************************)
(* Proofs about GraphValidation and NodeUtils: the searches, in workflows  *)
(* and in data of any size.  Both depth-first searches are argued about in *)
(* the same way: what is left behind is closed, and nothing in it leads    *)
(* back to itself, because a vertex is left only behind all of its next.   *)
(***************************************************************************)
EXTENDS GraphValidation, NodeUtils, FiniteSetTheorems, SequenceTheorems,
    WellFoundedInduction, TLAPS

-----------------------------------------------------------------------------
(***************************************************************************)
(* Paths                                                                   *)
(***************************************************************************)
LEMMA LeadsNext ==
    ASSUME NEW next, NEW v, NEW w \in next[v]
    PROVE  Leads(next, v, w)
BY DEF Leads

LEMMA LeadsOn ==
    ASSUME NEW next, NEW u, NEW v, NEW w, Leads(next, u, v), Leads(next, v, w)
    PROVE  Leads(next, u, w)
BY DEF Leads, Closed

LEMMA LeadsWithin ==
    ASSUME NEW next, NEW S, S \subseteq DOMAIN next, Closed(next, S),
           NEW v, next[v] \subseteq S, NEW w, Leads(next, v, w)
    PROVE  w \in S
BY DEF Leads

\* What a path leads to has an edge into it.
LEMMA LastEdge ==
    ASSUME NEW V, NEW next \in [V -> SUBSET V], NEW v \in V, NEW w, Leads(next, v, w)
    PROVE  \E u \in V : w \in next[u]
<1> DEFINE S == {e \in V : \E u \in V : e \in next[u]}
<1>1. next[v] \subseteq S /\ Closed(next, S) /\ S \subseteq DOMAIN next
    BY DEF Closed
<1> QED
    BY <1>1, LeadsWithin

Before(next, v) == {u \in DOMAIN next : Leads(next, u, v)}

\* In a finite graph without cycles, a set that has every vertex it has all those
\* before has all vertices: the sets Before shrink along edges taken backwards.
LEMMA AcyclicIsWellFounded ==
    ASSUME NEW V, IsFiniteSet(V), NEW next \in [V -> SUBSET V], Acyclic(next),
           NEW S \in SUBSET V,
           \A v \in V : (\A u \in V : v \in next[u] => u \in S) => v \in S
    PROVE  S = V
<1> SUFFICES ASSUME S # V PROVE FALSE
    OBVIOUS
<1> DEFINE T == {Before(next, v) : v \in V \ S}
<1>1. \A v \in V : Before(next, v) \in SUBSET V /\ IsFiniteSet(Before(next, v))
    BY FS_Subset DEF Before
<1>2. T \subseteq FiniteSubsetsOf(V) /\ T # {}
    BY <1>1 DEF FiniteSubsetsOf
<1>3. PICK least \in T : \A U \in T : <<U, least>> \notin StrictSubsetOrdering(V)
    BY <1>2, FS_StrictSubsetOrderingWellFounded, WFMin
<1>4. PICK v \in V \ S : least = Before(next, v)
    BY <1>3
<1>5. PICK u \in V : v \in next[u] /\ u \notin S
    BY <1>4
<1>6. Leads(next, u, v) /\ ~Leads(next, u, u)
    BY <1>5, LeadsNext DEF Acyclic
<1>7. Before(next, u) \subseteq Before(next, v) /\ Before(next, u) # Before(next, v)
    BY <1>6, LeadsOn DEF Before
<1>8. <<Before(next, u), Before(next, v)>> \in StrictSubsetOrdering(V)
    BY <1>1, <1>4, <1>7 DEF StrictSubsetOrdering
<1> QED
    BY <1>3, <1>4, <1>5, <1>8

-----------------------------------------------------------------------------
(***************************************************************************)
(* Workflows                                                               *)
(***************************************************************************)
LEMMA Appended ==
    ASSUME NEW S, NEW s \in Seq(S), NEW e \in S
    PROVE  /\ Append(s, e) \in Seq(S)
           /\ Len(Append(s, e)) = Len(s) + 1
           /\ DOMAIN Append(s, e) = 1 .. (Len(s) + 1)
           /\ Append(s, e)[Len(s) + 1] = e
           /\ \A i \in 1 .. Len(s) : Append(s, e)[i] = s[i]
OBVIOUS

WorkflowType ==
    [nodes : Seq(NodeDefinition), entryNodeId : NodeIds \cup {NoId}, triggers : BOOLEAN]

LEMMA NodesAreTyped ==
    ASSUME NEW w \in WorkflowType
    PROVE  /\ Len(w.nodes) \in Nat /\ DOMAIN w.nodes = 1 .. Len(w.nodes)
           /\ \A i \in DOMAIN w.nodes :
                 /\ w.nodes[i].id \in NodeIds
                 /\ w.nodes[i].inputs \subseteq NodeIds
                 /\ w.nodes[i].outputs \in Seq(NodeIds)
<1>1. w.nodes \in Seq(NodeDefinition)
    BY DEF WorkflowType
<1>2. \A i \in DOMAIN w.nodes : w.nodes[i] \in NodeDefinition
    BY <1>1
<1> QED
    BY <1>1, <1>2 DEF NodeDefinition

LEMMA IdsAreFinite ==
    ASSUME NEW w \in WorkflowType
    PROVE  IsFiniteSet(Ids(w)) /\ Edges(w) \in [Ids(w) -> SUBSET Ids(w)]
<1>1. DOMAIN w.nodes = 1 .. Len(w.nodes) /\ Len(w.nodes) \in Nat
    BY NodesAreTyped
<1>2. IsFiniteSet(DOMAIN w.nodes)
    BY <1>1, FS_Interval
<1> DEFINE id == [i \in DOMAIN w.nodes |-> w.nodes[i].id]
<1>3. id \in Surjection(DOMAIN w.nodes, Ids(w))
    BY DEF Ids, Surjection
<1>4. IsFiniteSet(Ids(w))
    BY <1>2, <1>3, FS_Surjection
<1>5. Edges(w) \in [Ids(w) -> SUBSET Ids(w)]
    BY DEF Edges
<1> QED
    BY <1>4, <1>5

\* Where ids are unique, the last and the first node of an id are the node.
LEMMA TheNode ==
    ASSUME NEW w \in WorkflowType, UniqueIds(w), NEW i \in DOMAIN w.nodes
    PROVE  /\ LastNode(w, w.nodes[i].id) = w.nodes[i]
           /\ FirstNode(w, w.nodes[i].id) = w.nodes[i]
<1>1. \A j \in DOMAIN w.nodes : w.nodes[j].id = w.nodes[i].id <=> j = i
    BY DEF UniqueIds
<1>2. i \in Nat /\ i <= i
    BY NodesAreTyped
<1> DEFINE Last(k) == /\ w.nodes[k].id = w.nodes[i].id
                      /\ \A j \in DOMAIN w.nodes : w.nodes[j].id = w.nodes[i].id => j <= k
           First(k) == /\ w.nodes[k].id = w.nodes[i].id
                       /\ \A j \in DOMAIN w.nodes : w.nodes[j].id = w.nodes[i].id => k <= j
<1>3. \A k \in DOMAIN w.nodes : (Last(k) <=> k = i) /\ (First(k) <=> k = i)
    BY <1>1, <1>2
<1>4. (CHOOSE k \in DOMAIN w.nodes : Last(k)) = i
    BY <1>3
<1>5. (CHOOSE k \in DOMAIN w.nodes : First(k)) = i
    BY <1>3
<1> QED
    BY <1>4, <1>5 DEF LastNode, FirstNode

\* The edges a search sees are all there are.
LEMMA EdgesOfNode ==
    ASSUME NEW w \in WorkflowType, UniqueIds(w), NEW id \in Ids(w)
    PROVE  /\ LastNode(w, id).outputs \in Seq(NodeIds)
           /\ FirstNode(w, id).outputs = LastNode(w, id).outputs
           /\ Edges(w)[id] = Range(LastNode(w, id).outputs) \cap Ids(w)
<1>1. PICK i \in DOMAIN w.nodes : id = w.nodes[i].id
    BY DEF Ids
<1>2. LastNode(w, id) = w.nodes[i] /\ FirstNode(w, id) = w.nodes[i]
    BY <1>1, TheNode
<1>3. \A j \in DOMAIN w.nodes : w.nodes[j].id = id <=> j = i
    BY <1>1 DEF UniqueIds
<1>4. Edges(w)[id] = Range(w.nodes[i].outputs) \cap Ids(w)
    BY <1>3 DEF Edges
<1> QED
    BY <1>2, <1>4, NodesAreTyped

-----------------------------------------------------------------------------
(***************************************************************************)
(* hasCycleFromNode.  What is visited and no longer on the stack is left.  *)
(***************************************************************************)
E == Edges(workflow)
Left == (visited \cap Ids(workflow)) \ OnStack
ReturnsTo(v) == Leads(E, v, v)

Frame == [id : Ids(workflow), at : Nat]

StackInv ==
    /\ stack \in Seq(Frame)
    /\ \A i \in DOMAIN stack :
          stack[i].id \in visited /\ stack[i].at <= Len(Outputs(stack[i].id))
    /\ \A i, j \in DOMAIN stack : stack[i].id = stack[j].id => i = j

\* No edge leaves what is left, and nothing there is on a cycle.
LeftInv == \A v \in Left : E[v] \subseteq Left /\ ~ReturnsTo(v)

\* The outputs a call has looked at are left, but for the one it is in.
LookedAtInv ==
    \A i \in DOMAIN stack : \A k \in 1 .. stack[i].at :
       LET child == Outputs(stack[i].id)[k]
       IN \/ child \notin Ids(workflow)
          \/ child \in Left
          \/ i + 1 \in DOMAIN stack /\ child = stack[i + 1].id

\* The stack is a path.
PathInv ==
    /\ \A i \in DOMAIN stack : i + 1 \in DOMAIN stack => stack[i + 1].id \in E[stack[i].id]
    /\ \A i, j \in DOMAIN stack : i < j => Leads(E, stack[i].id, stack[j].id)

\* The searches that have ended had no cycle to find.
StartInv ==
    /\ start \in 0 .. Len(workflow.nodes)
    /\ stack # <<>> => start > 0 /\ stack[1].id = workflow.nodes[start].id
    /\ \A k \in 1 .. start :
          stack = <<>> \/ k < start => ~ReturnsTo(workflow.nodes[k].id)

SearchInv ==
    /\ StackInv /\ LeftInv /\ LookedAtInv /\ PathInv /\ StartInv
    /\ cycle = <<>>

LEMMA TopIsThere ==
    ASSUME StackInv, stack # <<>>
    PROVE  /\ Len(stack) \in DOMAIN stack /\ Len(stack) \in Nat
           /\ DOMAIN stack = 1 .. Len(stack)
           /\ Top.id \in Ids(workflow) /\ Top.at \in Nat
<1>1. stack \in Seq(Frame)
    BY DEF StackInv
<1>2. Len(stack) \in Nat /\ DOMAIN stack = 1 .. Len(stack) /\ Len(stack) # 0
    BY <1>1
<1>3. stack[Len(stack)] \in Frame
    BY <1>1, <1>2
<1> QED
    BY <1>2, <1>3 DEF Top, Frame

\* The output a call looks at next is one of the node's.
LEMMA ChildOfTop ==
    ASSUME workflow \in WorkflowType, UniqueIds(workflow), StackInv, Calling
    PROVE  Child \in NodeIds /\ (Child \in Ids(workflow) => Child \in E[Top.id])
<1>1. Top.id \in Ids(workflow) /\ Top.at \in Nat
    BY TopIsThere DEF Calling
<1>2. /\ Outputs(Top.id) \in Seq(NodeIds)
      /\ E[Top.id] = Range(Outputs(Top.id)) \cap Ids(workflow)
    BY <1>1, EdgesOfNode DEF Outputs, E
<1>3. Top.at + 1 \in DOMAIN Outputs(Top.id)
    BY <1>1, <1>2 DEF Calling
<1> QED
    BY <1>2, <1>3 DEF Child, Range

LEMMA PastChildMoves ==
    ASSUME StackInv, stack # <<>>
    PROVE  /\ PastChild \in Seq(Frame)
           /\ DOMAIN PastChild = DOMAIN stack /\ Len(PastChild) = Len(stack)
           /\ \A i \in DOMAIN stack :
                 /\ PastChild[i].id = stack[i].id
                 /\ PastChild[i].at = IF i = Len(stack) THEN stack[i].at + 1 ELSE stack[i].at
<1> DEFINE top == [stack[Len(stack)] EXCEPT !.at = @ + 1]
<1>1. stack \in Seq(Frame)
    BY DEF StackInv
<1>2. Len(stack) \in DOMAIN stack /\ DOMAIN stack = 1 .. Len(stack) /\ Len(stack) \in Nat
    BY TopIsThere
<1>3. stack[Len(stack)] \in Frame
    BY <1>1, <1>2
<1>4. top \in Frame /\ top.id = stack[Len(stack)].id /\ top.at = stack[Len(stack)].at + 1
    BY <1>3 DEF Frame
<1>5. PastChild = [stack EXCEPT ![Len(stack)] = top]
    BY DEF PastChild
<1> HIDE DEF top
<1>6. PastChild \in Seq(Frame) /\ Len(PastChild) = Len(stack) /\ DOMAIN PastChild = DOMAIN stack
    BY <1>1, <1>2, <1>4, <1>5
<1>7. \A i \in DOMAIN stack : PastChild[i] = IF i = Len(stack) THEN top ELSE stack[i]
    BY <1>1, <1>2, <1>5
<1> QED
    BY <1>4, <1>6, <1>7

LEMMA StartSearchStep ==
    ASSUME workflow \in WorkflowType, UniqueIds(workflow), SearchInv, StartSearch
    PROVE  SearchInv'
<1> DEFINE id == workflow.nodes[start + 1].id
<1>1. start + 1 \in DOMAIN workflow.nodes /\ start \in Nat
    BY NodesAreTyped DEF StartSearch, SearchInv, StartInv
<1>2. id \in Ids(workflow)
    BY <1>1 DEF Ids
<1>3. workflow' = workflow /\ stack' = <<[id |-> id, at |-> 0]>> /\ visited' = {id}
    BY DEF StartSearch
<1>4. DOMAIN stack' = {1} /\ stack'[1].id = id /\ stack'[1].at = 0
    BY <1>3
<1>5. LastNode(workflow, id).outputs \in Seq(NodeIds)
    BY <1>2, EdgesOfNode
<1>6. StackInv'
    BY <1>2, <1>3, <1>4, <1>5 DEF StackInv, Outputs, Frame
<1>7. Left' = {}
    BY <1>3, <1>4 DEF Left, OnStack
<1>8. LeftInv' /\ LookedAtInv' /\ PathInv'
    BY <1>4, <1>7 DEF LeftInv, LookedAtInv, PathInv
<1>9. StartInv'
    BY <1>1, <1>3, <1>4, NodesAreTyped DEF StartSearch, SearchInv, StartInv, ReturnsTo, E
<1> QED
    BY <1>6, <1>8, <1>9 DEF SearchInv, StartSearch

LEMMA SkipChildStep ==
    ASSUME workflow \in WorkflowType, UniqueIds(workflow), SearchInv, SkipChild
    PROVE  SearchInv'
<1> USE DEF SearchInv
<1>1. Calling /\ Child \notin OnStack /\ stack # <<>>
    BY DEF SkipChild, InRecursionStack, Calling
<1>2. workflow' = workflow /\ stack' = PastChild /\ E' = E
    BY DEF SkipChild, E
<1>3. /\ stack' \in Seq(Frame)
      /\ DOMAIN stack' = DOMAIN stack /\ Len(stack') = Len(stack)
      /\ \A i \in DOMAIN stack :
            /\ stack'[i].id = stack[i].id
            /\ stack'[i].at = IF i = Len(stack) THEN stack[i].at + 1 ELSE stack[i].at
    BY <1>1, <1>2, PastChildMoves
<1>4. OnStack' = OnStack
    BY <1>3 DEF OnStack
<1>5. Child \in Ids(workflow) => Child \in Left
    BY <1>1 DEF SkipChild, Left
<1>6. Left' = Left
    BY <1>2, <1>4, <1>5 DEF SkipChild, Left
<1>7. Len(stack) \in DOMAIN stack /\ DOMAIN stack = 1 .. Len(stack) /\ Len(stack) \in Nat
    BY <1>1, TopIsThere
<1>8. \A i \in DOMAIN stack : stack[i].at \in Nat /\ stack[i].id \in Ids(workflow)
    <2>1. \A i \in DOMAIN stack : stack[i] \in Frame
        BY <1>7 DEF StackInv
    <2> QED BY <2>1 DEF Frame
<1>9. \A i \in DOMAIN stack : Len(Outputs(stack[i].id)) \in Nat
    BY <1>8, EdgesOfNode DEF Outputs
<1>10. \A i \in DOMAIN stack : stack'[i].at <= Len(Outputs(stack[i].id))
    BY <1>1, <1>3, <1>7, <1>8, <1>9 DEF StackInv, Calling, Top
<1>11. StackInv'
    BY <1>2, <1>3, <1>10 DEF StackInv, Outputs, Frame, SkipChild
<1>12. LeftInv'
    BY <1>2, <1>6 DEF LeftInv, ReturnsTo
<1>13. LookedAtInv'
    <2> SUFFICES ASSUME NEW i \in DOMAIN stack, NEW k \in 1 .. stack'[i].at
                 PROVE  LET child == Outputs(stack[i].id)[k]
                        IN \/ child \notin Ids(workflow)
                           \/ child \in Left
                           \/ i + 1 \in DOMAIN stack /\ child = stack[i + 1].id
        BY <1>2, <1>3, <1>6, <1>7 DEF LookedAtInv, Outputs
    <2>1. CASE k \in 1 .. stack[i].at
        BY <2>1 DEF LookedAtInv
    <2>2. CASE k \notin 1 .. stack[i].at
        <3>1. i = Len(stack) /\ k = stack[i].at + 1
            BY <1>3, <1>8, <2>2
        <3>2. Outputs(stack[i].id)[k] = Child
            BY <3>1 DEF Child, Top
        <3> QED BY <1>5, <3>2
    <2> QED BY <2>1, <2>2
<1>14. PathInv'
    BY <1>2, <1>3, <1>7 DEF PathInv
<1>15. StartInv'
    BY <1>1, <1>2, <1>3, <1>7 DEF StartInv, SkipChild, ReturnsTo
<1> QED
    BY <1>11, <1>12, <1>13, <1>14, <1>15 DEF SkipChild

LEMMA EnterChildStep ==
    ASSUME workflow \in WorkflowType, UniqueIds(workflow), SearchInv, EnterChild
    PROVE  SearchInv'
<1> USE DEF SearchInv
<1>1. /\ Calling /\ Child \notin OnStack /\ stack # <<>>
      /\ Child \notin visited /\ Child \in Ids(workflow)
    BY DEF EnterChild, InRecursionStack, Calling
<1>2. /\ workflow' = workflow /\ E' = E
      /\ stack' = Append(PastChild, [id |-> Child, at |-> 0])
      /\ visited' = visited \cup {Child}
    BY DEF EnterChild, E
<1>3. PICK n \in Nat : n = Len(stack) /\ n \in DOMAIN stack /\ DOMAIN stack = 1 .. n
    BY <1>1, TopIsThere
<1>4. [id |-> Child, at |-> 0] \in Frame
    BY <1>1 DEF Frame
<1>5. /\ stack' \in Seq(Frame) /\ Len(stack') = n + 1 /\ DOMAIN stack' = 1 .. (n + 1)
      /\ stack'[n + 1].id = Child /\ stack'[n + 1].at = 0
      /\ \A i \in 1 .. n :
            /\ stack'[i].id = stack[i].id
            /\ stack'[i].at = IF i = n THEN stack[i].at + 1 ELSE stack[i].at
    <2>1. /\ PastChild \in Seq(Frame)
          /\ DOMAIN PastChild = 1 .. n /\ Len(PastChild) = n
          /\ \A i \in 1 .. n :
                /\ PastChild[i].id = stack[i].id
                /\ PastChild[i].at = IF i = n THEN stack[i].at + 1 ELSE stack[i].at
        BY <1>1, <1>3, PastChildMoves
    <2>2. /\ stack' \in Seq(Frame) /\ Len(stack') = n + 1 /\ DOMAIN stack' = 1 .. (n + 1)
          /\ stack'[n + 1] = [id |-> Child, at |-> 0]
          /\ \A i \in 1 .. n : stack'[i] = PastChild[i]
        BY <1>2, <1>4, <2>1, Appended
    <2> QED BY <2>1, <2>2
<1>6. \A i \in 1 .. n : stack[i].at \in Nat /\ stack[i].id \in Ids(workflow)
    <2>1. \A i \in DOMAIN stack : stack[i] \in Frame
        BY <1>3 DEF StackInv
    <2> QED BY <1>3, <2>1 DEF Frame
<1>8. \A id \in Ids(workflow) : Len(Outputs(id)) \in Nat
    BY EdgesOfNode DEF Outputs
<1>9. \A i \in 1 .. n : stack[i].id # Child
    BY <1>1, <1>3 DEF OnStack
<1>10. StackInv'
    <2>1. \A i \in 1 .. (n + 1) :
             stack'[i].id \in visited' /\ stack'[i].at <= Len(Outputs(stack'[i].id))
        BY <1>1, <1>2, <1>3, <1>5, <1>6, <1>8 DEF StackInv, Calling, Top
    <2>2. \A i, j \in 1 .. (n + 1) : stack'[i].id = stack'[j].id => i = j
        BY <1>3, <1>5, <1>9 DEF StackInv
    <2> QED BY <1>2, <1>5, <2>1, <2>2 DEF StackInv, Frame, Outputs
<1>11. OnStack' = OnStack \cup {Child}
    BY <1>3, <1>5 DEF OnStack
<1>12. Left' = Left
    BY <1>1, <1>2, <1>11 DEF Left
<1>13. LeftInv'
    BY <1>2, <1>12 DEF LeftInv, ReturnsTo
<1>14. LookedAtInv'
    <2> SUFFICES ASSUME NEW i \in 1 .. (n + 1), NEW k \in 1 .. stack'[i].at
                 PROVE  LET child == Outputs(stack'[i].id)[k]
                        IN \/ child \notin Ids(workflow)
                           \/ child \in Left
                           \/ i + 1 \in 1 .. (n + 1) /\ child = stack'[i + 1].id
        BY <1>2, <1>5, <1>12 DEF LookedAtInv, Outputs
    <2>1. i \in 1 .. n
        BY <1>3, <1>5
    <2>2. CASE k \in 1 .. stack[i].at
        BY <1>3, <1>5, <2>1, <2>2 DEF LookedAtInv
    <2>3. CASE k \notin 1 .. stack[i].at
        <3>1. i = n /\ k = stack[n].at + 1
            BY <1>3, <1>5, <1>6, <2>1, <2>3
        <3>2. Outputs(stack[n].id)[k] = Child
            BY <1>3, <3>1 DEF Child, Top
        <3> QED BY <1>3, <1>5, <3>1, <3>2
    <2> QED BY <2>2, <2>3
<1>15. PathInv'
    <2>1. Child \in E[stack[n].id]
        BY <1>1, <1>3, ChildOfTop DEF Top
    <2>2. \A i \in 1 .. n : Leads(E, stack[i].id, Child)
        BY <1>3, <2>1, LeadsNext, LeadsOn DEF PathInv
    <2>3. ASSUME NEW i \in 1 .. (n + 1), i + 1 \in 1 .. (n + 1)
          PROVE  stack'[i + 1].id \in E[stack'[i].id]
        <3>1. CASE i = n
            BY <1>5, <2>1, <3>1
        <3>2. CASE i # n
            BY <1>3, <1>5, <2>3, <3>2 DEF PathInv
        <3> QED BY <3>1, <3>2
    <2>4. ASSUME NEW i \in 1 .. (n + 1), NEW j \in 1 .. (n + 1), i < j
          PROVE  Leads(E, stack'[i].id, stack'[j].id)
        <3>1. i \in 1 .. n /\ stack'[i].id = stack[i].id
            BY <1>3, <1>5, <2>4
        <3>2. CASE j = n + 1
            BY <1>5, <2>2, <3>1, <3>2
        <3>3. CASE j # n + 1
            <4>1. j \in 1 .. n /\ stack'[j].id = stack[j].id
                BY <1>3, <1>5, <3>3
            <4>2. \A a, b \in 1 .. n : a < b => Leads(E, stack[a].id, stack[b].id)
                BY <1>3 DEF PathInv
            <4> QED BY <2>4, <3>1, <4>1, <4>2
        <3> QED BY <3>2, <3>3
    <2> QED BY <1>2, <1>5, <2>3, <2>4 DEF PathInv
<1>16. StartInv'
    BY <1>1, <1>2, <1>3, <1>5 DEF StartInv, EnterChild, ReturnsTo
<1> QED
    BY <1>10, <1>13, <1>14, <1>15, <1>16 DEF EnterChild

\* When a call returns, all of its node's children are left: the node can be left
\* too, and it is on no cycle, for a path from it stays in what is left without it.
LEMMA ReturnFalseStep ==
    ASSUME workflow \in WorkflowType, UniqueIds(workflow), SearchInv, ReturnFalse
    PROVE  SearchInv'
<1> USE DEF SearchInv
<1>1. stack # <<>> /\ ~Calling /\ phase = "cycle"
    BY DEF ReturnFalse
<1>2. PICK n \in Nat : n = Len(stack) /\ n \in DOMAIN stack /\ DOMAIN stack = 1 .. n
    BY <1>1, TopIsThere
<1>3. workflow' = workflow /\ visited' = visited /\ E' = E /\ stack' = SubSeq(stack, 1, n - 1)
    BY <1>2 DEF ReturnFalse, E
<1>4. stack \in Seq(Frame)
    BY DEF StackInv
<1>5. /\ stack' \in Seq(Frame) /\ Len(stack') = n - 1 /\ DOMAIN stack' = 1 .. (n - 1)
      /\ \A i \in 1 .. (n - 1) : stack'[i] = stack[i]
    BY <1>2, <1>3, <1>4
<1>6. \A i \in 1 .. n : stack[i].at \in Nat /\ stack[i].id \in Ids(workflow)
    <2>1. \A i \in DOMAIN stack : stack[i] \in Frame
        BY <1>4
    <2> QED BY <1>2, <2>1 DEF Frame
<1>7. PICK top \in Ids(workflow) : top = stack[n].id /\ top \in OnStack /\ top \in visited
    BY <1>2, <1>6 DEF OnStack, StackInv
<1>8. OnStack' = OnStack \ {top}
    <2>1. \A i \in 1 .. (n - 1) : stack[i].id # top
        BY <1>2, <1>7 DEF StackInv
    <2>2. OnStack = {stack[i].id : i \in 1 .. (n - 1)} \cup {top}
        BY <1>2, <1>7 DEF OnStack
    <2>3. OnStack' = {stack[i].id : i \in 1 .. (n - 1)}
        BY <1>5 DEF OnStack
    <2> QED BY <2>1, <2>2, <2>3
<1>9. Left' = Left \cup {top} /\ top \notin Left
    BY <1>3, <1>7, <1>8 DEF Left
<1>10. E[top] \subseteq Left
    <2>1. Outputs(top) \in Seq(NodeIds) /\ E[top] = Range(Outputs(top)) \cap Ids(workflow)
        BY EdgesOfNode DEF Outputs, E
    <2>2. stack[n].at = Len(Outputs(top))
        BY <1>1, <1>2, <1>6, <1>7, <2>1 DEF Calling, Top, StackInv
    <2> SUFFICES ASSUME NEW k \in 1 .. Len(Outputs(top)), Outputs(top)[k] \in Ids(workflow)
                 PROVE  Outputs(top)[k] \in Left
        BY <2>1 DEF Range
    <2> QED BY <1>2, <1>7, <2>2 DEF LookedAtInv
<1>11. ~ReturnsTo(top)
    <2>1. Closed(E, Left) /\ Left \subseteq DOMAIN E
        BY IdsAreFinite DEF LeftInv, Closed, Left, E
    <2> QED BY <1>9, <1>10, <2>1, LeadsWithin DEF ReturnsTo
<1>12. LeftInv'
    BY <1>3, <1>9, <1>10, <1>11 DEF LeftInv, ReturnsTo
<1>13. StackInv'
    BY <1>2, <1>3, <1>5, SMTT(30) DEF StackInv, Outputs, Frame
<1>14. LookedAtInv'
    <2> SUFFICES ASSUME NEW i \in 1 .. (n - 1), NEW k \in 1 .. stack[i].at
                 PROVE  LET child == Outputs(stack[i].id)[k]
                        IN \/ child \notin Ids(workflow)
                           \/ child \in Left \cup {top}
                           \/ i + 1 \in 1 .. (n - 1) /\ child = stack[i + 1].id
        BY <1>3, <1>5, <1>9 DEF LookedAtInv, Outputs
    <2>1. CASE i + 1 = n
        BY <1>2, <1>7, <2>1 DEF LookedAtInv
    <2>2. CASE i + 1 # n
        BY <1>2, <2>2 DEF LookedAtInv
    <2> QED BY <2>1, <2>2
<1>15. PathInv'
    BY <1>2, <1>3, <1>5 DEF PathInv
<1>16. StartInv'
    <2>1. start' = start
        BY DEF ReturnFalse
    <2>2. CASE n = 1
        <3>1. top = workflow.nodes[start].id
            BY <1>1, <1>2, <1>7, <2>2 DEF StartInv
        <3> QED BY <1>1, <1>3, <1>5, <1>11, <2>1, <2>2, <3>1 DEF StartInv, ReturnsTo
    <2>3. CASE n # 1
        <3>1. stack' # <<>> /\ stack'[1] = stack[1]
            BY <1>2, <1>5, <2>3
        <3> QED BY <1>1, <1>3, <2>1, <3>1 DEF StartInv, ReturnsTo
    <2> QED BY <2>2, <2>3
<1> QED
    BY <1>12, <1>13, <1>14, <1>15, <1>16 DEF ReturnFalse

\* What the search has found when it is over.
CycleInv ==
    /\ cycle = <<>> <=> Acyclic(E)
    /\ cycle # <<>> =>
          LET path == Tail(cycle)
          IN /\ \A i \in 1..(Len(path) - 1) : path[i + 1] \in E[path[i]]
             /\ \E i \in DOMAIN path : path[i] \in E[path[Len(path)]]

LEMMA TailOfFirst ==
    ASSUME NEW S, NEW s \in Seq(S), NEW e \in S
    PROVE  <<e>> \o s # <<>> /\ Tail(<<e>> \o s) = s
OBVIOUS

LEMMA FindCycleStep ==
    ASSUME workflow \in WorkflowType, UniqueIds(workflow), SearchInv, FindCycle
    PROVE  CycleInv'
<1> USE DEF SearchInv
<1>1. Calling /\ stack # <<>> /\ Child \in OnStack
    BY DEF FindCycle, InRecursionStack, Calling
<1>2. PICK n \in Nat : n = Len(stack) /\ n \in DOMAIN stack /\ DOMAIN stack = 1 .. n
    BY <1>1, TopIsThere
<1>3. \A i \in 1 .. n : stack[i].id \in Ids(workflow)
    <2>1. \A i \in DOMAIN stack : stack[i] \in Frame
        BY <1>2 DEF StackInv
    <2> QED BY <1>2, <2>1 DEF Frame
<1>4. PICK i \in 1 .. n : stack[i].id = Child
    BY <1>1, <1>2 DEF OnStack
<1>5. Child \in E[stack[n].id]
    BY <1>1, <1>2, <1>3, <1>4, ChildOfTop DEF Top
<1>6. Leads(E, stack[n].id, Child)
    BY <1>5, LeadsNext
<1>7. Leads(E, Child, Child)
    <2>1. CASE i = n
        BY <1>4, <1>6, <2>1
    <2>2. CASE i # n
        BY <1>2, <1>4, <1>6, <2>2, LeadsOn DEF PathInv
    <2> QED BY <2>1, <2>2
<1>8. ~Acyclic(E)
    BY <1>3, <1>4, <1>7, IdsAreFinite DEF Acyclic, E
<1> DEFINE path == [k \in DOMAIN stack |-> stack[k].id]
<1>9. path \in Seq(Ids(workflow)) /\ Len(path) = n /\ DOMAIN path = 1 .. n
    BY <1>2, <1>3
<1>10. cycle' = <<stack[1].id>> \o path /\ workflow' = workflow /\ E' = E
    BY DEF FindCycle, FindCyclePath, BeginReach, E
<1>11. cycle' # <<>> /\ Tail(cycle') = path
    BY <1>2, <1>3, <1>9, <1>10, TailOfFirst
<1>12. \A k \in 1 .. (n - 1) : path[k + 1] \in E[path[k]]
    BY <1>2 DEF PathInv
<1>13. path[i] \in E[path[n]]
    BY <1>2, <1>4, <1>5
<1> HIDE DEF path
<1> QED
    BY <1>8, <1>9, <1>10, <1>11, <1>12, <1>13 DEF CycleInv

LEMMA NoCycleStep ==
    ASSUME workflow \in WorkflowType, UniqueIds(workflow), SearchInv, NoCycle
    PROVE  CycleInv'
<1>1. workflow' = workflow /\ E' = E /\ cycle' = cycle /\ cycle = <<>>
    BY DEF NoCycle, BeginReach, E, SearchInv
<1>2. \A k \in DOMAIN workflow.nodes : ~ReturnsTo(workflow.nodes[k].id)
    BY NodesAreTyped DEF NoCycle, SearchInv, StartInv
<1>3. Acyclic(E)
    BY <1>2, IdsAreFinite DEF Acyclic, Ids, ReturnsTo, E
<1> QED
    BY <1>1, <1>3 DEF CycleInv

-----------------------------------------------------------------------------
(***************************************************************************)
(* findUnreachableNodes                                                    *)
(***************************************************************************)
Entry == workflow.entryNodeId
Found == reachable \cup Range(queue)

\* What is found has a path to it, and what a visited node leads to is found.
ReachInv ==
    /\ queue \in Seq(NodeIds)
    /\ Entry \in Ids(workflow) \ {NoId} =>
          /\ Entry \in Found
          /\ \A id \in Found \cap Ids(workflow) : id = Entry \/ Leads(E, Entry, id)
          /\ \A id \in reachable \cap Ids(workflow) : E[id] \subseteq Found

LEMMA BeginReachStep ==
    ASSUME workflow \in WorkflowType, reachable = {}, BeginReach
    PROVE  ReachInv'
<1>1. Entry \in NodeIds \cup {NoId}
    BY DEF WorkflowType, Entry
<1>2. CASE Entry = NoId
    BY <1>2 DEF BeginReach, ReachInv, Entry
<1>3. CASE Entry # NoId
    <2>1. workflow' = workflow /\ reachable' = {} /\ queue' = <<Entry>>
        BY <1>3 DEF BeginReach, Entry
    <2>2. Found' = {Entry}
        BY <2>1 DEF Found, Range
    <2> QED BY <1>1, <1>3, <2>1, <2>2 DEF ReachInv, Entry
<1> QED BY <1>2, <1>3

LEMMA QueueParts ==
    ASSUME NEW S, NEW s \in Seq(S), s # <<>>, NEW t \in Seq(S)
    PROVE  /\ Head(s) \in S /\ Tail(s) \in Seq(S) /\ Tail(s) \o t \in Seq(S)
           /\ Range(s) = {Head(s)} \cup Range(Tail(s))
           /\ Range(Tail(s) \o t) = Range(Tail(s)) \cup Range(t)
<1>1. Head(s) \in S /\ Tail(s) \in Seq(S) /\ Tail(s) \o t \in Seq(S)
    OBVIOUS
<1>2. /\ Head(s) = s[1] /\ 1 \in DOMAIN s /\ DOMAIN s = 1 .. Len(s) /\ Len(s) \in Nat
      /\ DOMAIN Tail(s) = 1 .. (Len(s) - 1)
      /\ \A i \in DOMAIN Tail(s) : Tail(s)[i] = s[i + 1]
    OBVIOUS
<1>3. Range(s) = {Head(s)} \cup Range(Tail(s))
    <2>1. ASSUME NEW i \in DOMAIN s PROVE s[i] = Head(s) \/ s[i] \in Range(Tail(s))
        <3>1. CASE i # 1
            <4>1. i - 1 \in DOMAIN Tail(s) /\ Tail(s)[i - 1] = s[i]
                BY <1>2, <3>1
            <4> QED BY <4>1 DEF Range
        <3> QED BY <1>2, <3>1
    <2>2. \A i \in DOMAIN Tail(s) : i + 1 \in DOMAIN s
        BY <1>2
    <2> QED BY <1>2, <2>1, <2>2 DEF Range
<1>4. Range(Tail(s) \o t) = Range(Tail(s)) \cup Range(t)
    <2>1. Tail(s) \in Seq(S)
        BY <1>1
    <2> QED BY <2>1, RangeConcatenation, ZenonT(40)
<1> QED
    BY <1>1, <1>3, <1>4

LEMMA VisitStep ==
    ASSUME workflow \in WorkflowType, UniqueIds(workflow), ReachInv, Visit
    PROVE  ReachInv'
<1> DEFINE id == Head(queue)
           outputs == FirstNode(workflow, id).outputs
<1>1. queue # <<>> /\ workflow' = workflow /\ E' = E /\ Entry' = Entry
    BY DEF Visit, E, Entry
<1>2. reachable' = reachable \cup {id}
    BY DEF Visit
<1>3. queue \in Seq(NodeIds) /\ Tail(queue) \in Seq(NodeIds)
      /\ Range(queue) = {id} \cup Range(Tail(queue))
    BY <1>1, QueueParts DEF ReachInv
<1>4. CASE id \in reachable \/ id \notin Ids(workflow)
    <2>1. queue' = Tail(queue)
        BY <1>4 DEF Visit
    <2>2. Found' = Found
        BY <1>2, <1>3, <2>1 DEF Found
    <2>3. reachable' \cap Ids(workflow) = reachable \cap Ids(workflow)
        BY <1>2, <1>4
    <2> QED BY <1>1, <1>3, <2>1, <2>2, <2>3 DEF ReachInv
<1>5. CASE id \notin reachable /\ id \in Ids(workflow)
    <2>1. queue' = Tail(queue) \o outputs
        BY <1>5 DEF Visit
    <2>2. outputs \in Seq(NodeIds) /\ E[id] = Range(outputs) \cap Ids(workflow)
        BY <1>5, EdgesOfNode DEF E
    <2>3. queue' \in Seq(NodeIds) /\ Range(queue') = Range(Tail(queue)) \cup Range(outputs)
        BY <1>1, <1>3, <2>1, <2>2, QueueParts
    <2>4. Found' = Found \cup Range(outputs)
        BY <1>2, <1>3, <2>3 DEF Found
    <2>5. id \in Found
        BY <1>3 DEF Found
    <2>6. ASSUME Entry \in Ids(workflow) \ {NoId}, NEW e \in E[id]
          PROVE  Leads(E, Entry, e)
        BY <1>5, <2>5, <2>6, LeadsNext, LeadsOn DEF ReachInv
    <2> QED BY <1>1, <1>2, <2>2, <2>3, <2>4, <2>5, <2>6 DEF ReachInv
<1> QED
    BY <1>4, <1>5

\* A set that is closed under edges and has what the entry node leads to, but for
\* the entry node, has all a path comes to: with the queue empty, reachable is one.
LEMMA ReachedAtEnd ==
    ASSUME workflow \in WorkflowType, ReachInv, queue = <<>>,
           Entry \in Ids(workflow) \ {NoId}
    PROVE  Ids(workflow) \ reachable =
               {id \in Ids(workflow) : id # Entry /\ ~Leads(E, Entry, id)}
<1> DEFINE R == reachable \cap Ids(workflow)
<1>1. Found = reachable
    BY DEF Found, Range
<1>2. E \in [Ids(workflow) -> SUBSET Ids(workflow)]
    BY IdsAreFinite DEF E
<1>3. R \subseteq DOMAIN E /\ Closed(E, R) /\ E[Entry] \subseteq R /\ Entry \in R
    BY <1>1, <1>2 DEF ReachInv, Closed
<1>4. \A id : Leads(E, Entry, id) => id \in R
    BY <1>3, LeadsWithin
<1> QED
    BY <1>1, <1>3, <1>4 DEF ReachInv

-----------------------------------------------------------------------------
(***************************************************************************)
(* validateWorkflow                                                        *)
(***************************************************************************)
ValidationInv ==
    /\ workflow \in WorkflowType
    /\ phase \in {"cycle", "reach", "done"}
    /\ phase = "cycle" => reachable = {}
    /\ phase = "done" => queue = <<>>
    /\ UniqueIds(workflow) =>
          /\ phase = "cycle" => SearchInv
          /\ phase # "cycle" => CycleInv /\ ReachInv

LEMMA ValidationStarts == ValidationInit => ValidationInv
<1> SUFFICES ASSUME ValidationInit PROVE ValidationInv
    OBVIOUS
<1>1. workflow \in WorkflowType
    BY ValidationAssumption DEF ValidationInit, WorkflowType
<1>2. stack = <<>> /\ stack \in Seq(Frame) /\ DOMAIN stack = {} /\ Left = {}
    BY DEF ValidationInit, Left
<1>3. StackInv /\ LeftInv /\ LookedAtInv /\ PathInv
    BY <1>2 DEF StackInv, LeftInv, LookedAtInv, PathInv
<1>4. StartInv
    BY <1>1, <1>2, NodesAreTyped DEF ValidationInit, StartInv
<1> QED
    BY <1>1, <1>3, <1>4 DEF ValidationInit, ValidationInv, SearchInv

LEMMA ValidationGoesOn == ValidationInv /\ [Validate]_validationVars => ValidationInv'
<1> SUFFICES ASSUME ValidationInv, [Validate]_validationVars PROVE ValidationInv'
    OBVIOUS
<1> USE DEF ValidationInv
<1>1. CASE StartSearch
    BY <1>1, StartSearchStep DEF StartSearch, reachVars
<1>2. CASE SkipChild
    BY <1>2, SkipChildStep DEF SkipChild, Calling, reachVars
<1>3. CASE EnterChild
    BY <1>3, EnterChildStep DEF EnterChild, Calling, reachVars
<1>4. CASE ReturnFalse
    BY <1>4, ReturnFalseStep DEF ReturnFalse, reachVars
<1>5. CASE FindCycle
    BY <1>5, FindCycleStep, BeginReachStep DEF FindCycle, BeginReach, Calling
<1>6. CASE NoCycle
    BY <1>6, NoCycleStep, BeginReachStep DEF NoCycle, BeginReach
<1>7. CASE Visit
    <2>1. workflow' = workflow /\ phase' = phase /\ cycle' = cycle /\ phase = "reach"
        BY <1>7 DEF Visit, searchVars
    <2> QED BY <1>7, <2>1, VisitStep DEF CycleInv, E
<1>8. CASE Finish
    <2>1. /\ workflow' = workflow /\ phase' = "done" /\ cycle' = cycle /\ phase = "reach"
          /\ queue = <<>> /\ queue' = queue /\ reachable' = reachable
        BY <1>8 DEF Finish, searchVars, reachVars
    <2> QED BY <2>1 DEF CycleInv, ReachInv, Found, Entry, E
<1>9. CASE UNCHANGED validationVars
    <2>1. UNCHANGED <<workflow, phase, start, visited, stack, cycle, queue, reachable>>
        BY <1>9 DEF validationVars, searchVars, reachVars
    <2>2. E' = E /\ Left' = Left /\ Found' = Found /\ Entry' = Entry /\ Frame' = Frame
        BY <2>1 DEF E, Left, OnStack, Found, Entry, Frame
    <2>3. StackInv => StackInv'
        BY <2>1, <2>2 DEF StackInv, Outputs
    <2>4. LeftInv => LeftInv'
        BY <2>2 DEF LeftInv, ReturnsTo
    <2>5. LookedAtInv => LookedAtInv'
        BY <2>1, <2>2 DEF LookedAtInv, Outputs
    <2>6. PathInv => PathInv'
        BY <2>1, <2>2 DEF PathInv
    <2>7. StartInv => StartInv'
        BY <2>1, <2>2 DEF StartInv, ReturnsTo
    <2>8. (CycleInv => CycleInv') /\ (ReachInv => ReachInv')
        BY <2>1, <2>2 DEF CycleInv, ReachInv
    <2> QED BY <2>1, <2>3, <2>4, <2>5, <2>6, <2>7, <2>8 DEF SearchInv
<1> QED
    BY <1>1, <1>2, <1>3, <1>4, <1>5, <1>6, <1>7, <1>8, <1>9 DEF Validate

\* In every state of validateWorkflow what its searches have left behind is what
\* the edges say: on no cycle, and reached from the entry node.
THEOREM ValidationIsSound == ValidationSpec => []ValidationInv
BY ValidationStarts, ValidationGoesOn, PTL DEF ValidationSpec

\* detectCycle reports a cycle in just the workflows that have one, and what it
\* reports is a path with an edge back into it.
THEOREM CycleSearchIsExact == ValidationSpec => []CyclesAreFound
<1>1. ValidationInv => CyclesAreFound
    BY DEF ValidationInv, CycleInv, CyclesAreFound, E
<1> QED
    BY <1>1, ValidationIsSound, PTL

\* findUnreachableNodes names just the nodes to which no path leads.
THEOREM ReachabilityIsExact == ValidationSpec => []UnreachableAreFound
<1>1. ValidationInv => UnreachableAreFound
    BY ReachedAtEnd DEF ValidationInv, UnreachableAreFound, Unreachable, E, Entry
<1> QED
    BY <1>1, ValidationIsSound, PTL

LEMMA NoDuplicates ==
    ASSUME NEW w \in WorkflowType, FindDuplicateNodeIds(w) = {}
    PROVE  UniqueIds(w)
<1> SUFFICES ASSUME NEW i \in DOMAIN w.nodes, NEW j \in DOMAIN w.nodes,
                    w.nodes[i].id = w.nodes[j].id, i # j
             PROVE  FALSE
    BY DEF UniqueIds
<1> DEFINE Repeats(k) == \E l \in 1..(k - 1) : w.nodes[l].id = w.nodes[k].id
<1>1. i \in Nat /\ j \in Nat /\ i >= 1 /\ j >= 1
    BY NodesAreTyped
<1>2. i \in 1..(j - 1) \/ j \in 1..(i - 1)
    BY <1>1
<1>3. Repeats(j) \/ Repeats(i)
    BY <1>2
<1> QED
    BY <1>3 DEF FindDuplicateNodeIds

LEMMA NothingMissing ==
    ASSUME NEW w \in WorkflowType, FindMissingReferences(w) = {}, NEW i \in DOMAIN w.nodes
    PROVE  w.nodes[i].inputs \subseteq Ids(w) /\ Range(w.nodes[i].outputs) \subseteq Ids(w)
<1>1. ASSUME NEW id \in w.nodes[i].inputs \cup Range(w.nodes[i].outputs)
      PROVE  id \in Ids(w)
    <2>1. id \notin Ids(w) => id \in FindMissingReferences(w)
        BY <1>1 DEF FindMissingReferences
    <2> QED BY <2>1
<1> QED
    BY <1>1

\* Where inputs and outputs agree, the inputs of a node are where edges come from.
LEMMA EdgesAreInputs ==
    ASSUME NEW w \in WorkflowType, UniqueIds(w), EdgesAgree(w),
           FindMissingReferences(w) = {},
           NEW i \in DOMAIN w.nodes
    PROVE  /\ w.nodes[i].inputs \subseteq Ids(w) /\ Range(w.nodes[i].outputs) \subseteq Ids(w)
           /\ \A u \in Ids(w) : w.nodes[i].id \in Edges(w)[u] <=> u \in w.nodes[i].inputs
<1>1. w.nodes[i].inputs \subseteq Ids(w) /\ Range(w.nodes[i].outputs) \subseteq Ids(w)
    BY NothingMissing
<1>2. ASSUME NEW u \in Ids(w)
      PROVE  w.nodes[i].id \in Edges(w)[u] <=> u \in w.nodes[i].inputs
    <2>1. PICK j \in DOMAIN w.nodes : w.nodes[j].id = u
        BY DEF Ids
    <2>2. w.nodes[i].id \in Ids(w)
        BY DEF Ids
    <2>3. Edges(w)[u] = {e \in Ids(w) :
              \E k \in DOMAIN w.nodes : w.nodes[k].id = u /\ e \in Range(w.nodes[k].outputs)}
        BY DEF Edges
    <2>4. w.nodes[i].id \in Edges(w)[u] <=> w.nodes[i].id \in Range(w.nodes[j].outputs)
        BY <2>1, <2>2, <2>3 DEF UniqueIds
    <2> QED BY <2>1, <2>4 DEF EdgesAgree
<1> QED
    BY <1>1, <1>2

\* Where no path returns, the joins come to every node.
LEMMA JoinsReach ==
    ASSUME NEW w \in WorkflowType, UniqueIds(w), EdgesAgree(w),
           FindMissingReferences(w) = {}, Acyclic(Edges(w))
    PROVE  JoinsReachAll(w)
<1> SUFFICES ASSUME NEW S \in SUBSET Ids(w),
                    \A i \in DOMAIN w.nodes : w.nodes[i].inputs \subseteq S => w.nodes[i].id \in S
             PROVE  S = Ids(w)
    BY DEF JoinsReachAll
<1>1. ASSUME NEW v \in Ids(w), \A u \in Ids(w) : v \in Edges(w)[u] => u \in S
      PROVE  v \in S
    <2>1. PICK i \in DOMAIN w.nodes : w.nodes[i].id = v
        BY DEF Ids
    <2>2. w.nodes[i].inputs \subseteq S
        BY <1>1, <2>1, EdgesAreInputs
    <2> QED BY <2>1, <2>2
<1> QED
    BY <1>1, IdsAreFinite, AcyclicIsWellFounded

Reached(w, id) ==
    id \in EntryNodes(w) \/ \E entry \in EntryNodes(w) : Leads(Edges(w), entry, id)

\* Without an entryNodeId the nodes without inputs lead to all nodes.
LEMMA RootsReachAll ==
    ASSUME NEW w \in WorkflowType, UniqueIds(w), EdgesAgree(w),
           FindMissingReferences(w) = {}, Acyclic(Edges(w)), w.entryNodeId = NoId
    PROVE  \A id \in Ids(w) : Reached(w, id)
<1> DEFINE S == {id \in Ids(w) : Reached(w, id)}
<1>1. ASSUME NEW v \in Ids(w), \A u \in Ids(w) : v \in Edges(w)[u] => u \in S
      PROVE  v \in S
    <2>1. PICK i \in DOMAIN w.nodes : w.nodes[i].id = v
        BY DEF Ids
    <2>2. CASE w.nodes[i].inputs = {}
        BY <2>1, <2>2 DEF EntryNodes, Reached
    <2>3. CASE w.nodes[i].inputs # {}
        <3>1. PICK u \in Ids(w) : v \in Edges(w)[u]
            BY <2>1, <2>3, EdgesAreInputs
        <3>2. Reached(w, u)
            BY <1>1, <3>1
        <3> QED BY <3>1, <3>2, LeadsNext, LeadsOn DEF Reached
    <2> QED BY <2>2, <2>3
<1>2. S = Ids(w)
    <2> HIDE DEF S
    <2>1. S \in SUBSET Ids(w)
        BY DEF S
    <2> QED BY <1>1, <2>1, IdsAreFinite, AcyclicIsWellFounded
<1> QED
    BY <1>2

LEMMA AcceptedIsWalkable == ValidationInv => AcceptedCanBeWalked
<1> SUFFICES ASSUME ValidationInv, Accepted PROVE AcceptedCanBeWalked
    BY DEF AcceptedCanBeWalked
<1> DEFINE w == workflow
<1>1. w \in WorkflowType /\ UniqueIds(w) /\ FindMissingReferences(w) = {}
    BY NoDuplicates DEF ValidationInv, Accepted
<1>2. \A i \in DOMAIN w.nodes :
         w.nodes[i].inputs \subseteq Ids(w) /\ Range(w.nodes[i].outputs) \subseteq Ids(w)
    BY <1>1, NothingMissing
<1>3. Acyclic(Edges(w))
    BY <1>1 DEF ValidationInv, Accepted, CycleInv, E
<1>4. ASSUME Unreachable = {}, EdgesAgree(w)
      PROVE  /\ w.nodes # <<>> => EntryNodes(w) # {}
             /\ \A i \in DOMAIN w.nodes :
                   w.nodes[i].inputs = {} => w.nodes[i].id \in EntryNodes(w)
             /\ JoinsReachAll(w)
             /\ \A id \in Ids(w) : Reached(w, id)
    <2>1. JoinsReachAll(w)
        BY <1>1, <1>3, <1>4, JoinsReach
    <2>2. CASE w.entryNodeId = NoId
        <3>1. \A id \in Ids(w) : Reached(w, id)
            BY <1>1, <1>3, <1>4, <2>2, RootsReachAll
        <3>2. w.nodes # <<>> => Ids(w) # {}
            <4>1. w.nodes \in Seq(NodeDefinition)
                BY <1>1 DEF WorkflowType
            <4>2. w.nodes # <<>> => 1 \in DOMAIN w.nodes
                BY <4>1
            <4> QED BY <4>2 DEF Ids
        <3>3. \A i \in DOMAIN w.nodes :
                 w.nodes[i].inputs = {} => w.nodes[i].id \in EntryNodes(w)
            BY <2>2 DEF EntryNodes
        <3> QED BY <2>1, <3>1, <3>2, <3>3 DEF Reached
    <2>3. CASE w.entryNodeId # NoId
        <3>1. Entry \in Ids(w) \ {NoId} /\ EntryNodes(w) = {Entry}
            BY <2>3 DEF Accepted, EntryNodeInvalid, EntryNodes, Entry
        <3>2. \A id \in Ids(w) : id = Entry \/ Leads(Edges(w), Entry, id)
            BY <1>1, <1>4, <2>3, <3>1, ReachedAtEnd
            DEF ValidationInv, Accepted, Unreachable, Entry, E
        <3>3. ASSUME NEW i \in DOMAIN w.nodes, w.nodes[i].inputs = {}
              PROVE  w.nodes[i].id = Entry
            <4>1. \A u \in Ids(w) : w.nodes[i].id \notin Edges(w)[u]
                BY <1>1, <1>4, <3>3, EdgesAreInputs
            <4>2. ~Leads(Edges(w), Entry, w.nodes[i].id)
                BY <1>1, <3>1, <4>1, LastEdge, IdsAreFinite
            <4> QED BY <3>2, <4>2 DEF Ids
        <3> QED BY <2>1, <3>1, <3>2, <3>3 DEF Reached
    <2> QED BY <2>2, <2>3
<1> QED
    BY <1>1, <1>2, <1>3, <1>4 DEF AcceptedCanBeWalked, Reached

\* An accepted workflow has no cycle, and without a warning, where inputs and outputs
\* agree, the start finds entry nodes that lead to all nodes and joins that fire.
THEOREM AcceptedIsRunnable == ValidationSpec => []AcceptedCanBeWalked
BY AcceptedIsWalkable, ValidationIsSound, PTL

-----------------------------------------------------------------------------
(***************************************************************************)
(* validateInputData.  What is seen and no longer in the walk is checked.  *)
(***************************************************************************)
H == case.heap
P == Parts(H)
InWalk == {walk[i].object : i \in DOMAIN walk}
Checked == seen \ InWalk

Call == [object : Objects, at : Nat]

CallsInv ==
    /\ walk \in Seq(Call)
    /\ seen \subseteq Objects
    /\ \A i \in DOMAIN walk :
          walk[i].object \in seen /\ walk[i].at <= Len(H[walk[i].object])
    /\ \A i, j \in DOMAIN walk : walk[i].object = walk[j].object => i = j

\* No field leads out of what is checked, and nothing there is on a cycle.
CheckedInv == \A o \in Checked : P[o] \subseteq Checked /\ ~Leads(P, o, o)

\* The fields a call has looked at are checked, but for the one it is in.
FieldsInv ==
    \A i \in DOMAIN walk : \A k \in 1 .. walk[i].at :
       LET part == H[walk[i].object][k]
       IN \/ part \notin Objects
          \/ part \in Checked
          \/ i + 1 \in DOMAIN walk /\ part = walk[i + 1].object

\* The walk has looked at field k of o.
LookedAt(o, k) == \A i \in DOMAIN walk : walk[i].object = o => k <= walk[i].at

\* All that is seen is a part of the whole, and all but the whole was seen in a field.
SeenInv ==
    walk # <<>> =>
       LET whole == walk[1].object
       IN /\ seen \subseteq Within(H, whole)
          /\ \A o \in seen \ {whole} :
                \E holder \in seen : \E k \in DOMAIN H[holder] :
                   H[holder][k] = o /\ LookedAt(holder, k)

WalkInv == CallsInv /\ CheckedInv /\ FieldsInv /\ SeenInv

CaseType == {c \in Cases : c.heap \in [Objects -> Seq(Objects \cup Primitives)]
                             /\ c.parents \in Seq(ParentIds)}

LEMMA FieldsAreTyped ==
    ASSUME case \in CaseType, NEW o \in Objects
    PROVE  /\ H[o] \in Seq(Objects \cup Primitives)
           /\ Len(H[o]) \in Nat /\ DOMAIN H[o] = 1 .. Len(H[o])
           /\ P \in [Objects -> SUBSET Objects]
           /\ P[o] = Range(H[o]) \cap Objects
<1>1. H \in [Objects -> Seq(Objects \cup Primitives)]
    BY DEF CaseType, H
<1>2. H[o] \in Seq(Objects \cup Primitives)
    BY <1>1
<1> QED
    BY <1>2 DEF P, Parts

LEMMA TopCallIsThere ==
    ASSUME CallsInv, walk # <<>>
    PROVE  /\ Len(walk) \in Nat /\ Len(walk) \in DOMAIN walk /\ 1 \in DOMAIN walk
           /\ DOMAIN walk = 1 .. Len(walk)
           /\ \A i \in DOMAIN walk : walk[i].object \in Objects /\ walk[i].at \in Nat
<1>1. walk \in Seq(Call)
    BY DEF CallsInv
<1>2. /\ Len(walk) \in Nat /\ Len(walk) \in DOMAIN walk /\ 1 \in DOMAIN walk
      /\ DOMAIN walk = 1 .. Len(walk)
    BY <1>1
<1>3. \A i \in DOMAIN walk : walk[i] \in Call
    BY <1>1
<1> QED
    BY <1>2, <1>3 DEF Call

LEMMA PastFieldMoves ==
    ASSUME CallsInv, walk # <<>>
    PROVE  /\ PastField \in Seq(Call)
           /\ DOMAIN PastField = DOMAIN walk /\ Len(PastField) = Len(walk)
           /\ \A i \in DOMAIN walk :
                 /\ PastField[i].object = walk[i].object
                 /\ PastField[i].at = IF i = Len(walk) THEN walk[i].at + 1 ELSE walk[i].at
<1> DEFINE top == [walk[Len(walk)] EXCEPT !.at = @ + 1]
<1>1. walk \in Seq(Call)
    BY DEF CallsInv
<1>2. Len(walk) \in DOMAIN walk /\ DOMAIN walk = 1 .. Len(walk) /\ Len(walk) \in Nat
    BY TopCallIsThere
<1>3. walk[Len(walk)] \in Call
    BY <1>1, <1>2
<1>4. top \in Call /\ top.object = walk[Len(walk)].object /\ top.at = walk[Len(walk)].at + 1
    BY <1>3 DEF Call
<1>5. PastField = [walk EXCEPT ![Len(walk)] = top]
    BY DEF PastField
<1> HIDE DEF top
<1>6. PastField \in Seq(Call) /\ Len(PastField) = Len(walk) /\ DOMAIN PastField = DOMAIN walk
    BY <1>1, <1>2, <1>4, <1>5
<1>7. \A i \in DOMAIN walk : PastField[i] = IF i = Len(walk) THEN top ELSE walk[i]
    BY <1>1, <1>2, <1>5
<1> QED
    BY <1>4, <1>6, <1>7

\* The field looked at next, and where it is.
LEMMA FieldOfTop ==
    ASSUME case \in CaseType, CallsInv, walk # <<>>, HasMore
    PROVE  LET top == walk[Len(walk)]
           IN /\ top.at + 1 \in DOMAIN H[top.object] /\ H[top.object][top.at + 1] = Field
              /\ Field \in Objects => Field \in P[top.object]
<1> DEFINE top == walk[Len(walk)]
<1>1. top.object \in Objects /\ top.at \in Nat
    BY TopCallIsThere
<1>2. /\ Len(H[top.object]) \in Nat /\ DOMAIN H[top.object] = 1 .. Len(H[top.object])
      /\ P[top.object] = Range(H[top.object]) \cap Objects
    BY <1>1, FieldsAreTyped
<1>3. top.at < Len(H[top.object]) /\ Field = H[top.object][top.at + 1]
    BY DEF HasMore, Field, Fields, TopCall, H
<1> QED
    BY <1>1, <1>2, <1>3 DEF Range

LEMMA StartWalkStep ==
    ASSUME case \in CaseType, case' = case, NEW data, StartWalk(data)
    PROVE  /\ WalkInv'
           /\ walk' # <<>> => data \in Objects /\ walk'[1].object = data
           /\ walk' = <<>> => ~Circular(H, data)
<1>1. CASE data \in Objects
    <2>1. /\ seen' = {data} /\ walk' = <<[object |-> data, at |-> 0]>>
          /\ DOMAIN walk' = {1} /\ walk'[1].object = data /\ walk'[1].at = 0
        BY <1>1 DEF StartWalk
    <2>2. Checked' = {}
        BY <2>1 DEF Checked, InWalk
    <2>3. CallsInv'
        BY <1>1, <2>1, FieldsAreTyped DEF CallsInv, Call, H
    <2>4. SeenInv'
        BY <1>1, <2>1 DEF SeenInv, Within, H
    <2> QED BY <1>1, <2>1, <2>2, <2>3, <2>4 DEF WalkInv, CheckedInv, FieldsInv
<1>2. CASE data \notin Objects
    <2>1. seen' = {} /\ walk' = <<>>
        BY <1>2 DEF StartWalk
    <2>2. WalkInv'
        BY <2>1 DEF WalkInv, CallsInv, CheckedInv, FieldsInv, SeenInv, Checked
    <2>3. ~Circular(H, data)
        BY <1>2 DEF Circular, Within
    <2> QED BY <2>1, <2>2, <2>3
<1> QED
    BY <1>1, <1>2

LEMMA SkipPrimitiveStep ==
    ASSUME case \in CaseType, WalkInv, SkipPrimitive
    PROVE  WalkInv' /\ walk' # <<>> /\ walk'[1].object = walk[1].object
<1> USE DEF WalkInv
<1>1. /\ walk # <<>> /\ HasMore /\ Field \notin Objects
      /\ case' = case /\ seen' = seen /\ walk' = PastField /\ H' = H /\ P' = P
    BY DEF SkipPrimitive, H, P
<1>2. PICK n \in Nat : /\ n = Len(walk) /\ n \in DOMAIN walk /\ 1 \in DOMAIN walk
                       /\ DOMAIN walk = 1 .. n
    BY <1>1, TopCallIsThere
<1>3. /\ walk' \in Seq(Call)
      /\ DOMAIN walk' = 1 .. n /\ Len(walk') = n
      /\ \A i \in 1 .. n :
            /\ walk'[i].object = walk[i].object
            /\ walk'[i].at = IF i = n THEN walk[i].at + 1 ELSE walk[i].at
    BY <1>1, <1>2, PastFieldMoves
<1>4. \A i \in 1 .. n : walk[i].object \in Objects /\ walk[i].at \in Nat
    BY <1>1, <1>2, TopCallIsThere
<1>5. walk[n].at + 1 \in DOMAIN H[walk[n].object] /\ H[walk[n].object][walk[n].at + 1] = Field
    BY <1>1, <1>2, FieldOfTop
<1>6. InWalk' = InWalk /\ Checked' = Checked
    BY <1>1, <1>2, <1>3 DEF InWalk, Checked
<1>7. CallsInv'
    <2>1. \A i \in 1 .. n : walk'[i].at <= Len(H[walk[i].object])
        <3>1. walk[n].at + 1 <= Len(H[walk[n].object])
            BY <1>2, <1>4, <1>5, FieldsAreTyped
        <3>2. \A i \in 1 .. n : walk[i].at <= Len(H[walk[i].object])
            BY <1>2 DEF CallsInv
        <3>3. ASSUME NEW i \in 1 .. n PROVE walk'[i].at <= Len(H[walk[i].object])
            <4>1. CASE i = n
                BY <1>3, <3>1, <4>1
            <4>2. CASE i # n
                BY <1>3, <3>2, <4>2
            <4> QED BY <4>1, <4>2
        <3> QED BY <3>3
    <2>2. \A i, j \in 1 .. n : walk[i].object = walk[j].object => i = j
        BY <1>2 DEF CallsInv
    <2>3. seen \subseteq Objects /\ \A i \in 1 .. n : walk[i].object \in seen
        BY <1>2 DEF CallsInv
    <2>4. \A i \in 1 .. n :
             walk'[i].object \in seen' /\ walk'[i].at <= Len(H[walk'[i].object])
        BY <1>1, <1>3, <2>1, <2>3
    <2>5. \A i, j \in 1 .. n : walk'[i].object = walk'[j].object => i = j
        BY <1>3, <2>2
    <2> QED BY <1>1, <1>3, <2>3, <2>4, <2>5 DEF CallsInv, Call
<1>8. CheckedInv'
    BY <1>1, <1>6 DEF CheckedInv
<1>9. FieldsInv'
    <2> SUFFICES ASSUME NEW i \in 1 .. n, NEW k \in 1 .. walk'[i].at
                 PROVE  LET part == H[walk[i].object][k]
                        IN \/ part \notin Objects
                           \/ part \in Checked
                           \/ i + 1 \in 1 .. n /\ part = walk[i + 1].object
        BY <1>1, <1>2, <1>3, <1>6 DEF FieldsInv
    <2>1. CASE k \in 1 .. walk[i].at
        BY <1>2, <2>1 DEF FieldsInv
    <2>2. CASE k \notin 1 .. walk[i].at
        <3>1. i = n /\ k = walk[n].at + 1
            BY <1>2, <1>3, <1>4, <2>2
        <3> QED BY <1>1, <1>5, <3>1
    <2> QED BY <2>1, <2>2
<1>10. \A o, k : LookedAt(o, k) /\ k \in Int => LookedAt(o, k)'
    BY <1>2, <1>3, <1>4 DEF LookedAt
<1>11. walk' # <<>> /\ walk'[1].object = walk[1].object
    BY <1>2, <1>3
<1>12. SeenInv'
    BY <1>1, <1>10, <1>11, FieldsAreTyped DEF SeenInv, CallsInv
<1> QED
    BY <1>7, <1>8, <1>9, <1>11, <1>12

LEMMA WithinOn ==
    ASSUME case \in CaseType, NEW whole \in Objects, NEW o \in Within(H, whole), NEW part \in P[o]
    PROVE  part \in Within(H, whole)
<1>1. o \in Objects /\ part \in Objects
    BY FieldsAreTyped DEF Within
<1>2. Leads(P, o, part)
    BY LeadsNext
<1>3. Leads(P, whole, part)
    BY <1>2, LeadsOn DEF Within, P
<1> QED
    BY <1>1, <1>3 DEF Within, P

LEMMA EnterObjectStep ==
    ASSUME case \in CaseType, WalkInv, EnterObject
    PROVE  WalkInv' /\ walk' # <<>> /\ walk'[1].object = walk[1].object
<1> USE DEF WalkInv
<1>1. /\ walk # <<>> /\ HasMore /\ Field \in Objects /\ Field \notin seen
      /\ case' = case /\ seen' = seen \cup {Field} /\ H' = H /\ P' = P
      /\ walk' = Append(PastField, [object |-> Field, at |-> 0])
    BY DEF EnterObject, H, P
<1>2. PICK n \in Nat : /\ n = Len(walk) /\ n \in DOMAIN walk /\ 1 \in DOMAIN walk
                       /\ DOMAIN walk = 1 .. n
    BY <1>1, TopCallIsThere
<1>3. [object |-> Field, at |-> 0] \in Call
    BY <1>1 DEF Call
<1>4. /\ walk' \in Seq(Call) /\ Len(walk') = n + 1 /\ DOMAIN walk' = 1 .. (n + 1)
      /\ walk'[n + 1].object = Field /\ walk'[n + 1].at = 0
      /\ \A i \in 1 .. n :
            /\ walk'[i].object = walk[i].object
            /\ walk'[i].at = IF i = n THEN walk[i].at + 1 ELSE walk[i].at
    <2>1. /\ PastField \in Seq(Call)
          /\ DOMAIN PastField = 1 .. n /\ Len(PastField) = n
          /\ \A i \in 1 .. n :
                /\ PastField[i].object = walk[i].object
                /\ PastField[i].at = IF i = n THEN walk[i].at + 1 ELSE walk[i].at
        BY <1>1, <1>2, PastFieldMoves
    <2>2. /\ walk' \in Seq(Call) /\ Len(walk') = n + 1 /\ DOMAIN walk' = 1 .. (n + 1)
          /\ walk'[n + 1] = [object |-> Field, at |-> 0]
          /\ \A i \in 1 .. n : walk'[i] = PastField[i]
        BY <1>1, <1>3, <2>1, Appended
    <2> QED BY <2>1, <2>2
<1>5. \A i \in 1 .. n : walk[i].object \in Objects /\ walk[i].at \in Nat
    BY <1>1, <1>2, TopCallIsThere
<1>6. walk[n].at + 1 \in DOMAIN H[walk[n].object] /\ H[walk[n].object][walk[n].at + 1] = Field
      /\ Field \in P[walk[n].object]
    BY <1>1, <1>2, FieldOfTop
<1>7. \A i \in 1 .. n : walk[i].object # Field
    BY <1>1, <1>2 DEF CallsInv
<1>8. InWalk' = InWalk \cup {Field}
    BY <1>2, <1>4 DEF InWalk
<1>9. Checked' = Checked
    BY <1>1, <1>8 DEF Checked
<1>10. CallsInv'
    <2>1. \A i \in 1 .. n : walk'[i].at <= Len(H[walk[i].object])
        <3>1. walk[n].at + 1 <= Len(H[walk[n].object])
            BY <1>2, <1>5, <1>6, FieldsAreTyped
        <3>2. \A i \in 1 .. n : walk[i].at <= Len(H[walk[i].object])
            BY <1>2 DEF CallsInv
        <3> QED BY <1>2, <1>4, <3>1, <3>2
    <2>2. walk'[n + 1].at <= Len(H[walk'[n + 1].object])
        BY <1>1, <1>4, FieldsAreTyped
    <2>3. \A i, j \in 1 .. (n + 1) : walk'[i].object = walk'[j].object => i = j
        BY <1>2, <1>4, <1>7 DEF CallsInv
    <2>4. \A i \in 1 .. (n + 1) :
             walk'[i].object \in seen' /\ walk'[i].at <= Len(H[walk'[i].object])
        <3> SUFFICES ASSUME NEW i \in 1 .. (n + 1)
                     PROVE  walk'[i].object \in seen' /\ walk'[i].at <= Len(H[walk'[i].object])
            OBVIOUS
        <3>1. CASE i = n + 1
            BY <1>1, <1>4, <2>2, <3>1
        <3>2. CASE i # n + 1
            <4>1. i \in 1 .. n
                BY <1>2, <3>2
            <4>2. walk[i].object \in seen
                BY <1>2, <4>1 DEF CallsInv
            <4> QED BY <1>1, <1>4, <2>1, <4>1, <4>2
        <3> QED BY <3>1, <3>2
    <2> QED BY <1>1, <1>4, <2>3, <2>4 DEF CallsInv, Call
<1>11. CheckedInv'
    BY <1>1, <1>9 DEF CheckedInv
<1>12. FieldsInv'
    <2> SUFFICES ASSUME NEW i \in 1 .. (n + 1), NEW k \in 1 .. walk'[i].at
                 PROVE  LET part == H[walk'[i].object][k]
                        IN \/ part \notin Objects
                           \/ part \in Checked
                           \/ i + 1 \in 1 .. (n + 1) /\ part = walk'[i + 1].object
        BY <1>1, <1>4, <1>9 DEF FieldsInv
    <2>1. i \in 1 .. n
        BY <1>2, <1>4
    <2>2. CASE k \in 1 .. walk[i].at
        BY <1>2, <1>4, <2>1, <2>2 DEF FieldsInv
    <2>3. CASE k \notin 1 .. walk[i].at
        <3>1. i = n /\ k = walk[n].at + 1
            BY <1>2, <1>4, <1>5, <2>1, <2>3
        <3> QED BY <1>2, <1>4, <1>6, <3>1
    <2> QED BY <2>2, <2>3
<1>13. walk' # <<>> /\ walk'[1].object = walk[1].object
    BY <1>2, <1>4
<1>14. SeenInv'
    <2> DEFINE whole == walk[1].object
               HeldIn(o, holder, k) == H[holder][k] = o /\ LookedAt(holder, k)'
    <2>1. Field \in Within(H, whole)
        BY <1>1, <1>2, <1>5, <1>6, WithinOn DEF SeenInv, CallsInv
    <2>2. \A holder, k : LookedAt(holder, k) /\ holder \in seen /\ k \in Int
                        => LookedAt(holder, k)'
        BY <1>1, <1>2, <1>4, <1>5 DEF LookedAt
    <2>3. \A o \in seen \ {whole} : \E holder \in seen : \E k \in DOMAIN H[holder] :
             HeldIn(o, holder, k)
        BY <1>1, <2>2, FieldsAreTyped DEF SeenInv, CallsInv
    <2> PICK top \in seen : top = walk[n].object
        BY <1>2 DEF CallsInv
    <2>4. PICK last \in DOMAIN H[top] : last = walk[n].at + 1 /\ H[top][last] = Field
        BY <1>6
    <2>5. HeldIn(Field, top, last)
        <3>1. ASSUME NEW i \in 1 .. (n + 1), walk'[i].object = top
              PROVE  i = n
            <4>1. i # n + 1
                BY <1>2, <1>4, <1>7, <2>4, <3>1
            <4>2. i \in 1 .. n /\ walk[i].object = walk[n].object
                BY <1>2, <1>4, <2>4, <3>1, <4>1
            <4> QED BY <1>2, <4>2 DEF CallsInv
        <3>2. walk'[n].at = last
            <4>1. n \in 1 .. n
                BY <1>2
            <4> QED BY <1>4, <2>4, <4>1
        <3>3. LookedAt(top, last)'
            BY <1>2, <1>4, <1>5, <2>4, <3>1, <3>2 DEF LookedAt
        <3> QED BY <2>4, <3>3
    <2>6. seen' \subseteq Within(H, whole)
        BY <1>1, <2>1 DEF SeenInv
    <2>7. \A o \in seen' \ {whole} : \E holder \in seen' : \E k \in DOMAIN H[holder] :
             HeldIn(o, holder, k)
        <3> HIDE DEF HeldIn
        <3>1. \E holder \in seen : \E k \in DOMAIN H[holder] : HeldIn(Field, holder, k)
            BY <2>4, <2>5
        <3> QED BY <1>1, <2>3, <3>1
    <2> QED BY <1>1, <1>13, <2>6, <2>7 DEF SeenInv
<1> QED
    BY <1>10, <1>11, <1>12, <1>13, <1>14

\* When the walk comes back from the whole it holds no cycle.
LEMMA ReturnValidStep ==
    ASSUME case \in CaseType, WalkInv, ReturnValid
    PROVE  /\ WalkInv'
           /\ walk' # <<>> => walk'[1].object = walk[1].object
           /\ walk' = <<>> => ~Circular(H, walk[1].object)
<1> USE DEF WalkInv
<1>1. /\ walk # <<>> /\ ~HasMore
      /\ case' = case /\ seen' = seen /\ H' = H /\ P' = P
    BY DEF ReturnValid, H, P
<1>2. PICK n \in Nat : /\ n = Len(walk) /\ n \in DOMAIN walk /\ 1 \in DOMAIN walk
                       /\ DOMAIN walk = 1 .. n
    BY <1>1, TopCallIsThere
<1>3. walk \in Seq(Call) /\ walk' = SubSeq(walk, 1, n - 1)
    BY <1>2 DEF CallsInv, ReturnValid
<1>4. /\ walk' \in Seq(Call) /\ Len(walk') = n - 1 /\ DOMAIN walk' = 1 .. (n - 1)
      /\ \A i \in 1 .. (n - 1) : walk'[i] = walk[i]
    BY <1>2, <1>3
<1>5. \A i \in 1 .. n : walk[i].object \in Objects /\ walk[i].at \in Nat
    BY <1>1, <1>2, TopCallIsThere
<1>6. PICK top \in Objects : top = walk[n].object /\ top \in InWalk /\ top \in seen
    BY <1>2, <1>5 DEF InWalk, CallsInv
<1>7. InWalk' = InWalk \ {top}
    <2>1. \A i \in 1 .. (n - 1) : walk[i].object # top
        BY <1>2, <1>6 DEF CallsInv
    <2>2. InWalk = {walk[i].object : i \in 1 .. (n - 1)} \cup {top}
        BY <1>2, <1>6 DEF InWalk
    <2>3. InWalk' = {walk[i].object : i \in 1 .. (n - 1)}
        BY <1>4 DEF InWalk
    <2> QED BY <2>1, <2>2, <2>3
<1>8. Checked' = Checked \cup {top} /\ top \notin Checked
    BY <1>1, <1>6, <1>7 DEF Checked
<1>9. walk[n].at = Len(H[top])
    BY <1>1, <1>2, <1>5, <1>6, FieldsAreTyped DEF CallsInv, HasMore, TopCall, Fields, H
<1>10. P[top] \subseteq Checked
    <2> SUFFICES ASSUME NEW k \in 1 .. Len(H[top]), H[top][k] \in Objects
                 PROVE  H[top][k] \in Checked
        BY FieldsAreTyped DEF Range
    <2> QED BY <1>2, <1>6, <1>9 DEF FieldsInv
<1>11. Closed(P, Checked) /\ Checked \subseteq DOMAIN P
    BY <1>6, FieldsAreTyped DEF CheckedInv, Closed, Checked, CallsInv
<1>12. ~Leads(P, top, top)
    BY <1>8, <1>10, <1>11, LeadsWithin
<1>13. CheckedInv'
    BY <1>1, <1>8, <1>10, <1>12 DEF CheckedInv
<1>14. CallsInv'
    <2>1. \A i \in 1 .. (n - 1) :
             walk[i].object \in seen /\ walk[i].at <= Len(H[walk[i].object])
        BY <1>2 DEF CallsInv
    <2>2. \A i, j \in 1 .. (n - 1) : walk[i].object = walk[j].object => i = j
        BY <1>2 DEF CallsInv
    <2>3. seen \subseteq Objects
        BY DEF CallsInv
    <2> QED BY <1>1, <1>4, <2>1, <2>2, <2>3 DEF CallsInv, Call
<1>15. FieldsInv'
    <2> SUFFICES ASSUME NEW i \in 1 .. (n - 1), NEW k \in 1 .. walk[i].at
                 PROVE  LET part == H[walk[i].object][k]
                        IN \/ part \notin Objects
                           \/ part \in Checked \cup {top}
                           \/ i + 1 \in 1 .. (n - 1) /\ part = walk[i + 1].object
        BY <1>1, <1>4, <1>8 DEF FieldsInv
    <2>1. CASE i + 1 = n
        BY <1>2, <1>6, <2>1 DEF FieldsInv
    <2>2. CASE i + 1 # n
        BY <1>2, <2>2 DEF FieldsInv
    <2> QED BY <2>1, <2>2
<1>16. walk' # <<>> => walk'[1].object = walk[1].object
    BY <1>2, <1>4
<1>17. SeenInv'
    <2>1. \A o, k : LookedAt(o, k) => LookedAt(o, k)'
        BY <1>2, <1>4 DEF LookedAt
    <2> QED BY <1>1, <1>16, <2>1 DEF SeenInv
<1>18. ASSUME walk' = <<>> PROVE ~Circular(H, walk[1].object)
    <2>1. n = 1 /\ top = walk[1].object
        <3>1. Len(walk') = 0
            BY <1>18
        <3>2. Len(walk') = n - 1 /\ n \in Nat
            BY <1>2, <1>4
        <3>3. n = 1
            BY <3>1, <3>2
        <3> QED BY <1>6, <3>3
    <2>2. Within(H, top) \subseteq Checked \cup {top}
        BY <1>10, <1>11, LeadsWithin DEF Within, P
    <2> QED BY <1>12, <2>1, <2>2 DEF Circular, CheckedInv, P
<1> QED
    BY <1>13, <1>14, <1>15, <1>16, <1>17, <1>18

\* What is refused has an object in two places, or the whole in a part.
LEMMA RefusedIsNoTree ==
    ASSUME case \in CaseType, WalkInv, RefuseObject
    PROVE  walk # <<>> /\ ~IsTree(H, walk[1].object)
<1> DEFINE whole == walk[1].object
           top == walk[Len(walk)]
           here == <<top.object, top.at + 1>>
<1>1. walk # <<>> /\ HasMore /\ Field \in seen /\ Field \in Objects
    BY DEF RefuseObject, WalkInv, CallsInv
<1>2. /\ Len(walk) \in DOMAIN walk /\ top.object \in Objects /\ top.at \in Nat
      /\ top.object \in seen
    BY <1>1, TopCallIsThere DEF WalkInv, CallsInv
<1>3. top.at + 1 \in DOMAIN H[top.object] /\ H[top.object][top.at + 1] = Field
    BY <1>1, FieldOfTop DEF WalkInv
<1>4. seen \subseteq Within(H, whole)
    BY <1>1 DEF WalkInv, SeenInv
<1>5. ASSUME NEW o \in seen, NEW k \in DOMAIN H[o], H[o][k] \in Objects
      PROVE  <<o, k>> \in Slots(H, whole) /\ Held(H, <<o, k>>) = H[o][k]
    BY <1>4, <1>5 DEF Slots, Held
<1>6. here \in Slots(H, whole) /\ Held(H, here) = Field
    BY <1>1, <1>2, <1>3, <1>5
<1>7. CASE Field = whole
    BY <1>1, <1>6, <1>7 DEF IsTree
<1>8. CASE Field # whole
    <2> DEFINE HeldIn(holder, k) == H[holder][k] = Field /\ LookedAt(holder, k)
    <2>1. PICK holder \in seen : \E k \in DOMAIN H[holder] : HeldIn(holder, k)
        BY <1>1, <1>8 DEF WalkInv, SeenInv
    <2> PICK k \in DOMAIN H[holder] : HeldIn(holder, k)
        BY <2>1
    <2>2. <<holder, k>> \in Slots(H, whole) /\ Held(H, <<holder, k>>) = Field
        BY <1>1, <1>5
    <2>3. <<holder, k>> # here
        <3>1. CASE holder = top.object
            BY <1>2, <3>1 DEF LookedAt
        <3>2. CASE holder # top.object
            BY <3>2
        <3> QED BY <3>1, <3>2
    <2> QED BY <1>1, <1>6, <2>2, <2>3 DEF IsTree
<1> QED
    BY <1>7, <1>8

-----------------------------------------------------------------------------
(***************************************************************************)
(* mergeParentInputs and buildNodeInputData                                *)
(***************************************************************************)
Waiting(data) ==
    \E p \in Range(pending) : Succeeded(case, p) /\ data = case.results[p].data

UnderWay(data) == walk # <<>> /\ data = walk[1].object

PendingInv ==
    IF pending = NoCase THEN walk = <<>> /\ merged = NoCase
    ELSE pending \in Seq(ParentIds) /\ Range(pending) \subseteq Range(case.parents)

\* While there is no answer, data that is neither waiting nor in the walk is in order.
MergingInv ==
    pending # NoCase /\ merged = NoCase =>
        /\ Blank \notin Range(case.parents)
        /\ \A data \in Given(case) : Circular(H, data) => Waiting(data) \/ UnderWay(data)

\* An answer was given to data in order, an error for a reason.
AnswerInv ==
    merged # NoCase =>
        /\ walk = <<>>
        /\ merged # Error =>
              /\ merged = Merge(case) /\ Blank \notin Range(case.parents)
              /\ \A data \in Given(case) : ~Circular(H, data)
        /\ \/ merged = Merge(case) \/ Blank \in Range(case.parents)
           \/ \E data \in Given(case) : ~IsTree(H, data)

BuiltInv == built # NoCase => merged # NoCase /\ built = BuildNodeInputData(case)

DataInv ==
    /\ case \in CaseType
    /\ walk # <<>> => WalkInv /\ walk[1].object \in Given(case)
    /\ PendingInv /\ MergingInv /\ AnswerInv /\ BuiltInv

LEMMA DataStarts == DataInit => DataInv
<1> SUFFICES ASSUME DataInit PROVE DataInv
    OBVIOUS
<1>1. case \in CaseType
    BY DataAssumption DEF DataInit, CaseType
<1> QED
    BY <1>1 DEF DataInit, DataInv, PendingInv, MergingInv, AnswerInv, BuiltInv

LEMMA BeginStep == DataInv /\ Begin => DataInv'
<1> SUFFICES ASSUME DataInv, Begin PROVE DataInv'
    OBVIOUS
<1>1. /\ case' = case /\ case \in CaseType /\ pending = NoCase /\ pending' = case.parents
      /\ walk = <<>> /\ merged = NoCase /\ built' = built /\ H' = H
      /\ merged' = IF Blank \in Range(case.parents) THEN Error ELSE NoCase
    BY DEF Begin, DataInv, PendingInv, H
<1>2. case.parents \in Seq(ParentIds) /\ pending' # NoCase
    BY <1>1, DataAssumption DEF CaseType
<1>3. PendingInv' /\ BuiltInv'
    BY <1>1, <1>2 DEF PendingInv, DataInv, BuiltInv
<1>4. CASE case.parents = <<>>
    <2>1. StartWalk(case.inputData)
        BY <1>4 DEF Begin
    <2>2. Given(case) = {case.inputData} /\ merged' = NoCase /\ Blank \notin Range(case.parents)
        BY <1>1, <1>4 DEF Given, Range
    <2>3. /\ WalkInv'
          /\ walk' # <<>> => walk'[1].object = case.inputData
          /\ walk' = <<>> => ~Circular(H, case.inputData)
        BY <1>1, <2>1, StartWalkStep
    <2> QED BY <1>1, <1>3, <2>2, <2>3 DEF DataInv, MergingInv, AnswerInv, UnderWay
<1>5. CASE case.parents # <<>>
    <2>1. walk' = <<>>
        BY <1>1, <1>5 DEF Begin, walkVars
    <2>2. \A data \in Given(case) : Waiting(data)'
        BY <1>1, <1>5 DEF Given, Waiting
    <2>3. MergingInv' /\ AnswerInv'
        BY <1>1, <2>1, <2>2, DataAssumption DEF MergingInv, AnswerInv
    <2> QED BY <1>1, <1>3, <2>1, <2>3 DEF DataInv
<1> QED
    BY <1>4, <1>5

LEMMA NextParentStep == DataInv /\ NextParent => DataInv'
<1> SUFFICES ASSUME DataInv, NextParent PROVE DataInv'
    OBVIOUS
<1> DEFINE p == Head(pending)
           data == case.results[p].data
<1>1. /\ case' = case /\ case \in CaseType /\ merged' = merged /\ built' = built /\ H' = H
      /\ pending # NoCase /\ pending # <<>> /\ pending' = Tail(pending)
      /\ walk = <<>> /\ merged = NoCase
    BY DEF NextParent, Merging, DataInv, H
<1>2. pending \in Seq(ParentIds) /\ Range(pending) \subseteq Range(case.parents)
    BY <1>1 DEF DataInv, PendingInv
<1>3. /\ p \in Range(case.parents) /\ pending' \in Seq(ParentIds)
      /\ Range(pending) = {p} \cup Range(pending')
    BY <1>1, <1>2, QueueParts
<1>4. PendingInv' /\ BuiltInv' /\ AnswerInv'
    BY <1>1, <1>2, <1>3, DataAssumption DEF PendingInv, BuiltInv, AnswerInv, DataInv
<1>5. /\ Blank \notin Range(case.parents)
      /\ \A d \in Given(case) : Circular(H, d) => Waiting(d)
    BY <1>1 DEF DataInv, MergingInv, UnderWay
<1>6. \A d : Waiting(d) => Waiting(d)' \/ (Succeeded(case, p) /\ d = data)
    BY <1>1, <1>3 DEF Waiting
<1>7. CASE Succeeded(case, p)
    <2>1. StartWalk(data)
        BY <1>7 DEF NextParent
    <2>2. /\ WalkInv'
          /\ walk' # <<>> => walk'[1].object = data
          /\ walk' = <<>> => ~Circular(H, data)
        BY <1>1, <2>1, StartWalkStep
    <2>3. case.parents # <<>>
        BY <1>3 DEF Range
    <2>4. data \in Given(case)
        BY <1>3, <1>7, <2>3 DEF Given
    <2>5. MergingInv'
        BY <1>1, <1>5, <1>6, <2>2 DEF MergingInv, UnderWay
    <2> QED BY <1>1, <1>4, <2>2, <2>4, <2>5 DEF DataInv
<1>8. CASE ~Succeeded(case, p)
    <2>1. walk' = <<>>
        BY <1>1, <1>8 DEF NextParent, walkVars
    <2>2. MergingInv'
        BY <1>1, <1>5, <1>6, <1>8 DEF MergingInv
    <2> QED BY <1>1, <1>4, <2>1, <2>2 DEF DataInv
<1> QED
    BY <1>7, <1>8

LEMMA WalkStep ==
    ASSUME DataInv, SkipPrimitive \/ EnterObject \/ ReturnValid
    PROVE  DataInv'
<1>1. /\ walk # <<>> /\ WalkInv /\ case \in CaseType
      /\ walk[1].object \in Given(case)
      /\ case' = case /\ pending' = pending /\ merged' = merged /\ built' = built /\ H' = H
    BY DEF SkipPrimitive, EnterObject, ReturnValid, DataInv, H
<1>2. pending # NoCase /\ merged = NoCase
    BY <1>1 DEF DataInv, PendingInv, AnswerInv
<1>3. /\ WalkInv'
      /\ walk' # <<>> => walk'[1].object = walk[1].object
      /\ walk' = <<>> => ~Circular(H, walk[1].object)
    BY <1>1, SkipPrimitiveStep, EnterObjectStep, ReturnValidStep
<1>4. \A d : Waiting(d)' <=> Waiting(d)
    BY <1>1 DEF Waiting
<1>5. MergingInv'
    BY <1>1, <1>2, <1>3, <1>4 DEF DataInv, MergingInv, UnderWay
<1>6. PendingInv' /\ AnswerInv' /\ BuiltInv'
    BY <1>1, <1>2 DEF DataInv, PendingInv, AnswerInv, BuiltInv
<1> QED
    BY <1>1, <1>3, <1>5, <1>6 DEF DataInv

LEMMA RefuseStep == DataInv /\ RefuseObject => DataInv'
<1> SUFFICES ASSUME DataInv, RefuseObject PROVE DataInv'
    OBVIOUS
<1>1. /\ walk # <<>> /\ WalkInv /\ case \in CaseType
      /\ walk[1].object \in Given(case)
      /\ case' = case /\ pending' = pending /\ built' = built /\ H' = H
      /\ walk' = <<>> /\ merged' = Error /\ merged' # NoCase
    BY DataAssumption DEF RefuseObject, DataInv, H
<1>2. ~IsTree(H, walk[1].object)
    BY <1>1, RefusedIsNoTree
<1>3. PendingInv' /\ MergingInv'
    BY <1>1 DEF DataInv, PendingInv, MergingInv, AnswerInv
<1>4. AnswerInv'
    BY <1>1, <1>2 DEF AnswerInv
<1> QED
    BY <1>1, <1>3, <1>4 DEF DataInv, BuiltInv

LEMMA DataGoesOn == DataInv /\ [Prepare]_dataVars => DataInv'
<1> SUFFICES ASSUME DataInv, [Prepare]_dataVars PROVE DataInv'
    OBVIOUS
<1>1. CASE MergeAll
    <2>1. /\ case' = case /\ pending' = pending /\ walk' = walk /\ built' = built /\ H' = H
          /\ merged' = Merge(case) /\ merged = NoCase /\ walk = <<>> /\ pending = <<>>
          /\ pending # NoCase
        BY <1>1 DEF MergeAll, Merging, walkVars, H
    <2>2. \A d \in Given(case) : ~Circular(H, d)
        BY <2>1 DEF DataInv, MergingInv, Waiting, UnderWay, Range
    <2>3. Blank \notin Range(case.parents)
        BY <2>1 DEF DataInv, MergingInv
    <2>4. PendingInv' /\ BuiltInv'
        BY <2>1 DEF DataInv, PendingInv, BuiltInv
    <2>5. MergingInv' /\ AnswerInv'
        BY <2>1, <2>2, <2>3 DEF MergingInv, AnswerInv
    <2> QED BY <2>1, <2>4, <2>5 DEF DataInv
<1>2. CASE Build \/ UNCHANGED dataVars
    <2>1. /\ case' = case /\ pending' = pending /\ seen' = seen /\ walk' = walk
          /\ merged' = merged /\ H' = H /\ P' = P
        BY <1>2 DEF Build, dataVars, walkVars, H, P
    <2>2. WalkInv => WalkInv'
        <3>1. Checked' = Checked /\ \A o, k : LookedAt(o, k)' <=> LookedAt(o, k)
            BY <2>1 DEF Checked, InWalk, LookedAt
        <3>2. CallsInv => CallsInv'
            BY <2>1 DEF CallsInv, Call
        <3>3. CheckedInv => CheckedInv'
            BY <2>1, <3>1 DEF CheckedInv
        <3>4. FieldsInv => FieldsInv'
            BY <2>1, <3>1 DEF FieldsInv
        <3>5. SeenInv => SeenInv'
            BY <2>1, <3>1 DEF SeenInv
        <3> QED BY <3>2, <3>3, <3>4, <3>5 DEF WalkInv
    <2>3. /\ PendingInv => PendingInv'
          /\ MergingInv => MergingInv'
          /\ AnswerInv => AnswerInv'
        BY <2>1 DEF PendingInv, MergingInv, AnswerInv, Waiting, UnderWay
    <2>4. BuiltInv => BuiltInv'
        BY <1>2, <2>1 DEF BuiltInv, Build, dataVars
    <2> QED BY <2>1, <2>2, <2>3, <2>4 DEF DataInv
<1> QED
    BY <1>1, <1>2, BeginStep, NextParentStep, WalkStep, RefuseStep DEF Prepare

\* In every state of mergeParentInputs what its walk has left behind is on no
\* cycle, and its verdict fits the parents looked at so far.
THEOREM DataIsSound == DataSpec => []DataInv
BY DataStarts, DataGoesOn, PTL DEF DataSpec

\* Circular data of any depth and of any parent is refused; data that is a tree is
\* not, and the answer is then the one mergeParentInputs promises.
THEOREM DataCheckIsExact == DataSpec => []DataChecked
<1>1. DataInv => DataChecked
    BY DEF DataInv, AnswerInv, DataChecked, H
<1> QED
    BY <1>1, DataIsSound, PTL

\* Where mergeParentInputs has an answer, the engine's own form gives the same.
LEMMA FormsAgree ==
    ASSUME NEW c \in CaseType, Blank \notin Range(c.parents),
           c.parents # <<>> => \A p \in Range(c.parents) : Succeeded(c, p),
           ~(Len(c.parents) = 1 /\ Merge(c).data = Undefined)
    PROVE  BuildNodeInputData(c) = Merge(c)
<1>1. c.parents \in Seq(ParentIds)
    BY DEF CaseType
<1>2. CASE c.parents = <<>>
    BY <1>2 DEF Merge, BuildNodeInputData
<1>3. CASE c.parents # <<>>
    <2>1. {p \in Range(c.parents) : p # Blank /\ Succeeded(c, p)} = Range(c.parents)
        BY <1>3
    <2>2. CASE Len(c.parents) = 1
        <3>1. c.parents[1] \in Range(c.parents)
            BY <1>1, <2>2 DEF Range
        <3>2. Merge(c) = Value(c.results[c.parents[1]].data)
            BY <1>3, <2>2 DEF Merge
        <3>3. c.results[c.parents[1]].data # Undefined
            BY <2>2, <3>2 DEF Value
        <3> QED BY <2>1, <2>2, <3>1, <3>2, <3>3 DEF BuildNodeInputData
    <2>3. CASE Len(c.parents) # 1
        <3>1. Len(c.parents) \in Nat /\ Len(c.parents) > 1
            BY <1>1, <1>3, <2>3, EmptySeq, SMTT(30)
        <3>2. Merge(c) = Keyed(c, Range(c.parents))
            BY <1>3, <2>3 DEF Merge
        <3> DEFINE counting == {p \in Range(c.parents) : p # Blank /\ Succeeded(c, p)}
        <3>3. BuildNodeInputData(c) = Keyed(c, counting)
            BY <2>3, <3>1 DEF BuildNodeInputData
        <3> QED BY <2>1, <3>2, <3>3
    <2> QED BY <2>2, <2>3
<1> QED
    BY <1>2, <1>3

\* Where mergeParentInputs has an answer, the engine's buildNodeInputData gives the
\* same, but for one parent whose data is undefined.
THEOREM InputFormsAgree == DataSpec => []InputsAgree
<1>1. DataInv => InputsAgree
    <2> SUFFICES ASSUME DataInv, built # NoCase, merged # Error,
                        ~(Len(case.parents) = 1 /\ merged.data = Undefined)
                 PROVE  built = merged
        BY DEF InputsAgree
    <2>1. /\ case \in CaseType /\ built = BuildNodeInputData(case)
          /\ merged = Merge(case) /\ Blank \notin Range(case.parents)
        BY DEF DataInv, BuiltInv, AnswerInv
    <2>2. case.parents # <<>> => \A p \in Range(case.parents) : Succeeded(case, p)
        BY <2>1 DEF Merge
    <2> QED BY <2>1, <2>2, FormsAgree
<1> QED
    BY <1>1, DataIsSound, PTL

=============================================================================
