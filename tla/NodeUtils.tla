----------------------------- MODULE NodeUtils -----------------------------
(***************************************************************************)
(* What a node gets to work on: mergeParentInputs of engine/node-utils.ts  *)
(* with its validateInputData, and buildNodeInputData of the execution     *)
(* handler, the form the engine runs.  Data is a primitive value or an     *)
(* object of a heap, whose fields may lead anywhere, back included.  The   *)
(* behaviours take one case through both, a call of validateInputData at a *)
(* time.                                                                   *)
(***************************************************************************)
EXTENDS Integers, FiniteSets, Sequences, Functions, Paths

CONSTANTS
    Cases,      \* heap, inputData, parents and results of the nodes
    Objects,    \* objects of a heap; a heap gives each its sequence of fields
    Primitives, \* values that are no objects
    Undefined,  \* of them, the value undefined
    ParentIds,  \* ids of parents
    Blank,      \* of them, one without a character that is no space
    Missing,    \* no result
    NoCase      \* nothing looked at yet

VARIABLES
    case,
    pending,    \* parents mergeParentInputs has still to look at
    seen,       \* the set seen of the validation under way
    walk,       \* its calls: the object of each, and the number of its fields looked at
    merged,     \* what mergeParentInputs returns
    built       \* what buildNodeInputData returns

walkVars == <<seen, walk>>
dataVars == <<case, pending, walkVars, merged, built>>

-----------------------------------------------------------------------------
(***************************************************************************)
(* An answer is one value, or an object keyed by parents, or an error.     *)
(***************************************************************************)
NoKeys == [p \in {} |-> Undefined]
Value(data) == [kind |-> "value", data |-> data, keyed |-> NoKeys]
Error == [kind |-> "error", data |-> Undefined, keyed |-> NoKeys]

ASSUME DataAssumption ==
    /\ Objects \cap Primitives = {}
    /\ NoCase # Error /\ NoCase \notin Seq(ParentIds)
    /\ \A c \in Cases :
          /\ c.heap \in [Objects -> Seq(Objects \cup Primitives)]
          /\ c.parents \in Seq(ParentIds)

Succeeded(c, p) == c.results[p] # Missing /\ c.results[p].success

\* The parents' data, those of undefined left out.
Keyed(c, parents) ==
    [kind |-> "keyed", data |-> Undefined,
     keyed |-> [p \in {q \in parents : c.results[q].data # Undefined} |->
                    c.results[p].data]]

-----------------------------------------------------------------------------
(***************************************************************************)
(* validateInputData.  One set of seen objects goes through the whole      *)
(* walk, so an object that is met twice is refused, cycle or not.          *)
(***************************************************************************)
TopCall == walk[Len(walk)]
Fields(x) == case.heap[x]

\* Wrong: looks at the first field only.
HasMoreFirst == TopCall.at = 0 /\ Fields(TopCall.object) # <<>>

HasMore == TopCall.at < Len(Fields(TopCall.object))

Field == Fields(TopCall.object)[TopCall.at + 1]
PastField == [walk EXCEPT ![Len(walk)].at = @ + 1]

\* Primitive values are always valid.
StartWalk(data) ==
    /\ seen' = {data} \cap Objects
    /\ walk' = IF data \in Objects THEN <<[object |-> data, at |-> 0]>> ELSE <<>>

SkipPrimitive ==
    /\ walk # <<>> /\ HasMore /\ Field \notin Objects
    /\ walk' = PastField
    /\ UNCHANGED <<case, pending, seen, merged, built>>

EnterObject ==
    /\ walk # <<>> /\ HasMore /\ Field \in Objects \ seen
    /\ seen' = seen \cup {Field}
    /\ walk' = Append(PastField, [object |-> Field, at |-> 0])
    /\ UNCHANGED <<case, pending, merged, built>>

\* mergeParentInputs throws.
RefuseObject ==
    /\ walk # <<>> /\ HasMore /\ Field \in seen
    /\ walk' = <<>>
    /\ merged' = Error
    /\ UNCHANGED <<case, pending, seen, built>>

ReturnValid ==
    /\ walk # <<>> /\ ~HasMore
    /\ walk' = SubSeq(walk, 1, Len(walk) - 1)
    /\ UNCHANGED <<case, pending, seen, merged, built>>

-----------------------------------------------------------------------------
(***************************************************************************)
(* mergeParentInputs                                                       *)
(***************************************************************************)
DataInit ==
    /\ case \in Cases
    /\ pending = NoCase /\ seen = {} /\ walk = <<>>
    /\ merged = NoCase /\ built = NoCase

Begin ==
    /\ pending = NoCase
    /\ pending' = case.parents
    /\ IF case.parents = <<>> THEN StartWalk(case.inputData) ELSE UNCHANGED walkVars
    /\ merged' = IF Blank \in Range(case.parents) THEN Error ELSE merged
    /\ UNCHANGED <<case, built>>

Merging == pending # NoCase /\ merged = NoCase /\ walk = <<>>

\* A single parent without a success throws here, one of several at the end.
NextParent ==
    /\ Merging /\ pending # <<>>
    /\ pending' = Tail(pending)
    /\ IF Succeeded(case, Head(pending)) THEN StartWalk(case.results[Head(pending)].data)
       ELSE UNCHANGED walkVars
    /\ UNCHANGED <<case, merged, built>>

Merge(c) ==
    IF c.parents = <<>> THEN Value(c.inputData)
    ELSE IF \E p \in Range(c.parents) : ~Succeeded(c, p) THEN Error
    ELSE IF Len(c.parents) = 1 THEN Value(c.results[c.parents[1]].data)
    ELSE Keyed(c, Range(c.parents))

MergeAll ==
    /\ Merging /\ pending = <<>>
    /\ merged' = Merge(case)
    /\ UNCHANGED <<case, pending, walkVars, built>>

-----------------------------------------------------------------------------
(***************************************************************************)
(* buildNodeInputData                                                      *)
(***************************************************************************)
\* Wrong: the data of one parent is keyed as well.
BuildKeyed(c) ==
    IF c.parents = <<>> THEN Value(c.inputData)
    ELSE Keyed(c, {p \in Range(c.parents) : p # Blank /\ Succeeded(c, p)})

\* Parents without a success, skipped ones among them, do not count.
BuildNodeInputData(c) ==
    LET counting == {p \in Range(c.parents) : p # Blank /\ Succeeded(c, p)}
        only == c.parents[1]
    IN CASE Len(c.parents) > 1 -> Keyed(c, counting)
         [] Len(c.parents) = 1 /\ only \in counting
                               /\ c.results[only].data # Undefined ->
              Value(c.results[only].data)
         [] OTHER -> Value(c.inputData)

\* The two functions do not touch each other; here one goes first.
Build ==
    /\ merged # NoCase /\ built = NoCase
    /\ built' = BuildNodeInputData(case)
    /\ UNCHANGED <<case, pending, walkVars, merged>>

Prepare ==
    \/ Begin \/ NextParent \/ MergeAll \/ Build
    \/ SkipPrimitive \/ EnterObject \/ RefuseObject \/ ReturnValid

DataSpec == DataInit /\ [][Prepare]_dataVars

-----------------------------------------------------------------------------
(***************************************************************************)
(* What the fields say                                                     *)
(***************************************************************************)
\* The objects in the fields of an object.
Parts(heap) == [x \in Objects |-> Range(heap[x]) \cap Objects]

Within(heap, data) ==
    {x \in Objects : x = data \/ (data \in Objects /\ Leads(Parts(heap), data, x))}

Circular(heap, data) == \E x \in Within(heap, data) : Leads(Parts(heap), x, x)

\* Where an object within data has an object in a field.
Slots(heap, data) ==
    UNION {{<<x, k>> : k \in {f \in DOMAIN heap[x] : heap[x][f] \in Objects}} :
              x \in Within(heap, data)}

Held(heap, slot) == heap[slot[1]][slot[2]]

\* No object is in two fields, nor is the whole in one of its parts.
IsTree(heap, data) ==
    \A s, t \in Slots(heap, data) :
        /\ Held(heap, s) # data
        /\ Held(heap, s) = Held(heap, t) => s = t

\* What mergeParentInputs has to validate.
Given(c) ==
    IF c.parents = <<>> THEN {c.inputData}
    ELSE {c.results[p].data : p \in {q \in Range(c.parents) : Succeeded(c, q)}}

(***************************************************************************)
(* Properties                                                              *)
(***************************************************************************)
\* "Validates that input data is safe to process (no circular references)": a
\* cycle anywhere in the input data, or in the data of any parent, is found, and
\* where no data has shared parts and no parent is amiss there is an answer.
DataChecked ==
    merged # NoCase /\ Blank \notin Range(case.parents) =>
        /\ (\E data \in Given(case) : Circular(case.heap, data)) => merged = Error
        /\ (/\ \A data \in Given(case) : IsTree(case.heap, data)
            /\ \A p \in Range(case.parents) : Succeeded(case, p))
           => merged = Merge(case)

\* The two ways to put a node's input together agree: where mergeParentInputs has
\* an answer, the engine's own form gives the same, but for a single parent
\* whose data is undefined, in whose place the engine takes the input data.
InputsAgree ==
    (/\ built # NoCase /\ merged # Error
     /\ ~(Len(case.parents) = 1 /\ merged.data = Undefined)) => built = merged

=============================================================================
