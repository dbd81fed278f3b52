--------------------------- MODULE MCSynchronous ---------------------------
(***************************************************************************)
(* The cases of the run of the code that awaits nothing: validation, the   *)
(* preparation of a node's input, and the in-memory store's bookkeeping.   *)
(* A behaviour is one of one of the three.                                 *)
(* For GraphValidation, workflows of up to three nodes with unique and     *)
(* repeated ids, up to two outputs, references to a node that is not there *)
(* ("g"), inputs that agree with the outputs or do not, with and without   *)
(* an entry node and triggers.                                             *)
(* For NodeUtils, every heap of three objects with up to two fields each,  *)
(* and every result of up to two parents, with plain, circular and         *)
(* undefined data.                                                         *)
(* For InMemoryStore, room for two of three executions.                    *)
(***************************************************************************)
EXTENDS GraphValidation, NodeUtils, InMemoryStore

CONSTANTS x, y, z, Plain

VIds == {<<>>, <<"a">>, <<"a", "b">>, <<"a", "b", "c">>, <<"a", "b", "a">>, <<"a", "a", "b">>}

\* No output, one, two in the order of the nodes, or the first two in the other.
VOutputs(ids) == {<<>>, <<"b", "a">>, <<"g">>}
    \cup {<<id>> : id \in Range(ids)}
    \cup {<<ids[i], ids[j]>> : <<i, j>> \in {e \in (DOMAIN ids) \X (DOMAIN ids) : e[1] < e[2]}}

Agreeing(ids, outputs) ==
    [i \in DOMAIN ids |-> {ids[j] : j \in {k \in DOMAIN ids : ids[i] \in Range(outputs[k])}}]

VInputs(ids, outputs) ==
    {Agreeing(ids, outputs), [i \in DOMAIN ids |-> {"g"}]}

VEntries == {<<"none", TRUE>>, <<"none", FALSE>>, <<"a", FALSE>>, <<"b", FALSE>>, <<"g", TRUE>>}

VGraphs == UNION {{ids} \X [DOMAIN ids -> VOutputs(ids)] : ids \in VIds}

VWorkflows == UNION {
    {[nodes |-> [i \in DOMAIN g[1] |->
                   [id |-> g[1][i], inputs |-> inputs[i], outputs |-> g[2][i]]],
      entryNodeId |-> entry[1],
      triggers |-> entry[2]] :
        inputs \in VInputs(g[1], g[2]), entry \in VEntries} : g \in VGraphs}

-----------------------------------------------------------------------------
VHeaps == [Objects -> {<<>>} \cup [1 .. 1 -> Objects \cup {Plain}]
                             \cup [1 .. 2 -> Objects \cup {Plain}]]

VParents == {"p", "q"}
NoResults == [p \in VParents |-> Missing]
DataCases ==
    [heap : VHeaps, inputData : {x}, parents : {<<>>}, results : {NoResults}]

VResults == {Missing} \cup [success : BOOLEAN, data : {x, Plain, Undefined}]
Loop == [o \in Objects |-> IF o = x THEN <<y, x>> ELSE <<>>]
ParentCases ==
    [heap : {Loop}, inputData : {x, y, Undefined},
     parents : {<<"p">>, <<"p", "q">>, <<"q", "p">>, <<"p", Blank>>, <<Blank>>},
     results : [VParents -> VResults]]

VCases == DataCases \cup ParentCases

NoValidation ==
    /\ workflow = NoCase /\ phase = "cycle" /\ start = 0 /\ visited = {}
    /\ stack = <<>> /\ cycle = <<>> /\ queue = <<>> /\ reachable = {}

NoData ==
    /\ case = NoCase /\ pending = NoCase /\ seen = {} /\ walk = <<>>
    /\ merged = NoCase /\ built = NoCase

\* The store is empty before its first call, and stays so in the other behaviours.
SynchronousInit ==
    /\ Init
    /\ \/ ValidationInit /\ NoData
       \/ DataInit /\ NoValidation
       \/ NoValidation /\ NoData

SynchronousNext ==
    \/ /\ workflow # NoCase
       /\ Validate
       /\ UNCHANGED <<dataVars, vars>>
    \/ /\ case # NoCase
       /\ Prepare
       /\ UNCHANGED <<validationVars, vars>>
    \/ /\ workflow = NoCase /\ case = NoCase
       /\ Next
       /\ UNCHANGED <<validationVars, dataVars>>

SynchronousSpec ==
    SynchronousInit /\ [][SynchronousNext]_<<validationVars, dataVars, vars>>

=============================================================================
