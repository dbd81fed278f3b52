------------------------------- MODULE Paths -------------------------------
(***************************************************************************)
(* Paths in a directed graph: next takes each vertex to the set of those   *)
(* its edges lead to.                                                      *)
(***************************************************************************)

\* No edge leaves S.
Closed(next, S) == \A v \in S : next[v] \subseteq S

\* A path of one edge or more leads from v to w: whatever set holds the next of v
\* and is left by no edge, w is in it.
Leads(next, v, w) ==
    \A S \in SUBSET DOMAIN next : next[v] \subseteq S /\ Closed(next, S) => w \in S

Acyclic(next) == \A v \in DOMAIN next : ~Leads(next, v, v)

=============================================================================
