-------------------------- MODULE MCEngineShutdown --------------------------
(***************************************************************************)
(* The workflow of the run of EngineShutdown: a diamond in which a may     *)
(* select either branch or both, b may fail and c may throw.               *)
(***************************************************************************)
EXTENDS EngineShutdown

Success(next) == [kind |-> "success", next |-> next]
Failure == [kind |-> "failure", next |-> {}]
Throw == [kind |-> "throw", next |-> {}]

DiamondNodes == {"a", "b", "c", "d"}
DiamondInputs == [n \in DiamondNodes |->
    CASE n = "a" -> {} [] n \in {"b", "c"} -> {"a"} [] n = "d" -> {"b", "c"}]
DiamondOutputs == [n \in DiamondNodes |->
    CASE n = "a" -> <<"b", "c">> [] n \in {"b", "c"} -> <<"d">> [] n = "d" -> <<>>]
DiamondBehaviour == [n \in DiamondNodes |->
    CASE n = "a" -> {Success({"b", "c"}), Success({"b"}), Success({"c"})}
      [] n = "b" -> {Success({"d"}), Failure, Throw}
      [] n = "c" -> {Success({"d"}), Throw}
      [] n = "d" -> {Success({})}]

=============================================================================
