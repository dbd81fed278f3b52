------------------------ MODULE MCStoreTransactions ------------------------
(***************************************************************************)
(* Which calls overlap in the run of StoreTransactions.                    *)
(***************************************************************************)
EXTENDS StoreTransactions

CONSTANTS c1, c2, c3

\* Completions beside each other and beside every other kind of call; two calls
\* may be nested, so a third connection always serves one of them.
VOperations == [c \in Calls |->
    CASE c = c1 -> {"create", "completion", "persist"}
      [] c = c2 -> {"completion", "failure", "setTimeout"}
      [] c = c3 -> {"persist", "status", "timeout", "clearTimeout"}]

=============================================================================
