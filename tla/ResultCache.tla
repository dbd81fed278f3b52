----------------------------- MODULE ResultCache -----------------------------
(***************************************************************************)
(* Node results in DrizzleExecutionStateStore: a database row per node and *)
(* one Redis hash for the results of an execution, which expires as a      *)
(* whole.  The engine's workers, on any number of hosts, are the clients.  *)
(* What a result says does not matter here: the n-th result written for a  *)
(* node is the number n, and 0 is the absence of a result.                 *)
(***************************************************************************)
EXTENDS Integers, FiniteSets

CONSTANTS
    Nodes,       \* nodes of the execution
    Clients,     \* calls that may be under way at a time
    Operations,  \* ways a result is written, out of OperationNames
    MaxWrites,   \* bound on the results written for a node
    Faults,      \* faults that may happen, out of FaultKinds
    MaxFaults    \* bound on their number

\* updateNodeResult, cacheNodeResult and handlePermanentFailure
OperationNames == {"update", "cache", "failure"}

\* "cache": a Redis command fails, and the error is caught and logged;
\* "crash": the process of the client dies.
FaultKinds == {"cache", "crash"}

ASSUME ResultCacheAssumption ==
    /\ Operations \subseteq OperationNames
    /\ MaxWrites \in Nat
    /\ Faults \subseteq FaultKinds
    /\ MaxFaults \in Nat

VARIABLES
    row,        \* the node_results table
    hash,       \* the Redis hash results:<execution>
    expiring,   \* the hash has a TTL
    pc,         \* where a client is in its call
    wanted,     \* the nodes its call is about
    fetched,    \* the nodes a read has from the table
    got,        \* results a read has found so far, or the one just written
    known,      \* rows when the read began (observation only)
    persists,   \* an EXPIRE was lost (observation only)
    faults      \* faults that have happened (bound only)

vars == <<row, hash, expiring, pc, wanted, fetched, got, known,
          persists, faults>>

Labels == {"idle", "hmget", "select", "populate", "return",
           "hdel", "hdel then hset", "hset", "expire"}
Nothing == [n \in Nodes |-> 0]

Init ==
    /\ row = Nothing
    /\ hash = Nothing
    /\ expiring = FALSE
    /\ pc = [c \in Clients |-> "idle"]
    /\ wanted = [c \in Clients |-> {}]
    /\ fetched = [c \in Clients |-> {}]
    /\ got = [c \in Clients |-> Nothing]
    /\ known = [c \in Clients |-> Nothing]
    /\ persists = FALSE
    /\ faults = 0

Goto(c, label) == pc' = [pc EXCEPT ![c] = label]

Fault(kind) ==
    /\ kind \in Faults
    /\ faults < MaxFaults
    /\ faults' = faults + 1

-----------------------------------------------------------------------------
(***************************************************************************)
(* getNodeResults                                                          *)
(***************************************************************************)
StartRead(c, nodes) ==
    /\ pc[c] = "idle"
    /\ Goto(c, "hmget")
    /\ wanted' = [wanted EXCEPT ![c] = nodes]
    /\ got' = [got EXCEPT ![c] = Nothing]
    /\ known' = [known EXCEPT ![c] = row]
    /\ UNCHANGED <<row, hash, expiring, fetched, persists, faults>>

Misses(c, found) == {n \in wanted[c] : found[n] = 0}

\* Wrong: the nodes count as looked up although the cache did not answer.
ReadHashOrNothing(c) ==
    /\ pc[c] = "hmget"
    /\ \/ /\ got' = [got EXCEPT ![c] = hash]
          /\ Goto(c, IF Misses(c, got'[c]) = {} THEN "return" ELSE "select")
          /\ UNCHANGED faults
       \/ /\ Fault("cache")
          /\ Goto(c, "return")
          /\ UNCHANGED got
    /\ UNCHANGED <<row, hash, expiring, wanted, fetched, known, persists>>

\* One HMGET; if it fails, every node counts as a miss.
ReadHash(c) ==
    /\ pc[c] = "hmget"
    /\ \/ /\ got' = [got EXCEPT ![c] = hash]
          /\ UNCHANGED faults
       \/ /\ Fault("cache")
          /\ UNCHANGED got
    /\ Goto(c, IF Misses(c, got'[c]) = {} THEN "return" ELSE "select")
    /\ UNCHANGED <<row, hash, expiring, wanted, fetched, known, persists>>

\* One query for the misses.
SelectRows(c) ==
    /\ pc[c] = "select"
    /\ fetched' = [fetched EXCEPT ![c] = {n \in Misses(c, got[c]) : row[n] # 0}]
    /\ got' = [got EXCEPT ![c] =
          [n \in Nodes |-> IF n \in Misses(c, got[c]) THEN row[n] ELSE @[n]]]
    /\ Goto(c, IF fetched'[c] = {} THEN "return" ELSE "populate")
    /\ UNCHANGED <<row, hash, expiring, wanted, known, persists, faults>>

\* The pipeline of HSETs and EXPIRE for the rows the query returned.
Populate(c) ==
    /\ pc[c] = "populate"
    /\ \/ /\ hash' = [n \in Nodes |-> IF n \in fetched[c] THEN got[c][n] ELSE hash[n]]
          /\ expiring' = TRUE
          /\ UNCHANGED faults
       \/ /\ Fault("cache")
          /\ UNCHANGED <<hash, expiring>>
    /\ fetched' = [fetched EXCEPT ![c] = {}]
    /\ Goto(c, "return")
    /\ UNCHANGED <<row, wanted, got, known, persists>>

\* The call leaves nothing behind.
Forget(c) ==
    /\ Goto(c, "idle")
    /\ wanted' = [wanted EXCEPT ![c] = {}]
    /\ fetched' = [fetched EXCEPT ![c] = {}]
    /\ got' = [got EXCEPT ![c] = Nothing]
    /\ known' = [known EXCEPT ![c] = Nothing]

Return(c) ==
    /\ pc[c] = "return"
    /\ Forget(c)
    /\ UNCHANGED <<row, hash, expiring, persists, faults>>

-----------------------------------------------------------------------------
(***************************************************************************)
(* updateNodeResult, cacheNodeResult and handlePermanentFailure            *)
(***************************************************************************)
\* What follows the upsert: the transaction of handlePermanentFailure leaves
\* the cache alone.
AfterUpsert(operation) ==
    CASE operation = "update" -> "hdel"
      [] operation = "cache" -> "hdel then hset"
      [] operation = "failure" -> "return"

\* Wrong: cacheNodeResult writes the cache and leaves the table for later.
CacheOnly(c, n, operation) ==
    /\ pc[c] = "idle"
    /\ row[n] < MaxWrites
    /\ hash' = [hash EXCEPT ![n] = row[n] + 1]
    /\ expiring' = TRUE
    /\ UNCHANGED <<row, pc, wanted, fetched, got, known, persists, faults>>

\* INSERT ... ON CONFLICT DO UPDATE
Upsert(c, n, operation) ==
    /\ pc[c] = "idle"
    /\ row[n] < MaxWrites
    /\ row' = [row EXCEPT ![n] = @ + 1]
    /\ wanted' = [wanted EXCEPT ![c] = {n}]
    /\ got' = [got EXCEPT ![c] = [Nothing EXCEPT ![n] = row'[n]]]
    /\ Goto(c, AfterUpsert(operation))
    /\ UNCHANGED <<hash, expiring, fetched, known, persists, faults>>

\* HDEL; a hash without fields does not exist, and so has no TTL.
Invalidate(c) ==
    /\ pc[c] \in {"hdel", "hdel then hset"}
    /\ \/ /\ hash' = [n \in Nodes |-> IF n \in wanted[c] THEN 0 ELSE hash[n]]
          /\ expiring' = (expiring /\ hash' # Nothing)
          /\ UNCHANGED faults
       \/ /\ Fault("cache")
          /\ UNCHANGED <<hash, expiring>>
    /\ Goto(c, IF pc[c] = "hdel" THEN "return" ELSE "hset")
    /\ UNCHANGED <<row, wanted, fetched, got, known, persists>>

\* HSET of the result just written, as long as that may have taken.
Put(c) ==
    /\ pc[c] = "hset"
    /\ \/ /\ hash' = [n \in Nodes |-> IF n \in wanted[c] THEN got[c][n] ELSE hash[n]]
          /\ Goto(c, "expire")
          /\ UNCHANGED faults
       \/ /\ Fault("cache")
          /\ Goto(c, "return")
          /\ UNCHANGED hash
    /\ UNCHANGED <<row, expiring, wanted, fetched, got, known, persists>>

\* Wrong: the hash keeps the TTL it has, or none.
LeaveTTL(c) ==
    /\ pc[c] = "expire"
    /\ Goto(c, "return")
    /\ UNCHANGED <<row, hash, expiring, wanted, fetched, got, known, persists, faults>>

\* EXPIRE is a command of its own: if it fails, a new hash has no TTL.
SetTTL(c) ==
    /\ pc[c] = "expire"
    /\ \/ /\ expiring' = (hash # Nothing)
          /\ UNCHANGED <<persists, faults>>
       \/ /\ Fault("cache")
          /\ persists' = TRUE
          /\ UNCHANGED expiring
    /\ Goto(c, "return")
    /\ UNCHANGED <<row, hash, wanted, fetched, got, known>>

-----------------------------------------------------------------------------
\* The TTL of the hash runs out.
Expire ==
    /\ expiring
    /\ hash' = Nothing
    /\ expiring' = FALSE
    /\ UNCHANGED <<row, pc, wanted, fetched, got, known, persists, faults>>

Crash(c) ==
    /\ pc[c] # "idle"
    /\ Fault("crash")
    /\ Forget(c)
    /\ persists' = (persists \/ pc[c] = "expire")
    /\ UNCHANGED <<row, hash, expiring>>

Step(c) ==
    \/ ReadHash(c) \/ SelectRows(c) \/ Populate(c) \/ Return(c)
    \/ Invalidate(c) \/ Put(c) \/ SetTTL(c)

Next ==
    \/ \E c \in Clients :
          \/ \E nodes \in SUBSET Nodes \ {{}} : StartRead(c, nodes)
          \/ \E n \in Nodes, operation \in Operations : Upsert(c, n, operation)
          \/ Step(c)
          \/ Crash(c)
    \/ Expire

Spec == Init /\ [][Next]_vars

\* Calls that have begun go on, and Redis expires what has a TTL.
FairSpec ==
    /\ Spec
    /\ \A c \in Clients : WF_vars(Step(c))
    /\ WF_vars(Expire)

-----------------------------------------------------------------------------
(***************************************************************************)
(* Properties                                                              *)
(***************************************************************************)
\* A hash without fields does not exist and has no TTL, and a read keeps no
\* more than it asked for.
TypeOK ==
    /\ row \in [Nodes -> Nat]
    /\ hash \in [Nodes -> Nat]
    /\ expiring \in BOOLEAN
    /\ pc \in [Clients -> Labels]
    /\ wanted \in [Clients -> SUBSET Nodes]
    /\ fetched \in [Clients -> SUBSET Nodes]
    /\ got \in [Clients -> [Nodes -> Nat]]
    /\ known \in [Clients -> [Nodes -> Nat]]
    /\ persists \in BOOLEAN
    /\ faults \in Nat

\* The readiness check of a join relies on this: a read returns a result for
\* every node that had one when the read began, whatever writers, expiry and
\* failures of the cache do meanwhile.
ReadSeesStored ==
    \A c \in Clients : pc[c] = "return" =>
        \A n \in wanted[c] : known[c][n] # 0 => got[c][n] # 0

\* "Database is always the source of truth": neither the cache nor a reader has
\* a result of a node that the table did not have before.
CacheNeverAhead ==
    /\ \A n \in Nodes : hash[n] <= row[n]
    /\ \A c \in Clients, n \in Nodes : got[c][n] <= row[n]

Coherent == \A n \in Nodes : hash[n] \in {0, row[n]}

\* A stale entry does not outlive the TTL: once the nodes are not written any
\* more the cache agrees with the table for good, unless an EXPIRE was lost.
StalenessEnds == <>[](Coherent \/ persists)

=============================================================================
