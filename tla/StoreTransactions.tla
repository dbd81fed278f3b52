-------------------------- MODULE StoreTransactions --------------------------
(***************************************************************************)
(* The transactions of DrizzleExecutionStateStore on one execution, under  *)
(* PostgreSQL's default isolation level READ COMMITTED: a statement reads  *)
(* what is committed when it begins and what its own transaction wrote, a  *)
(* written row stays locked until the transaction ends, and a transaction  *)
(* that fails leaves nothing.  Calls of any processes overlap.             *)
(*                                                                         *)
(* All calls share a pool of connections.  A transaction keeps one from    *)
(* BEGIN to its end; getWorkflowVersion, although called inside the        *)
(* transaction, goes through this.db and needs another.                    *)
(***************************************************************************)
EXTENDS ExecutionStore

CONSTANTS
    Nodes,        \* node ids of the execution; totalNodes is their number
    Calls,        \* calls, each made at most once
    Operations,   \* what a call may be, a function into sets of OperationNames
    Connections   \* size of the pool of the postgres client

OperationNames == {"create", "failure", "completion", "timeout", "persist",
                   "status", "setTimeout", "clearTimeout"}

\* Calls that ask for a second connection inside their transaction.
Nested == {"create", "persist"}

WritesResults == {"failure", "completion", "persist"}

ASSUME TransactionAssumption ==
    /\ IsFiniteSet(Nodes)
    /\ IsFiniteSet(Calls)
    /\ Operations \in [Calls -> SUBSET OperationNames]
    /\ Connections \in Nat \ {0}

VARIABLES
    status, timeoutAt, timedOut, \* the executions row, "absent" before it exists
    rows,                        \* node_results: the result in each node's row
    dlqItems,                    \* failure calls whose dlq_items row is there
    logs,                        \* calls whose log entry is there
    pc,                          \* the statement a call comes to next
    call,                        \* what a call was asked for
    newStatus, newRows,          \* rows a transaction wrote, and keeps locked
    newItem, newLog,             \* transactions that inserted such a row
    overlapped                   \* completions that ran beside another writer of
                                 \* results (observation only)

table == <<status, timeoutAt, timedOut, rows, dlqItems, logs>>
written == <<newStatus, newRows, newItem, newLog>>
vars == <<table, pc, call, written, overlapped>>

NoRows == [n \in Nodes |-> "none"]
NoCall == [op |-> "none", nodes |-> {}, result |-> "none"]

\* Labels at which a call holds a connection.
Open == {"version", "select", "insert", "dlq", "result", "count", "judge",
         "update", "single", "log", "commit"}
Ended == {"committed", "aborted"}
Labels == {"idle", "find", "begin"} \cup Open \cup Ended

Init ==
    /\ status \in {"absent", "running"}
    /\ timeoutAt = "none"
    /\ timedOut = FALSE
    /\ rows = NoRows
    /\ dlqItems = {}
    /\ logs = {}
    /\ pc = [c \in Calls |-> "idle"]
    /\ call = [c \in Calls |-> NoCall]
    /\ newStatus = [c \in Calls |-> "none"]
    /\ newRows = [c \in Calls |-> NoRows]
    /\ newItem = {}
    /\ newLog = {}
    /\ overlapped = {}

Op(c) == call[c].op
Goto(c, label) == pc' = [pc EXCEPT ![c] = label]
Running == {c \in Calls : pc[c] \in Open}

FreeConnection == Cardinality(Running) < Connections

\* No other transaction keeps the row locked.
StatusUnlocked(c) == \A d \in Calls \ {c} : newStatus[d] = "none"
RowUnlocked(c, n) == \A d \in Calls \ {c} : newRows[d][n] = "none"

\* What a statement of c reads: committed rows, and those c wrote itself.
Seen(c) == [n \in Nodes |-> IF newRows[c][n] # "none" THEN newRows[c][n] ELSE rows[n]]

-----------------------------------------------------------------------------
(***************************************************************************)
(* Calls                                                                   *)
(***************************************************************************)
\* createExecution makes a new id; until it returns nobody else can name it.
\* Only persistCompleteExecution brings executions the table has not seen.
MayCall(op) ==
    /\ op = "create" => status = "absent" /\ \A d \in Calls : Op(d) = "none"
    /\ op \notin Nested => status # "absent"
    /\ op = "persist" => \A d \in Calls : Op(d) = "create" => pc[d] \in Ended

\* A complete state has a success for every node, or failures of some.
Arguments(op) ==
    {a \in [op : {op}, nodes : SUBSET Nodes, result : ResultKinds] :
        /\ op \notin WritesResults => a.nodes = {} /\ a.result = "none"
        /\ op \in WritesResults => a.result \in {"success", "failed"}
        /\ op = "failure" => a.result = "failed"
        /\ op \in {"failure", "completion"} => \E n \in Nodes : a.nodes = {n}
        /\ op = "persist" /\ a.result = "success" => a.nodes = Nodes}

Start(c) ==
    /\ pc[c] = "idle"
    /\ \E op \in Operations[c] :
          /\ MayCall(op)
          /\ \E argument \in Arguments(op) : call' = [call EXCEPT ![c] = argument]
          /\ Goto(c, IF op = "timeout" THEN "find" ELSE "begin")
    /\ UNCHANGED <<table, written, overlapped>>

\* findTimedOutExecutions, by the monitor that then handles what it found.
FindTimedOut(c) ==
    /\ pc[c] = "find"
    /\ FreeConnection
    /\ Goto(c, IF status = "running" /\ timeoutAt = "past" /\ ~timedOut
               THEN "begin" ELSE "committed")
    /\ UNCHANGED <<table, call, written, overlapped>>

First(op) ==
    CASE op \in Nested -> "version"
      [] op = "failure" -> "dlq"
      [] op = "completion" -> "result"
      [] op = "timeout" -> "update"
      [] op \in {"status", "setTimeout", "clearTimeout"} -> "single"

\* The pool hands out a connection.
Begin(c) ==
    /\ pc[c] = "begin"
    /\ FreeConnection
    /\ Goto(c, First(Op(c)))
    /\ LET others == {d \in Running : Op(d) \in WritesResults} IN
          overlapped' = IF Op(c) \in WritesResults /\ others # {}
                        THEN overlapped \cup others \cup {c} ELSE overlapped
    /\ UNCHANGED <<table, call, written>>

-----------------------------------------------------------------------------
(***************************************************************************)
(* Statements inside a transaction                                         *)
(***************************************************************************)
\* getWorkflowVersion: a query on a connection of its own.
ReadVersion(c) ==
    /\ pc[c] = "version"
    /\ FreeConnection
    /\ Goto(c, IF Op(c) = "create" THEN "insert" ELSE "select")
    /\ UNCHANGED <<table, call, written, overlapped>>

\* persistCompleteExecution decides between UPDATE and INSERT.
SelectExecution(c) ==
    /\ pc[c] = "select"
    /\ Goto(c, IF status = "absent" THEN "insert" ELSE "update")
    /\ UNCHANGED <<table, call, written, overlapped>>

\* The status a call ends the execution with; a timeout has no result.
EndStatus(c) == IF call[c].result = "success" THEN "completed" ELSE "failed"

\* INSERT INTO executions waits for another INSERT of the id to end.  If that
\* one was committed the unique constraint refuses this one: see Abort.
InsertExecution(c) ==
    /\ pc[c] = "insert"
    /\ StatusUnlocked(c)
    /\ status = "absent"
    /\ newStatus' = [newStatus EXCEPT
            ![c] = IF Op(c) = "create" THEN "running" ELSE EndStatus(c)]
    /\ Goto(c, IF Op(c) = "create" THEN "log" ELSE "result")
    /\ UNCHANGED <<table, call, newRows, newItem, newLog, overlapped>>

\* Wrong: the item is inserted through this.db instead of the transaction.
InsertDLQItemOutside(c) ==
    /\ pc[c] = "dlq"
    /\ dlqItems' = dlqItems \cup {c}
    /\ Goto(c, "result")
    /\ UNCHANGED <<status, timeoutAt, timedOut, rows, logs, call, written,
                   overlapped>>

InsertDLQItem(c) ==
    /\ pc[c] = "dlq"
    /\ newItem' = newItem \cup {c}
    /\ Goto(c, "result")
    /\ UNCHANGED <<table, call, newStatus, newRows, newLog, overlapped>>

\* INSERT ... ON CONFLICT DO UPDATE of one row; persistCompleteExecution has
\* one for every node of its state, in the order of the object's keys.
UpsertResult(c) ==
    /\ pc[c] = "result"
    /\ \E n \in {m \in call[c].nodes : newRows[c][m] = "none"} :
          /\ RowUnlocked(c, n)
          /\ newRows' = [newRows EXCEPT ![c][n] = call[c].result]
    /\ IF Op(c) = "persist" THEN UNCHANGED pc
       ELSE Goto(c, IF Op(c) = "failure" THEN "log" ELSE "count")
    /\ UNCHANGED <<table, call, newStatus, newItem, newLog, overlapped>>

ResultsPersisted(c) ==
    /\ pc[c] = "result"
    /\ Op(c) = "persist"
    /\ \A n \in call[c].nodes : newRows[c][n] # "none"
    /\ Goto(c, "log")
    /\ UNCHANGED <<table, call, written, overlapped>>

\* Wrong: the count is of what is committed, without the result just written.
CountCommitted(c) ==
    /\ pc[c] = "count"
    /\ Goto(c, IF PendingNodeCount(rows) = 0 THEN "judge" ELSE "commit")
    /\ UNCHANGED <<table, call, written, overlapped>>

\* Wrong: the caller's own node is counted as pending.
CountAllButOne(c) ==
    /\ pc[c] = "count"
    /\ Goto(c, IF PendingNodeCount(Seen(c)) <= 1 THEN "judge" ELSE "commit")
    /\ UNCHANGED <<table, call, written, overlapped>>

CountResults(c) ==
    /\ pc[c] = "count"
    /\ Goto(c, IF PendingNodeCount(Seen(c)) = 0 THEN "judge" ELSE "commit")
    /\ UNCHANGED <<table, call, written, overlapped>>

\* The select of failed rows fixes the status that the update will write.
SelectFailed(c) ==
    /\ pc[c] = "judge"
    /\ call' = [call EXCEPT ![c].result =
            IF \E n \in Nodes : Seen(c)[n] = "failed" THEN "failed" ELSE "success"]
    /\ Goto(c, "update")
    /\ UNCHANGED <<table, written, overlapped>>

\* UPDATE executions, without a condition on the old status.
UpdateExecution(c) ==
    /\ pc[c] = "update"
    /\ StatusUnlocked(c)
    /\ newStatus' = [newStatus EXCEPT ![c] = EndStatus(c)]
    /\ Goto(c, IF Op(c) = "persist" THEN "result" ELSE "log")
    /\ UNCHANGED <<table, call, newRows, newItem, newLog, overlapped>>

\* Wrong: the log goes through this.db, which needs a second connection.
InsertLogOutside(c) ==
    /\ pc[c] = "log"
    /\ FreeConnection
    /\ logs' = logs \cup {c}
    /\ Goto(c, "commit")
    /\ UNCHANGED <<status, timeoutAt, timedOut, rows, dlqItems, call, written,
                   overlapped>>

InsertLog(c) ==
    /\ pc[c] = "log"
    /\ newLog' = newLog \cup {c}
    /\ Goto(c, "commit")
    /\ UNCHANGED <<table, call, newStatus, newRows, newItem, overlapped>>

-----------------------------------------------------------------------------
(***************************************************************************)
(* How a transaction ends                                                  *)
(***************************************************************************)
Discard(c) ==
    /\ newStatus' = [newStatus EXCEPT ![c] = "none"]
    /\ newRows' = [newRows EXCEPT ![c] = NoRows]
    /\ newItem' = newItem \ {c}
    /\ newLog' = newLog \ {c}

Commit(c) ==
    /\ pc[c] = "commit"
    /\ status' = IF newStatus[c] # "none" THEN newStatus[c] ELSE status
    /\ timedOut' = (timedOut \/ Op(c) = "timeout")
    /\ rows' = Seen(c)
    /\ dlqItems' = dlqItems \cup (newItem \cap {c})
    /\ logs' = logs \cup (newLog \cap {c})
    /\ Discard(c)
    /\ Goto(c, "committed")
    /\ UNCHANGED <<timeoutAt, call, overlapped>>

\* A statement fails or the process or its connection goes: PostgreSQL rolls
\* the transaction back and the call rejects.
Abort(c) ==
    /\ pc[c] \in Open
    /\ Discard(c)
    /\ Goto(c, "aborted")
    /\ UNCHANGED <<table, call, overlapped>>

\* The rows the statement of c waits for, and who keeps them.
Awaits(c) ==
    {d \in Calls \ {c} :
        \/ pc[c] \in {"update", "insert", "single"} /\ newStatus[d] # "none"
        \/ /\ pc[c] = "result"
           /\ \E n \in call[c].nodes : newRows[c][n] = "none" /\ newRows[d][n] # "none"}

\* The deadlock detector of PostgreSQL, for calls that wait for each other, and
\* the unique constraint on execution_id, for a row that has come in between.
RefusedByDatabase(c) ==
    \/ /\ pc[c] \in Open
       /\ \E S \in SUBSET Calls :
             /\ c \in S
             /\ \A d \in S : Awaits(d) \cap S # {} /\ \E e \in S : d \in Awaits(e)
    \/ pc[c] = "insert" /\ status # "absent"

Refuse(c) == RefusedByDatabase(c) /\ Abort(c)

-----------------------------------------------------------------------------
(***************************************************************************)
(* Single statements, which commit at once                                 *)
(***************************************************************************)
SetStatus(c) ==
    /\ pc[c] = "single" /\ Op(c) = "status"
    /\ StatusUnlocked(c)
    /\ \E new \in {"cancelled", "paused"} :
          status' = SetExecutionStatus(TRUE, status, new)
    /\ Goto(c, "committed")
    /\ UNCHANGED <<timeoutAt, timedOut, rows, dlqItems, logs, call, written,
                   overlapped>>

SetExecutionTimeout(c) ==
    /\ pc[c] = "single" /\ Op(c) = "setTimeout"
    /\ StatusUnlocked(c)
    /\ timeoutAt' = "future"
    /\ Goto(c, "committed")
    /\ UNCHANGED <<status, timedOut, rows, dlqItems, logs, call, written, overlapped>>

ClearExecutionTimeout(c) ==
    /\ pc[c] = "single" /\ Op(c) = "clearTimeout"
    /\ StatusUnlocked(c)
    /\ timeoutAt' = "none"
    /\ timedOut' = FALSE
    /\ Goto(c, "committed")
    /\ UNCHANGED <<status, rows, dlqItems, logs, call, written, overlapped>>

\* The clock passes timeoutAt.
TimePasses ==
    /\ timeoutAt = "future"
    /\ timeoutAt' = "past"
    /\ UNCHANGED <<status, timedOut, rows, dlqItems, logs, pc, call, written,
                   overlapped>>

-----------------------------------------------------------------------------
Step(c) ==
    \/ FindTimedOut(c) \/ Begin(c) \/ ReadVersion(c) \/ SelectExecution(c)
    \/ InsertExecution(c) \/ InsertDLQItem(c) \/ UpsertResult(c)
    \/ ResultsPersisted(c) \/ CountResults(c) \/ SelectFailed(c)
    \/ UpdateExecution(c) \/ InsertLog(c) \/ Commit(c)
    \/ SetStatus(c) \/ SetExecutionTimeout(c) \/ ClearExecutionTimeout(c)

Next ==
    \/ \E c \in Calls : Start(c) \/ Step(c) \/ Refuse(c) \/ Abort(c)
    \/ TimePasses

Spec == Init /\ [][Next]_vars

\* The client sends the next statement, the database runs it and lets go of a
\* deadlock.  A failure (Abort) may come or not.
Fairness == \A c \in Calls : WF_vars(Step(c)) /\ WF_vars(Refuse(c))

FairSpec == Spec /\ Fairness

-----------------------------------------------------------------------------
(***************************************************************************)
(* Properties                                                              *)
(***************************************************************************)
\* handlePermanentFailure, "Atomic DLQ entry + node result + error log":
\* whatever fails and whoever writes the same row, a dead-letter item and the
\* error log come together, and with a result of the node.
FailuresAreWhole ==
    \A c \in Calls :
        Op(c) = "failure" =>
            /\ c \in dlqItems <=> c \in logs
            /\ c \in dlqItems => \A n \in call[c].nodes : rows[n] # "none"

\* updateNodeResultWithCompletion counts inside its transaction: 'completed' is
\* never committed before the results of all nodes, whoever rolls back.
CompletedHasAllResults ==
    status = "completed" => \A n \in Nodes : rows[n] # "none"

\* A completion that writes the last result, with no other writer of results
\* beside it, ends the execution, whatever was begun before or waits for it.
\* (Two completions beside each other may both miss the other's result.)
AloneCompletes ==
    [][\A c \in Calls :
          (/\ Op(c) = "completion" /\ c \notin overlapped
           /\ pc[c] = "commit" /\ pc'[c] = "committed"
           /\ \A n \in Nodes : rows'[n] # "none")
             => status' \in {"completed", "failed"}]_vars

\* Transactions that lock a result and then the execution, others that lock
\* them the other way round, and a pool that all of them share: every call
\* returns, with its effect or with an error.
EveryCallReturns ==
    \A c \in Calls : (pc[c] # "idle") ~> (pc[c] \in Ended)

=============================================================================
