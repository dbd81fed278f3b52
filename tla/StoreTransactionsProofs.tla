---------------------- MODULE StoreTransactionsProofs ----------------------
(***************************************************************************)
(* What holds of StoreTransactions for any number of nodes, calls and      *)
(* connections, whichever transactions overlap and whichever fail.         *)
(***************************************************************************)
EXTENDS StoreTransactions, FiniteSetTheorems, TLAPS

Types ==
    /\ rows \in [Nodes -> ResultKinds]
    /\ pc \in [Calls -> Labels]
    /\ call \in [Calls -> [op : OperationNames \cup {"none"}, nodes : SUBSET Nodes,
                           result : ResultKinds]]
    /\ newStatus \in [Calls -> Statuses \cup {"none"}]
    /\ newRows \in [Calls -> [Nodes -> ResultKinds]]

AllSeen(c) == \A n \in Nodes : Seen(c)[n] # "none"
Written(c) == \A n \in call[c].nodes : newRows[c][n] # "none"

\* Which operation is at which statement, and with which argument.
AskedFor(c) ==
    /\ pc[c] # "idle" => Op(c) \in OperationNames
    /\ pc[c] \in {"version", "insert"} => Op(c) \in Nested
    /\ pc[c] = "select" => Op(c) = "persist"
    /\ pc[c] = "dlq" => Op(c) = "failure"
    /\ pc[c] \in {"count", "judge"} => Op(c) = "completion"
    /\ pc[c] = "result" => Op(c) \in WritesResults
    /\ pc[c] = "update" => Op(c) \in {"timeout", "persist", "completion"}
    /\ Op(c) \in WritesResults => call[c].result \in {"success", "failed"}
    /\ Op(c) = "persist" /\ call[c].result = "success" => call[c].nodes = Nodes
    /\ Op(c) = "failure" => \E n \in Nodes : call[c].nodes = {n}
    /\ Op(c) = "timeout" => call[c].result = "none"

\* A transaction that completes the execution has seen, or will write, a result
\* of every node: rows are never removed, so that still holds when it commits.
Completes(c) ==
    /\ pc[c] = "judge" => AllSeen(c)
    /\ pc[c] = "update" /\ Op(c) = "completion" => AllSeen(c)
    /\ newStatus[c] = "completed" =>
          /\ pc[c] \in {"log", "commit"} \/ (pc[c] = "result" /\ Op(c) = "persist")
          /\ \/ AllSeen(c)
             \/ Op(c) = "persist" /\ call[c].nodes = Nodes

\* What a transaction has written by the time it comes to a statement.
HasWritten(c) ==
    /\ pc[c] \in {"log", "commit"} /\ Op(c) \in {"persist", "failure"} => Written(c)
    /\ pc[c] \in {"result", "log", "commit"} /\ Op(c) = "failure" => c \in newItem
    /\ pc[c] = "commit" /\ Op(c) = "failure" => c \in newLog

\* Nothing of a call is in the tables before it has committed.
Whole(c) ==
    /\ c \in dlqItems \cup logs => pc[c] = "committed"
    /\ Op(c) = "failure" =>
          /\ c \in dlqItems <=> c \in logs
          /\ c \in dlqItems => \A n \in call[c].nodes : rows[n] # "none"

CallInv(c) == AskedFor(c) /\ Completes(c) /\ HasWritten(c) /\ Whole(c)

TransactionInv ==
    /\ Types
    /\ \A c \in Calls : CallInv(c)
    /\ CompletedHasAllResults

-----------------------------------------------------------------------------
(***************************************************************************)
(* Types                                                                   *)
(***************************************************************************)
LEMMA NoRowsType == NoRows \in [Nodes -> ResultKinds]
BY DEF NoRows, ResultKinds

LEMMA SeenType == ASSUME Types, NEW c \in Calls PROVE Seen(c) \in [Nodes -> ResultKinds]
BY DEF Types, Seen

LEMMA GotoType ==
    ASSUME Types, NEW c \in Calls, NEW label \in Labels, Goto(c, label)
    PROVE  pc' \in [Calls -> Labels]
BY DEF Types, Goto

LEMMA DiscardType ==
    ASSUME Types, NEW c \in Calls, Discard(c)
    PROVE  /\ newStatus' \in [Calls -> Statuses \cup {"none"}]
           /\ newRows' \in [Calls -> [Nodes -> ResultKinds]]
BY NoRowsType DEF Types, Discard

LEMMA ArgumentTypes ==
    ASSUME NEW op \in OperationNames, NEW argument \in Arguments(op)
    PROVE  /\ argument \in [op : OperationNames \cup {"none"}, nodes : SUBSET Nodes,
                            result : ResultKinds]
           /\ argument.op = op
           /\ op \in WritesResults => argument.result \in {"success", "failed"}
           /\ op = "persist" /\ argument.result = "success" => argument.nodes = Nodes
           /\ op = "failure" => \E n \in Nodes : argument.nodes = {n}
           /\ op = "timeout" => argument.result = "none"
BY DEF Arguments, WritesResults

LEMMA TypesInitial == Init => Types
BY NoRowsType DEF Init, Types, NoCall, Labels, Statuses, ResultKinds

LEMMA FirstStatement ==
    ASSUME NEW op \in OperationNames
    PROVE  /\ First(op) \in {"version", "dlq", "result", "update", "single"}
           /\ First(op) = "version" => op \in Nested
           /\ First(op) = "dlq" => op = "failure"
           /\ First(op) = "result" => op = "completion"
           /\ First(op) = "update" => op = "timeout"
<1> USE DEF First, Nested, WritesResults
<1>1. CASE op \in Nested
    BY <1>1
<1>2. CASE op = "failure"
    BY <1>2
<1>3. CASE op = "completion"
    BY <1>3
<1>4. CASE op = "timeout"
    BY <1>4
<1>5. CASE op \in {"status", "setTimeout", "clearTimeout"}
    BY <1>5
<1> QED
    BY <1>1, <1>2, <1>3, <1>4, <1>5 DEF OperationNames

\* What Start, Step and Abort do to the typed variables.
LEMMA TypesStep ==
    ASSUME Types, NEW c \in Calls, AskedFor(c), Start(c) \/ Step(c) \/ Abort(c)
    PROVE  Types'
<1> USE DEF Labels, Open, Ended
<1>1. CASE Start(c)
  <2>1. PICK op \in Operations[c] :
            /\ \E argument \in Arguments(op) : call' = [call EXCEPT ![c] = argument]
            /\ Goto(c, IF op = "timeout" THEN "find" ELSE "begin")
      BY <1>1 DEF Start
  <2>2. op \in OperationNames
      BY TransactionAssumption
  <2>3. call' \in [Calls -> [op : OperationNames \cup {"none"}, nodes : SUBSET Nodes,
                           result : ResultKinds]]
      BY <2>1, <2>2, ArgumentTypes DEF Types
  <2>4. pc' \in [Calls -> Labels]
      BY <2>1, GotoType
  <2> QED
      BY <1>1, <2>3, <2>4 DEF Start, Types, table, written
<1>2. CASE FindTimedOut(c) \/ ReadVersion(c) \/ SelectExecution(c) \/ ResultsPersisted(c)
           \/ CountResults(c)
    BY <1>2 DEF FindTimedOut, ReadVersion, SelectExecution, ResultsPersisted,
                CountResults, Types, Goto, table, written
<1>3. CASE Begin(c)
  <2>1. First(Op(c)) \in Labels
      BY <1>3, FirstStatement DEF Begin, AskedFor
  <2> QED
      BY <1>3, <2>1, GotoType DEF Begin, Types, table, written
<1>4. CASE InsertExecution(c)
    BY <1>4 DEF InsertExecution, EndStatus, Types, Goto, table, written, Statuses
<1>5. CASE InsertDLQItem(c) \/ InsertLog(c)
    BY <1>5 DEF InsertDLQItem, InsertLog, Types, Goto, table
<1>6. CASE UpsertResult(c)
  <2>1. PICK n \in Nodes : newRows' = [newRows EXCEPT ![c][n] = call[c].result]
      BY <1>6 DEF UpsertResult, Types
  <2>2. newRows' \in [Calls -> [Nodes -> ResultKinds]]
      BY <2>1 DEF Types
  <2>3. pc' \in [Calls -> Labels]
      BY <1>6 DEF UpsertResult, Types, Goto
  <2> QED
      BY <1>6, <2>2, <2>3 DEF UpsertResult, Types, table
<1>7. CASE SelectFailed(c)
  <2>1. PICK verdict \in {"failed", "success"} :
            call' = [call EXCEPT ![c].result = verdict]
      BY <1>7, Zenon DEF SelectFailed
  <2>2. call' \in [Calls -> [op : OperationNames \cup {"none"}, nodes : SUBSET Nodes,
                           result : ResultKinds]]
    <3>1. verdict \in ResultKinds
        BY DEF ResultKinds
    <3> QED
        BY <2>1, <3>1 DEF Types
  <2> QED
      BY <1>7, <2>2, GotoType DEF SelectFailed, Types, table, written
<1>8. CASE UpdateExecution(c)
    BY <1>8 DEF UpdateExecution, EndStatus, Types, Goto, table, Statuses
<1>9. CASE Commit(c)
  <2>1. rows' \in [Nodes -> ResultKinds]
      BY <1>9, SeenType DEF Commit
  <2> QED
      BY <1>9, <2>1, DiscardType, GotoType DEF Commit, Types
<1>10. CASE SetStatus(c) \/ SetExecutionTimeout(c) \/ ClearExecutionTimeout(c)
    BY <1>10 DEF SetStatus, SetExecutionTimeout, ClearExecutionTimeout, Types, Goto, written
<1>11. CASE Abort(c)
    BY <1>11, DiscardType, GotoType DEF Abort, Types, table
<1> QED
    BY <1>1, <1>2, <1>3, <1>4, <1>5, <1>6, <1>7, <1>8, <1>9, <1>10, <1>11 DEF Step

-----------------------------------------------------------------------------
(***************************************************************************)
(* A call leaves what the others have alone, and removes no row.           *)
(***************************************************************************)
Untouched(d) ==
    /\ pc'[d] = pc[d] /\ call'[d] = call[d]
    /\ newStatus'[d] = newStatus[d] /\ newRows'[d] = newRows[d]
    /\ d \in newItem' <=> d \in newItem
    /\ d \in newLog' <=> d \in newLog
    /\ d \in dlqItems' <=> d \in dlqItems
    /\ d \in logs' <=> d \in logs

RowsKept == \A n \in Nodes : rows[n] # "none" => rows'[n] # "none"

LEMMA StepUntouched ==
    ASSUME Types, NEW c \in Calls, Start(c) \/ Step(c) \/ Abort(c),
           NEW d \in Calls \ {c}
    PROVE  Untouched(d)
<1> USE DEF Types, Untouched, Goto, table, written
<1>1. CASE Start(c)
    BY <1>1, Zenon DEF Start
<1>2. CASE FindTimedOut(c) \/ Begin(c) \/ ReadVersion(c) \/ SelectExecution(c)
    BY <1>2 DEF FindTimedOut, Begin, ReadVersion, SelectExecution
<1>3. CASE InsertExecution(c) \/ InsertDLQItem(c) \/ UpdateExecution(c) \/ InsertLog(c)
    BY <1>3 DEF InsertExecution, InsertDLQItem, UpdateExecution, InsertLog
<1>4. CASE UpsertResult(c)
    BY <1>4 DEF UpsertResult
<1>5. CASE ResultsPersisted(c) \/ CountResults(c)
    BY <1>5 DEF ResultsPersisted, CountResults
<1>6. CASE SelectFailed(c)
    BY <1>6, Zenon DEF SelectFailed
<1>7. CASE Commit(c) \/ Abort(c)
    BY <1>7 DEF Commit, Abort, Discard
<1>8. CASE SetStatus(c) \/ SetExecutionTimeout(c) \/ ClearExecutionTimeout(c)
    BY <1>8 DEF SetStatus, SetExecutionTimeout, ClearExecutionTimeout
<1> QED
    BY <1>1, <1>2, <1>3, <1>4, <1>5, <1>6, <1>7, <1>8 DEF Step

LEMMA StepKeepsRows ==
    ASSUME Types, NEW c \in Calls, Start(c) \/ Step(c) \/ Abort(c)
    PROVE  RowsKept
<1>1. CASE Commit(c)
    BY <1>1 DEF Commit, Seen, RowsKept
<1>2. CASE ~Commit(c)
  <2>1. rows' = rows
      BY <1>2 DEF Start, Step, Abort, FindTimedOut, Begin, ReadVersion, SelectExecution,
                  InsertExecution, InsertDLQItem, UpsertResult, ResultsPersisted,
                  CountResults, SelectFailed, UpdateExecution, InsertLog, SetStatus,
                  SetExecutionTimeout, ClearExecutionTimeout, table
  <2> QED
      BY <2>1 DEF RowsKept
<1> QED
    BY <1>1, <1>2

\* What holds of a call goes on to hold while others move.
LEMMA OthersKept ==
    ASSUME Types, NEW d \in Calls, CallInv(d), Untouched(d), RowsKept
    PROVE  CallInv(d)'
<1> USE DEF Untouched
<1>1. AllSeen(d) => AllSeen(d)'
    BY DEF AllSeen, Seen, RowsKept
<1>2. AskedFor(d)'
    BY DEF CallInv, AskedFor, Op
<1>3. Completes(d)'
    BY <1>1 DEF CallInv, Completes, Op
<1>4. HasWritten(d)'
    BY DEF CallInv, HasWritten, Written, Op
<1>5. \A n \in call[d].nodes : rows[n] # "none" => rows'[n] # "none"
    BY DEF RowsKept, Types
<1>6. Whole(d)'
    BY <1>5 DEF CallInv, Whole, Op
<1> QED
    BY <1>2, <1>3, <1>4, <1>6 DEF CallInv

-----------------------------------------------------------------------------
(***************************************************************************)
(* A call's own steps                                                      *)
(***************************************************************************)
LEMMA NothingPending ==
    ASSUME NEW f \in [Nodes -> ResultKinds], PendingNodeCount(f) = 0
    PROVE  \A n \in Nodes : f[n] # "none"
<1> DEFINE Done == {n \in Nodes : f[n] # "none"}
<1>1. IsFiniteSet(Nodes)
    BY TransactionAssumption
<1>2. Cardinality(Nodes) \in Nat /\ Cardinality(Done) \in Nat
    BY <1>1, FS_Subset, FS_CardinalityType
<1>3. Cardinality(Nodes) - Cardinality(Done) = 0
    BY DEF PendingNodeCount
<1>4. Done = Nodes
    BY <1>1, <1>2, <1>3, FS_Subset
<1> QED
    BY <1>4

LEMMA StartKeeps ==
    ASSUME Types, NEW c \in Calls, CallInv(c), Start(c)
    PROVE  CallInv(c)'
<1>0. PICK op \in Operations[c] :
          /\ \E argument \in Arguments(op) : call' = [call EXCEPT ![c] = argument]
          /\ Goto(c, IF op = "timeout" THEN "find" ELSE "begin")
    BY DEF Start
<1>1. PICK argument \in Arguments(op) : call' = [call EXCEPT ![c] = argument]
    BY <1>0
<1>2. op \in OperationNames
    BY TransactionAssumption
<1>3. pc[c] = "idle" /\ pc'[c] \in {"find", "begin"}
    BY <1>0 DEF Start, Types, Goto
<1>4. call'[c] = argument
    BY <1>1 DEF Types
<1>5. AskedFor(c)'
    BY <1>2, <1>3, <1>4, ArgumentTypes DEF AskedFor, Op
<1>6. newStatus'[c] # "completed" /\ c \notin dlqItems' \cup logs'
    BY <1>3 DEF Start, CallInv, Completes, Whole, table, written
<1> QED
    BY <1>3, <1>5, <1>6 DEF CallInv, Completes, HasWritten, Whole

\* Steps that write nothing and keep the call as it is.
LEMMA ReadKeeps ==
    ASSUME Types, NEW c \in Calls, CallInv(c),
           \/ FindTimedOut(c) \/ Begin(c) \/ ReadVersion(c) \/ SelectExecution(c)
           \/ ResultsPersisted(c) \/ CountResults(c)
    PROVE  CallInv(c)'
<1>1. UNCHANGED <<table, call, written>>
    BY DEF FindTimedOut, Begin, ReadVersion, SelectExecution, ResultsPersisted, CountResults
<1>2. /\ AllSeen(c)' = AllSeen(c) /\ Written(c)' = Written(c) /\ Op(c)' = Op(c)
      /\ call'[c] = call[c] /\ newStatus'[c] = newStatus[c]
    BY <1>1 DEF AllSeen, Seen, Written, Op, table, written
<1>3. c \notin dlqItems \cup logs
    BY DEF FindTimedOut, Begin, ReadVersion, SelectExecution, ResultsPersisted,
           CountResults, CallInv, Whole
<1>4. Whole(c)'
    BY <1>1, <1>3 DEF Whole, table
<1> USE DEF Types, Goto, CallInv, AskedFor, Completes, HasWritten
<1>5. CASE FindTimedOut(c)
  <2>1. pc[c] = "find" /\ pc'[c] \in {"begin", "committed"}
      BY <1>5 DEF FindTimedOut
  <2> QED
      BY <1>1, <1>2, <1>4, <2>1
<1>6. CASE Begin(c)
  <2>1. pc[c] = "begin" /\ pc'[c] = First(Op(c))
      BY <1>6 DEF Begin
  <2>2. Op(c) \in OperationNames
      BY <2>1
  <2>3. AskedFor(c)'
      BY <1>2, <2>1, <2>2, FirstStatement DEF WritesResults
  <2> QED
      BY <1>2, <1>4, <2>1, <2>2, <2>3, FirstStatement
<1>7. CASE ReadVersion(c)
  <2>1. /\ pc[c] = "version" /\ pc'[c] \in {"insert", "select"}
        /\ pc'[c] = "select" => Op(c) # "create"
      BY <1>7 DEF ReadVersion
  <2> QED
      BY <1>1, <1>2, <1>4, <2>1 DEF Nested
<1>8. CASE SelectExecution(c)
  <2>1. pc[c] = "select" /\ pc'[c] \in {"insert", "update"}
      BY <1>8 DEF SelectExecution
  <2> QED
      BY <1>1, <1>2, <1>4, <2>1 DEF Nested
<1>9. CASE ResultsPersisted(c)
  <2>1. pc[c] = "result" /\ pc'[c] = "log" /\ Op(c) = "persist" /\ Written(c)
      BY <1>9 DEF ResultsPersisted, Written
  <2> QED
      BY <1>1, <1>2, <1>4, <2>1
<1>10. CASE CountResults(c)
  <2>1. /\ pc[c] = "count"
        /\ \/ pc'[c] = "judge" /\ PendingNodeCount(Seen(c)) = 0
           \/ pc'[c] = "commit"
      BY <1>10 DEF CountResults
  <2>2. pc'[c] = "judge" => AllSeen(c)
      BY <2>1, SeenType, NothingPending DEF AllSeen
  <2> QED
      BY <1>1, <1>2, <1>4, <2>1, <2>2
<1> QED
    BY <1>5, <1>6, <1>7, <1>8, <1>9, <1>10

\* Steps that write rows, which only their own transaction sees.
LEMMA WriteKeeps ==
    ASSUME Types, NEW c \in Calls, CallInv(c),
           \/ InsertExecution(c) \/ InsertDLQItem(c) \/ UpsertResult(c)
           \/ SelectFailed(c) \/ UpdateExecution(c) \/ InsertLog(c)
    PROVE  CallInv(c)'
<1>1. UNCHANGED table /\ c \notin dlqItems \cup logs
    BY DEF InsertExecution, InsertDLQItem, UpsertResult, SelectFailed, UpdateExecution,
           InsertLog, CallInv, Whole
<1>2. Whole(c)'
    BY <1>1 DEF Whole, table
<1> USE DEF Types, Goto, CallInv, AskedFor, Completes, HasWritten
<1>3. CASE InsertExecution(c)
  <2>1. /\ pc[c] = "insert" /\ UNCHANGED <<rows, call, newRows, newItem, newLog>>
        /\ newStatus'[c] = "completed" =>
              Op(c) = "persist" /\ call[c].result = "success"
        /\ pc'[c] = IF Op(c) = "create" THEN "log" ELSE "result"
      BY <1>3 DEF InsertExecution, EndStatus, table, Nested
  <2> QED
      BY <1>2, <2>1 DEF Op, Nested, WritesResults
<1>4. CASE InsertDLQItem(c)
  <2>1. /\ pc[c] = "dlq" /\ pc'[c] = "result" /\ c \in newItem'
        /\ UNCHANGED <<rows, call, newStatus, newRows>>
      BY <1>4 DEF InsertDLQItem, table
  <2> QED
      BY <1>2, <2>1 DEF Op, WritesResults
<1>5. CASE UpsertResult(c)
  <2>1. PICK n \in call[c].nodes : newRows' = [newRows EXCEPT ![c][n] = call[c].result]
      BY <1>5 DEF UpsertResult
  <2>2. /\ pc[c] = "result" /\ UNCHANGED <<rows, call, newStatus, newItem, newLog>>
        /\ pc'[c] = IF Op(c) = "persist" THEN "result"
                    ELSE IF Op(c) = "failure" THEN "log" ELSE "count"
      BY <1>5 DEF UpsertResult, table
  <2>3. call[c].result # "none"
      BY <2>2
  <2>4. \A m \in Nodes : newRows'[c][m] = IF m = n THEN call[c].result ELSE newRows[c][m]
      BY <2>1
  <2>5. AllSeen(c) => AllSeen(c)'
      BY <2>2, <2>3, <2>4 DEF AllSeen, Seen
  <2>6. Op(c) = "failure" => Written(c)'
      BY <2>1, <2>2, <2>3, <2>4 DEF Written
  <2>7. AskedFor(c)'
      BY <2>2 DEF Op, WritesResults
  <2> QED
      BY <1>2, <2>2, <2>5, <2>6, <2>7 DEF Op
<1>6. CASE SelectFailed(c)
  <2>1. /\ pc[c] = "judge" /\ pc'[c] = "update" /\ Op(c) = "completion"
        /\ UNCHANGED <<rows, newStatus, newRows, newItem, newLog>>
      BY <1>6 DEF SelectFailed, table, written
  <2>2. PICK verdict \in {"failed", "success"} : call' = [call EXCEPT ![c].result = verdict]
      BY <1>6, Zenon DEF SelectFailed
  <2>3. call'[c].op = "completion" /\ call'[c].result \in {"failed", "success"}
      BY <2>1, <2>2 DEF Op
  <2>4. AllSeen(c)'
      BY <2>1 DEF AllSeen, Seen
  <2> QED
      BY <1>2, <2>1, <2>3, <2>4 DEF Op, WritesResults
<1>7. CASE UpdateExecution(c)
  <2>1. /\ pc[c] = "update" /\ UNCHANGED <<rows, call, newRows, newItem, newLog>>
        /\ newStatus'[c] = "completed" => call[c].result = "success"
        /\ pc'[c] = IF Op(c) = "persist" THEN "result" ELSE "log"
      BY <1>7 DEF UpdateExecution, EndStatus, table
  <2>2. AllSeen(c)' = AllSeen(c) /\ Op(c)' = Op(c)
      BY <2>1 DEF AllSeen, Seen, Op
  <2>3. Op(c) \in {"timeout", "persist", "completion"}
      BY <2>1
  <2>4. AskedFor(c)'
      BY <2>1, <2>2, <2>3 DEF WritesResults
  <2>5. Completes(c)'
    <3>1. newStatus'[c] = "completed" =>
             \/ Op(c) = "completion" /\ AllSeen(c)
             \/ Op(c) = "persist" /\ call[c].nodes = Nodes
        BY <2>1, <2>3
    <3>2. pc'[c] = "log" \/ (pc'[c] = "result" /\ Op(c) = "persist")
        BY <2>1
    <3> QED
        BY <2>1, <2>2, <3>1, <3>2
  <2>6. HasWritten(c)'
      BY <2>1, <2>2, <2>3
  <2> QED
      BY <1>2, <2>4, <2>5, <2>6
<1>8. CASE InsertLog(c)
  <2>1. /\ pc[c] = "log" /\ pc'[c] = "commit" /\ c \in newLog'
        /\ UNCHANGED <<rows, call, newStatus, newRows, newItem>>
      BY <1>8 DEF InsertLog, table
  <2>2. AllSeen(c)' = AllSeen(c) /\ Written(c)' = Written(c)
      BY <2>1 DEF AllSeen, Seen, Written
  <2> QED
      BY <1>2, <2>1, <2>2 DEF Op
<1> QED
    BY <1>3, <1>4, <1>5, <1>6, <1>7, <1>8

\* Steps that end a call.
LEMMA EndKeeps ==
    ASSUME Types, NEW c \in Calls, CallInv(c),
           \/ Commit(c) \/ Abort(c)
           \/ SetStatus(c) \/ SetExecutionTimeout(c) \/ ClearExecutionTimeout(c)
    PROVE  CallInv(c)'
<1>1. UNCHANGED call /\ pc'[c] \in Ended /\ (pc'[c] = "aborted" => Abort(c))
    BY DEF Commit, Abort, SetStatus, SetExecutionTimeout, ClearExecutionTimeout, Types,
           Goto, Ended
<1>2. AskedFor(c)'
    BY <1>1 DEF CallInv, AskedFor, Op, Ended, Commit, Abort, SetStatus,
                SetExecutionTimeout, ClearExecutionTimeout, Open, Types
<1>3. c \notin dlqItems \cup logs
    BY DEF Commit, Abort, SetStatus, SetExecutionTimeout, ClearExecutionTimeout, Open,
           CallInv, Whole
<1>4. newStatus'[c] # "completed"
  <2>1. CASE Commit(c) \/ Abort(c)
      BY <2>1 DEF Commit, Abort, Discard, Types
  <2>2. CASE SetStatus(c) \/ SetExecutionTimeout(c) \/ ClearExecutionTimeout(c)
      BY <2>2 DEF SetStatus, SetExecutionTimeout, ClearExecutionTimeout, written,
                  CallInv, Completes
  <2> QED
      BY <2>1, <2>2
<1>5. Whole(c)'
  <2>1. CASE Commit(c)
    <3>1. Op(c) = "failure" => c \in newItem /\ c \in newLog /\ Written(c)
        BY <2>1 DEF Commit, CallInv, HasWritten
    <3>2. Written(c) => \A n \in call[c].nodes : rows'[n] # "none"
        BY <2>1 DEF Commit, Written, Seen, Types
    <3> QED
        BY <2>1, <3>1, <3>2 DEF Commit, Whole, Op, Goto, Types
  <2>2. CASE ~Commit(c)
    <3>1. UNCHANGED <<dlqItems, logs>>
        BY <2>2 DEF Abort, SetStatus, SetExecutionTimeout, ClearExecutionTimeout, table
    <3> QED
        BY <1>3, <3>1 DEF Whole
  <2> QED
      BY <2>1, <2>2
<1> QED
    BY <1>1, <1>2, <1>4, <1>5 DEF CallInv, Completes, HasWritten, Ended

LEMMA OwnStepKeeps ==
    ASSUME Types, NEW c \in Calls, CallInv(c), Start(c) \/ Step(c) \/ Abort(c)
    PROVE  CallInv(c)'
BY StartKeeps, ReadKeeps, WriteKeeps, EndKeeps DEF Step

LEMMA CompletionKept ==
    ASSUME TransactionInv, NEW c \in Calls, Start(c) \/ Step(c) \/ Abort(c)
    PROVE  CompletedHasAllResults'
<1> SUFFICES ASSUME status' = "completed"
             PROVE  \A n \in Nodes : rows'[n] # "none"
    BY DEF CompletedHasAllResults
<1>1. Types /\ CallInv(c)
    BY DEF TransactionInv
<1>2. CASE status = "completed"
    BY <1>1, <1>2, StepKeepsRows DEF RowsKept, TransactionInv, CompletedHasAllResults
<1>3. CASE Commit(c) /\ status # "completed"
  <2>1. newStatus[c] = "completed" /\ pc[c] = "commit" /\ rows' = Seen(c)
      BY <1>3 DEF Commit
  <2>2. CASE Op(c) = "persist" /\ call[c].nodes = Nodes
      BY <1>1, <2>1, <2>2 DEF CallInv, HasWritten, Written, Seen
  <2>3. CASE AllSeen(c)
      BY <2>1, <2>3 DEF AllSeen
  <2> QED
      BY <1>1, <2>1, <2>2, <2>3 DEF CallInv, Completes
<1>4. CASE ~Commit(c) /\ status # "completed"
    BY <1>4 DEF Start, Step, Abort, FindTimedOut, Begin, ReadVersion, SelectExecution,
                InsertExecution, InsertDLQItem, UpsertResult, ResultsPersisted,
                CountResults, SelectFailed, UpdateExecution, InsertLog, SetStatus,
                SetExecutionStatus, SetExecutionTimeout, ClearExecutionTimeout, table
<1> QED
    BY <1>2, <1>3, <1>4

-----------------------------------------------------------------------------
(***************************************************************************)
(* The invariant and what follows from it                                  *)
(***************************************************************************)
LEMMA InvInitial == Init => TransactionInv
<1> SUFFICES ASSUME Init PROVE TransactionInv
    OBVIOUS
<1>1. Types /\ status # "completed"
    BY TypesInitial DEF Init
<1>2. ASSUME NEW c \in Calls PROVE CallInv(c)
  <2>1. pc[c] = "idle" /\ Op(c) = "none" /\ newStatus[c] = "none" /\ c \notin dlqItems \cup logs
      BY DEF Init, Op, NoCall
  <2> QED
      BY <2>1 DEF CallInv, AskedFor, Completes, HasWritten, Whole, WritesResults
<1> QED
    BY <1>1, <1>2 DEF TransactionInv, CompletedHasAllResults

LEMMA InvKept == TransactionInv /\ [Next]_vars => TransactionInv'
<1> SUFFICES ASSUME TransactionInv, [Next]_vars PROVE TransactionInv'
    OBVIOUS
<1>1. ASSUME NEW c \in Calls, Start(c) \/ Step(c) \/ Abort(c) PROVE TransactionInv'
  <2>1. Types /\ AskedFor(c) /\ \A d \in Calls : CallInv(d)
      BY DEF TransactionInv, CallInv
  <2>2. Types'
      BY <1>1, <2>1, TypesStep
  <2>3. ASSUME NEW d \in Calls PROVE CallInv(d)'
    <3>1. CASE d = c
        BY <1>1, <2>1, <3>1, OwnStepKeeps
    <3>2. CASE d # c
      <4>1. Untouched(d) /\ RowsKept
          BY <1>1, <2>1, <3>2, StepUntouched, StepKeepsRows
      <4> QED
          BY <2>1, <4>1, OthersKept
    <3> QED
        BY <3>1, <3>2
  <2> QED
      BY <1>1, <2>2, <2>3, CompletionKept DEF TransactionInv
<1>2. CASE TimePasses \/ UNCHANGED vars
  <2>1. UNCHANGED <<status, rows, dlqItems, logs, pc, call, written>>
      BY <1>2 DEF TimePasses, vars, table
  <2>2. Types' /\ CompletedHasAllResults'
      BY <2>1 DEF TransactionInv, Types, CompletedHasAllResults, written
  <2>3. ASSUME NEW d \in Calls PROVE CallInv(d)'
    <3>1. Untouched(d) /\ RowsKept
        BY <2>1 DEF Untouched, RowsKept, written
    <3> QED
        BY <3>1, OthersKept DEF TransactionInv
  <2> QED
      BY <2>2, <2>3 DEF TransactionInv
<1> QED
    BY <1>1, <1>2 DEF Next, Refuse

LEMMA InvHolds == Spec => []TransactionInv
<1> QED
    BY InvInitial, InvKept, PTL DEF Spec

\* handlePermanentFailure stores a failure whole: however many calls overlap on
\* however many nodes, and whichever of them the database or the client ends,
\* a dead-letter item, its error log and a result of the node come together.
THEOREM FailuresStoredWhole == Spec => []FailuresAreWhole
<1>1. TransactionInv => FailuresAreWhole
    BY DEF TransactionInv, CallInv, Whole, FailuresAreWhole
<1> QED
    BY <1>1, InvHolds, PTL

\* updateNodeResultWithCompletion never commits 'completed' before every node
\* has a committed result: the count is of rows that nobody removes, and its
\* own result is committed with the status or not at all.
THEOREM CompletionCountsAll == Spec => []CompletedHasAllResults
<1>1. TransactionInv => CompletedHasAllResults
    BY DEF TransactionInv
<1> QED
    BY <1>1, InvHolds, PTL

-----------------------------------------------------------------------------
(***************************************************************************)
(* A completion that runs alone                                            *)
(***************************************************************************)
\* Rows are written by open transactions of the calls that write results.
OwnRows(c) ==
    \A n \in Nodes :
        newRows[c][n] # "none" => pc[c] \in Open /\ Op(c) \in WritesResults

\* A completion that no other writer of results has run beside: none does now,
\* and it has a status to commit unless some node had no result when it counted.
AloneSoFar(c) ==
    Op(c) = "completion" /\ c \notin overlapped =>
        /\ pc[c] \in Open =>
              \A d \in Calls \ {c} : pc[d] \in Open => Op(d) \notin WritesResults
        /\ pc[c] = "log" => newStatus[c] \in {"completed", "failed"}
        /\ pc[c] = "commit" => newStatus[c] \in {"completed", "failed"} \/ ~AllSeen(c)

AloneInv == \A c \in Calls : OwnRows(c) /\ AloneSoFar(c)

LEMMA AllCounted ==
    ASSUME NEW f \in [Nodes -> ResultKinds], \A n \in Nodes : f[n] # "none"
    PROVE  PendingNodeCount(f) = 0
<1> DEFINE Done == {n \in Nodes : f[n] # "none"}
<1>1. Done = Nodes
    OBVIOUS
<1>2. Cardinality(Nodes) \in Nat
    BY TransactionAssumption, FS_CardinalityType
<1>3. PendingNodeCount(f) = Cardinality(Nodes) - Cardinality(Done)
    BY DEF PendingNodeCount
<1> HIDE DEF Done
<1> QED
    BY <1>1, <1>2, <1>3

LEMMA OwnRowsKept ==
    ASSUME Types, NEW c \in Calls, AskedFor(c), OwnRows(c),
           Start(c) \/ Step(c) \/ Abort(c)
    PROVE  OwnRows(c)'
<1> USE DEF OwnRows, Types, Goto, Open
<1>1. CASE Start(c)
    BY <1>1, Zenon DEF Start, written
<1>2. CASE FindTimedOut(c)
    BY <1>2 DEF FindTimedOut, written
<1>3. CASE Begin(c)
    BY <1>3 DEF Begin, written
<1>4. CASE ReadVersion(c) \/ SelectExecution(c) \/ ResultsPersisted(c) \/ CountResults(c)
    BY <1>4 DEF ReadVersion, SelectExecution, ResultsPersisted, CountResults, written, Op
<1>5. CASE InsertExecution(c) \/ InsertDLQItem(c) \/ UpdateExecution(c) \/ InsertLog(c)
    BY <1>5 DEF InsertExecution, InsertDLQItem, UpdateExecution, InsertLog, Op
<1>6. CASE UpsertResult(c)
    BY <1>6 DEF UpsertResult, AskedFor, Op
<1>7. CASE SelectFailed(c)
  <2>1. PICK verdict \in {"failed", "success"} : call' = [call EXCEPT ![c].result = verdict]
      BY <1>7, Zenon DEF SelectFailed
  <2>2. Op(c)' = Op(c)
      BY <2>1 DEF Op
  <2> QED
      BY <1>7, <2>2 DEF SelectFailed, written
<1>8. CASE Commit(c) \/ Abort(c)
    BY <1>8 DEF Commit, Abort, Discard, NoRows
<1>9. CASE SetStatus(c) \/ SetExecutionTimeout(c) \/ ClearExecutionTimeout(c)
    BY <1>9 DEF SetStatus, SetExecutionTimeout, ClearExecutionTimeout, written, Op,
                WritesResults
<1> QED
    BY <1>1, <1>2, <1>3, <1>4, <1>5, <1>6, <1>7, <1>8, <1>9 DEF Step

\* Only Begin opens a transaction, and it marks completions it runs beside.
LEMMA StepOpens ==
    ASSUME Types, NEW c \in Calls, Start(c) \/ Step(c) \/ Abort(c)
    PROVE  /\ pc'[c] \in Open => (pc[c] \in Open /\ Op(c)' = Op(c)) \/ Begin(c)
           /\ overlapped \subseteq overlapped'
<1> USE DEF Types, Goto, Open
<1>1. CASE Start(c)
    BY <1>1 DEF Start
<1>2. CASE Begin(c)
    BY <1>2 DEF Begin
<1>3. CASE SelectFailed(c)
  <2>1. PICK verdict \in {"failed", "success"} : call' = [call EXCEPT ![c].result = verdict]
      BY <1>3, Zenon DEF SelectFailed
  <2> QED
      BY <1>3, <2>1 DEF SelectFailed, Op
<1>4. CASE FindTimedOut(c) \/ ReadVersion(c) \/ SelectExecution(c) \/ ResultsPersisted(c)
           \/ CountResults(c) \/ InsertExecution(c) \/ InsertDLQItem(c) \/ UpsertResult(c)
           \/ UpdateExecution(c) \/ InsertLog(c)
    BY <1>4 DEF FindTimedOut, ReadVersion, SelectExecution, ResultsPersisted, CountResults,
                InsertExecution, InsertDLQItem, UpsertResult, UpdateExecution, InsertLog, Op
<1>5. CASE Commit(c) \/ Abort(c) \/ SetStatus(c) \/ SetExecutionTimeout(c)
           \/ ClearExecutionTimeout(c)
    BY <1>5 DEF Commit, Abort, SetStatus, SetExecutionTimeout, ClearExecutionTimeout, Op,
                Ended
<1> QED
    BY <1>1, <1>2, <1>3, <1>4, <1>5 DEF Step

\* A completion's own step, as far as the status it will commit is concerned.
LEMMA OwnStepAlone ==
    ASSUME TransactionInv, NEW c \in Calls, AloneSoFar(c), c \notin overlapped',
           Op(c)' = "completion", Start(c) \/ Step(c) \/ Abort(c)
    PROVE  /\ pc'[c] = "log" => newStatus'[c] \in {"completed", "failed"}
           /\ pc'[c] = "commit" => newStatus'[c] \in {"completed", "failed"} \/ ~AllSeen(c)'
<1>1. Types /\ AskedFor(c) /\ c \notin overlapped
    BY StepOpens DEF TransactionInv, CallInv
<1> USE DEF Types, Goto
<1>2. CASE Start(c) \/ FindTimedOut(c) \/ ReadVersion(c) \/ SelectExecution(c)
           \/ SelectFailed(c) \/ InsertDLQItem(c)
    BY <1>1, <1>2 DEF Start, FindTimedOut, ReadVersion, SelectExecution, SelectFailed,
                      InsertDLQItem
<1>3. CASE Begin(c)
    BY <1>1, <1>3, FirstStatement DEF Begin, AskedFor
<1>4. CASE InsertExecution(c) \/ ResultsPersisted(c)
    BY <1>1, <1>4 DEF InsertExecution, ResultsPersisted, AskedFor, Op, Nested
<1>5. CASE UpsertResult(c)
    BY <1>1, <1>5 DEF UpsertResult, Op
<1>6. CASE CountResults(c)
  <2>1. pc'[c] = "commit" => ~AllSeen(c)
      BY <1>1, <1>6, SeenType, AllCounted DEF CountResults, AllSeen
  <2>2. AllSeen(c)' = AllSeen(c) /\ pc'[c] # "log"
      BY <1>1, <1>6 DEF CountResults, AllSeen, Seen, table, written
  <2> QED
      BY <2>1, <2>2
<1>7. CASE UpdateExecution(c)
    BY <1>1, <1>7 DEF UpdateExecution, EndStatus, Op
<1>8. CASE InsertLog(c)
    BY <1>1, <1>8 DEF InsertLog, AloneSoFar, Op
<1>9. CASE Commit(c) \/ Abort(c) \/ SetStatus(c) \/ SetExecutionTimeout(c)
           \/ ClearExecutionTimeout(c)
    BY <1>1, <1>9 DEF Commit, Abort, SetStatus, SetExecutionTimeout, ClearExecutionTimeout
<1> QED
    BY <1>2, <1>3, <1>4, <1>5, <1>6, <1>7, <1>8, <1>9 DEF Step

\* Beside a completion that is alone, nobody changes a row.
LEMMA OtherStepAlone ==
    ASSUME TransactionInv, AloneInv, NEW c \in Calls, NEW d \in Calls \ {c},
           Op(c) = "completion", c \notin overlapped, pc[c] \in Open,
           Start(d) \/ Step(d) \/ Abort(d)
    PROVE  rows' = rows
<1>1. Types
    BY DEF TransactionInv
<1>2. CASE Commit(d)
  <2>1. pc[d] \in Open
      BY <1>2 DEF Commit, Open
  <2>2. Op(d) \notin WritesResults
      BY <2>1 DEF AloneInv, AloneSoFar
  <2>3. \A n \in Nodes : newRows[d][n] = "none"
      BY <2>2 DEF AloneInv, OwnRows
  <2> QED
      BY <1>1, <1>2, <2>3 DEF Commit, Seen, Types
<1>3. CASE ~Commit(d)
    BY <1>3 DEF Start, Step, Abort, FindTimedOut, Begin, ReadVersion, SelectExecution,
                InsertExecution, InsertDLQItem, UpsertResult, ResultsPersisted,
                CountResults, SelectFailed, UpdateExecution, InsertLog, SetStatus,
                SetExecutionTimeout, ClearExecutionTimeout, table
<1> QED
    BY <1>2, <1>3

LEMMA AloneStep ==
    ASSUME TransactionInv, AloneInv, NEW e \in Calls, Start(e) \/ Step(e) \/ Abort(e),
           NEW c \in Calls
    PROVE  AloneSoFar(c)'
<1> SUFFICES ASSUME Op(c)' = "completion", c \notin overlapped'
             PROVE  /\ pc'[c] \in Open =>
                          \A d \in Calls \ {c} : pc'[d] \in Open => Op(d)' \notin WritesResults
                    /\ pc'[c] = "log" => newStatus'[c] \in {"completed", "failed"}
                    /\ pc'[c] = "commit" =>
                          newStatus'[c] \in {"completed", "failed"} \/ ~AllSeen(c)'
    BY DEF AloneSoFar
<1>1. Types /\ c \notin overlapped /\ AloneSoFar(c)
    BY StepOpens DEF TransactionInv, AloneInv
<1>2. \A d \in Calls \ {e} : Untouched(d) /\ Op(d)' = Op(d)
    BY <1>1, StepUntouched DEF Untouched, Op
<1>3. ASSUME pc'[c] \in Open, NEW d \in Calls \ {c}, pc'[d] \in Open
      PROVE  Op(d)' \notin WritesResults
  <2>1. CASE Begin(e)
    <3>1. UNCHANGED call /\ Op(c) = "completion" /\ Op(d)' = Op(d)
        BY <2>1 DEF Begin, Op
    <3>2. CASE e = c
      <4>1. pc[d] \in Open
          BY <1>2, <1>3, <3>2 DEF Untouched
      <4>2. {b \in Running : Op(b) \in WritesResults} = {}
          BY <2>1, <3>1, <3>2 DEF Begin, WritesResults
      <4> QED
          BY <3>1, <4>1, <4>2 DEF Running
    <3>3. CASE e # c
      <4>1. pc[c] \in Open
          BY <1>2, <1>3, <3>3 DEF Untouched
      <4>2. c \in {b \in Running : Op(b) \in WritesResults}
          BY <3>1, <4>1 DEF Running, WritesResults
      <4>3. Op(e) \notin WritesResults
          BY <2>1, <4>2 DEF Begin
      <4>4. CASE d = e
          BY <3>1, <4>3, <4>4
      <4>5. CASE d # e
          BY <1>1, <1>2, <1>3, <3>1, <4>1, <4>5 DEF Untouched, AloneSoFar
      <4> QED
          BY <4>4, <4>5
    <3> QED
        BY <3>2, <3>3
  <2>2. CASE ~Begin(e)
    <3>1. pc[c] \in Open /\ Op(c) = "completion"
        BY <1>1, <1>2, <1>3, <2>2, StepOpens DEF Untouched
    <3>2. pc[d] \in Open /\ Op(d)' = Op(d)
        BY <1>1, <1>2, <1>3, <2>2, StepOpens DEF Untouched
    <3> QED
        BY <1>1, <3>1, <3>2 DEF AloneSoFar
  <2> QED
      BY <2>1, <2>2
<1>4. CASE e = c
    BY <1>1, <1>3, <1>4, OwnStepAlone
<1>5. CASE e # c
  <2>1. /\ pc'[c] = pc[c] /\ Op(c) = "completion" /\ newStatus'[c] = newStatus[c]
        /\ newRows'[c] = newRows[c]
      BY <1>2, <1>5 DEF Untouched
  <2>2. pc[c] = "commit" => AllSeen(c)' = AllSeen(c)
    <3> SUFFICES ASSUME pc[c] = "commit" PROVE AllSeen(c)' = AllSeen(c)
        OBVIOUS
    <3>1. rows' = rows
        BY <1>1, <1>5, <2>1, OtherStepAlone DEF Open
    <3> QED
        BY <2>1, <3>1 DEF AllSeen, Seen
  <2> QED
      BY <1>1, <1>3, <2>1, <2>2 DEF AloneSoFar
<1> QED
    BY <1>4, <1>5

LEMMA AloneHolds == Spec => []AloneInv
<1>1. Init => AloneInv
    BY DEF Init, AloneInv, OwnRows, AloneSoFar, NoRows, NoCall, Op, Open
<1>2. TransactionInv /\ AloneInv /\ [Next]_vars => AloneInv'
  <2> SUFFICES ASSUME TransactionInv, AloneInv, [Next]_vars PROVE AloneInv'
      OBVIOUS
  <2>1. ASSUME NEW e \in Calls, Start(e) \/ Step(e) \/ Abort(e) PROVE AloneInv'
    <3>1. Types /\ \A c \in Calls : AskedFor(c) /\ OwnRows(c)
        BY DEF TransactionInv, CallInv, AloneInv
    <3>2. ASSUME NEW c \in Calls PROVE OwnRows(c)'
      <4>1. CASE c = e
          BY <2>1, <3>1, <4>1, OwnRowsKept
      <4>2. CASE c # e
        <5>1. Untouched(c)
            BY <2>1, <3>1, <4>2, StepUntouched
        <5> QED
            BY <3>1, <5>1 DEF Untouched, OwnRows, Op
      <4> QED
          BY <4>1, <4>2
    <3>3. \A c \in Calls : AloneSoFar(c)'
        BY <2>1, AloneStep
    <3> QED
        BY <3>2, <3>3 DEF AloneInv
  <2>2. CASE TimePasses \/ UNCHANGED vars
    <3>1. UNCHANGED <<rows, pc, call, newStatus, newRows, overlapped>>
        BY <2>2 DEF TimePasses, vars, table, written
    <3> QED
        BY <3>1 DEF AloneInv, OwnRows, AloneSoFar, AllSeen, Seen, Op
  <2> QED
      BY <2>1, <2>2 DEF Next, Refuse
<1> QED
    BY <1>1, <1>2, InvHolds, PTL DEF Spec

\* updateNodeResultWithCompletion: a completion that writes the last result ends
\* the execution if no other writer of results ran beside it, for any number of
\* calls of every kind before it, and of others that wait for its locks.
THEOREM CompletionsAloneCount == Spec => AloneCompletes
<1> DEFINE Alone(c) ==
        (/\ Op(c) = "completion" /\ c \notin overlapped
         /\ pc[c] = "commit" /\ pc'[c] = "committed"
         /\ \A n \in Nodes : rows'[n] # "none") => status' \in {"completed", "failed"}
<1>1. TransactionInv /\ AloneInv /\ [Next]_vars => [\A c \in Calls : Alone(c)]_vars
  <2> SUFFICES ASSUME TransactionInv, AloneInv, Next, NEW c \in Calls,
                      Op(c) = "completion", c \notin overlapped,
                      pc[c] = "commit", pc'[c] = "committed",
                      \A n \in Nodes : rows'[n] # "none"
               PROVE  status' \in {"completed", "failed"}
      OBVIOUS
  <2>1. Types
      BY DEF TransactionInv
  <2>2. ~TimePasses
      BY DEF TimePasses
  <2>3. PICK e \in Calls : Start(e) \/ Step(e) \/ Abort(e)
      BY <2>2 DEF Next, Refuse
  <2>4. e = c
      BY <2>1, <2>3, StepUntouched DEF Untouched
  <2>5. Commit(c)
      BY <2>1, <2>3, <2>4 DEF Start, Step, Abort, FindTimedOut, Begin, ReadVersion,
             SelectExecution, InsertExecution, InsertDLQItem, UpsertResult,
             ResultsPersisted, CountResults, SelectFailed, UpdateExecution, InsertLog,
             SetStatus, SetExecutionTimeout, ClearExecutionTimeout, Types, Goto
  <2>6. AllSeen(c)
      BY <2>5 DEF Commit, AllSeen
  <2>7. newStatus[c] \in {"completed", "failed"}
      BY <2>6 DEF AloneInv, AloneSoFar
  <2> QED
      BY <2>5, <2>7 DEF Commit
<1> QED
    BY <1>1, InvHolds, AloneHolds, PTL DEF Spec, AloneCompletes

=============================================================================
