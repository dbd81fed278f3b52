--------------------------- MODULE InMemoryStore ---------------------------
(***************************************************************************)
(* The bookkeeping of InMemoryExecutionStore (db/inmemory-store.ts): three *)
(* maps by execution, for executions, logs and traces, with a limit on     *)
(* executions (least recently used first), a TTL for those that have       *)
(* ended, and limits on entries per log and trace.  Calls come from all    *)
(* workers in any order, also about executions that have been removed.     *)
(* Of an execution the clean-up looks at the status and two timestamps;    *)
(* its results and other data are left out, and a log is its length.       *)
(***************************************************************************)
EXTENDS Integers, FiniteSets

Store == INSTANCE ExecutionStore
Terminal == Store!Terminal

CONSTANTS
    Executions,     \* ids createExecution may draw
    MaxExecutions,  \* config.maxExecutions
    MaxLogs,        \* config.maxLogsPerExecution
    MaxSpans,       \* config.maxSpansPerExecution
    ExecutionTtl,   \* config.completedExecutionTtl
    UsedStatuses,   \* the statuses the engine sets in a run
    MaxTime         \* bound on the clock

ASSUME StoreAssumption ==
    /\ MaxExecutions \in Nat \ {0}
    /\ MaxLogs \in Nat \ {0} /\ MaxSpans \in Nat \ {0}
    /\ ExecutionTtl \in Nat
    /\ UsedStatuses \subseteq Store!Statuses
    /\ MaxTime \in Nat

VARIABLES
    now,         \* Date.now()
    drawn,       \* ids drawn so far
    executions,  \* the execution map
    logs,        \* length of each execution's log
    traces       \* number of spans of each execution's trace

vars == <<now, drawn, executions, logs, traces>>

None == -1  \* completedAt before the execution has ended

\* "place" stands for the order of the map, which is that of insertion.
Execution == [status : Store!Statuses, completedAt : Nat \cup {None},
              lastAccessedAt : Nat, place : Nat]

Init ==
    /\ now = 0
    /\ drawn = {}
    /\ executions = <<>>
    /\ logs = <<>>
    /\ traces = <<>>

Live == DOMAIN executions

Without(map, ids) == [e \in DOMAIN map \ ids |-> map[e]]
Put(map, e, value) == [x \in DOMAIN map \cup {e} |-> IF x = e THEN value ELSE map[x]]

-----------------------------------------------------------------------------
(***************************************************************************)
(* cleanup                                                                 *)
(***************************************************************************)
Age(execution) ==
    now - (IF execution.completedAt # None THEN execution.completedAt
                                           ELSE execution.lastAccessedAt)

\* Wrong: the age is that of the last access, whatever the status.
ExpiredByAccess(map) ==
    {e \in DOMAIN map : now - map[e].lastAccessedAt > ExecutionTtl}

Expired(map) ==
    {e \in DOMAIN map :
        map[e].status \in Terminal /\ Age(map[e]) > ExecutionTtl}

\* The sort is stable: among equal timestamps the map's order decides.
UsedBefore(d, e) ==
    \/ d.lastAccessedAt < e.lastAccessedAt
    \/ d.lastAccessedAt = e.lastAccessedAt /\ d.place < e.place

\* Wrong: among equal timestamps the newest goes first.
EvictedNewestFirst(map) ==
    LET After(d, e) ==
            \/ d.lastAccessedAt < e.lastAccessedAt
            \/ d.lastAccessedAt = e.lastAccessedAt /\ d.place > e.place
    IN {e \in DOMAIN map :
           Cardinality({d \in DOMAIN map : After(map[d], map[e])})
               < Cardinality(DOMAIN map) - MaxExecutions}

\* Wrong: one too few.
EvictedOffByOne(map) ==
    {e \in DOMAIN map :
        Cardinality({d \in DOMAIN map : UsedBefore(map[d], map[e])})
            < Cardinality(DOMAIN map) - MaxExecutions - 1}

Evicted(map) ==
    {e \in DOMAIN map :
        Cardinality({d \in DOMAIN map : UsedBefore(map[d], map[e])})
            < Cardinality(DOMAIN map) - MaxExecutions}

\* The clean-up of a map that is about to be stored, with the maps beside it.
\* Logs and traces are never longer than it allows.
CleanUp(map) ==
    LET kept == Without(map, Expired(map))
        gone == Expired(map) \cup Evicted(kept)
    IN /\ executions' = Without(map, gone)
       /\ logs' = Without(logs, gone)
       /\ traces' = Without(traces, gone)

-----------------------------------------------------------------------------
(***************************************************************************)
(* Operations.  One on an execution that is not there does nothing.        *)
(***************************************************************************)
CreateExecution(e) ==
    /\ e \notin drawn
    /\ drawn' = drawn \cup {e}
    /\ LET created == [status |-> "running", completedAt |-> None,
                       lastAccessedAt |-> now, place |-> Cardinality(drawn)]
           map == Put(executions, e, created)
       IN \/ /\ 10 * Cardinality(DOMAIN map) > 9 * MaxExecutions
             /\ CleanUp(map)
          \/ /\ 10 * Cardinality(DOMAIN map) <= 9 * MaxExecutions
             /\ executions' = map
             /\ UNCHANGED <<logs, traces>>
    /\ UNCHANGED now

\* getExecution, getNodeResults, getPendingNodeCount, updateNodeResult,
\* cacheNodeResult and updateExecutionMetadata.
Access(e) ==
    /\ e \in Live
    /\ executions' = [executions EXCEPT ![e].lastAccessedAt = now]
    /\ UNCHANGED <<now, drawn, logs, traces>>

\* completedAt stays when the status is no longer terminal.
SetExecutionStatus(e, status) ==
    /\ e \in Live
    /\ executions' = [executions EXCEPT
          ![e].status = Store!SetExecutionStatus(FALSE, @, status),
          ![e].completedAt = IF status \in Terminal THEN now ELSE @,
          ![e].lastAccessedAt = now]
    /\ UNCHANGED <<now, drawn, logs, traces>>

\* addLog does not look for the execution.
AddLog(e) ==
    /\ e \in drawn
    /\ logs' = IF e \in DOMAIN logs
               THEN [logs EXCEPT ![e] = IF @ < MaxLogs THEN @ + 1 ELSE @]
               ELSE Put(logs, e, 1)
    /\ UNCHANGED <<now, drawn, executions, traces>>

\* Wrong: like addLog.
AddSpanAnyway(e) ==
    /\ e \in drawn
    /\ traces' = IF e \in DOMAIN traces
                 THEN [traces EXCEPT ![e] = IF @ < MaxSpans THEN @ + 1 ELSE @]
                 ELSE Put(traces, e, 1)
    /\ UNCHANGED <<now, drawn, executions, logs>>

\* addSpan throws without the execution.
AddSpan(e) ==
    /\ e \in Live
    /\ traces' = IF e \in DOMAIN traces
                 THEN [traces EXCEPT ![e] = IF @ < MaxSpans THEN @ + 1 ELSE @]
                 ELSE Put(traces, e, 1)
    /\ UNCHANGED <<now, drawn, executions, logs>>

\* The timer of startCleanup.
TimedCleanUp ==
    /\ CleanUp(executions)
    /\ UNCHANGED <<now, drawn>>

\* clear, destroy, or a restart of the process.
Clear ==
    /\ executions' = <<>>
    /\ logs' = <<>>
    /\ traces' = <<>>
    /\ UNCHANGED <<now, drawn>>

Tick ==
    /\ now < MaxTime
    /\ now' = now + 1
    /\ UNCHANGED <<drawn, executions, logs, traces>>

Next ==
    \/ \E e \in Executions :
          \/ CreateExecution(e) \/ Access(e) \/ AddLog(e) \/ AddSpan(e)
          \/ \E status \in UsedStatuses : SetExecutionStatus(e, status)
    \/ TimedCleanUp \/ Clear \/ Tick

Spec == Init /\ [][Next]_vars

-----------------------------------------------------------------------------
(***************************************************************************)
(* Properties                                                              *)
(***************************************************************************)
\* Only ids that were drawn are in the maps, no two executions have one place, and
\* one that has ended has a completedAt.
TypeOK ==
    /\ now \in Nat
    /\ drawn \subseteq Executions
    /\ Live \subseteq drawn
    /\ \A e \in Live : executions[e] \in Execution
    /\ \A e \in Live : executions[e].status \in Terminal
                          => executions[e].completedAt # None
    /\ \A d, e \in Live : executions[d].place = executions[e].place => d = e
    /\ DOMAIN logs \subseteq drawn /\ \A e \in DOMAIN logs : logs[e] \in 1..MaxLogs
    /\ DOMAIN traces \subseteq drawn
    /\ \A e \in DOMAIN traces : traces[e] \in 1..MaxSpans

\* "Maximum number of executions to keep in memory": although the limit is only
\* enforced by createExecution and the timer, it is never exceeded in between.
SizeBounded == Cardinality(Live) <= MaxExecutions

\* A trace goes with its execution, whatever spans come after.
TracesHaveExecutions == DOMAIN traces \subseteq Live

\* An execution is lost without having expired only if the store was full, and
\* then none that stays was used less recently; the execution just created
\* stays, even if everything happens in one millisecond.  (Clear keeps none.)
EvictsLeastRecentlyUsed ==
    [][\A kept \in Live' :
         /\ drawn' \ drawn \subseteq Live'
         /\ \A e \in (Live \ Live') \ Expired(executions) :
               /\ Cardinality(Live') = MaxExecutions
               /\ executions[e].lastAccessedAt <= executions'[kept].lastAccessedAt]_vars

\* "TTL in milliseconds for completed/failed executions": an execution that has
\* not ended goes only for want of room.
RunningKept ==
    [][\A e \in Live \ Live' :
         \/ executions[e].status \in Terminal
         \/ Cardinality(Live') = MaxExecutions
         \/ Live' = {}]_vars

=============================================================================
