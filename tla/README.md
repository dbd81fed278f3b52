# Spane: specifications, model checking and proofs

Spane runs workflows, directed graphs of nodes, as jobs of a BullMQ queue. Any
number of worker processes take node jobs, execute them, store the results and
enqueue the next nodes; there is no coordinator. What makes an execution correct
is therefore never in one place: it is in the order in which independent workers
read and write the queue, the state store and a Redis lock. This directory holds
TLA+ models of that, TLC configurations that check them on small workflows, and
proofs, checked by TLAPS, for workflows of any size.

Paths below are relative to `src/`, the repository.

## 1. The system

| Component | Code | State | Operations |
|---|---|---|---|
| Start of an execution | `src/engine/workflow-engine.ts` | the execution's row, entry jobs | `enqueueWorkflow`, `enqueueNode` |
| Control | `src/engine/workflow-engine.ts` | status, listed jobs | `cancelWorkflow`, `pauseWorkflow`, `resumeWorkflow` |
| Routing | `src/engine/node-processor.ts` | – | idempotency check, status check, choice of a handler |
| Regular nodes | `src/engine/handlers/execution-handler.ts` | the result in hand | `executeRegularNode`, `handleExecutionError` |
| Children and completion | `src/engine/handlers/child-enqueue-handler.ts` | children still to visit, completion lock | `checkAndEnqueueChildren`, `skipNode`, `enqueueNode`, `checkWorkflowCompletion`, `handleWorkflowError` |
| Delay nodes | `src/engine/handlers/delay-handler.ts` | the second job of the node | `processDelayNode`, `handleInitialStep`, `handleResumedStep` |
| Sub-workflows | `src/engine/handlers/subworkflow-handler.ts` | child execution, flow jobs, aggregator job | `executeSubWorkflowWithFlow`, `processAggregatorNode` |
| Workers | `src/engine/worker-manager.ts` | slots, events | node worker, `failed` and `stalled` listeners |
| Queues | `src/engine/queue-manager.ts` | queues, queue events | result-cache listener |
| Dead letters | `src/engine/dlq-manager.ts` | dead-letter queue | `moveToDLQ`, `getDLQItems`, `retryDLQItem` |
| Registry | `src/engine/workflow-engine.ts`, `src/db/drizzle-store.ts` | versions, a cache per process, job schedulers | `registerWorkflow`, `getWorkflow`, `removeWorkflowSchedulers` |
| Graph validation | `src/engine/graph-validation.ts` | – | cycles, reachability, references |
| Stores | `src/db/inmemory-store.ts`, `src/db/drizzle-store.ts` | status, node results, cache hash | creation, updates, reads, clean-up |
| Store transactions | `src/db/drizzle-store.ts` | executions, results, dead letters, logs, timeouts | `createExecutionWithTransaction`, `handlePermanentFailure`, `updateNodeResultWithCompletion`, `handleExecutionTimeout`, `persistCompleteExecution` |
| Lock | `src/utils/distributed-lock.ts` | Redis key with TTL, renewal timers | `acquire`, `release`, `extend`, `withLock` |
| Shutdown | `src/utils/graceful-shutdown.ts` | the step under way | signals, ordered close with a timeout, `process.exit` |
| Input of a node | `src/engine/node-utils.ts`, `src/engine/handlers/execution-handler.ts` | – | `validateInputData`, `mergeParentInputs`, `buildNodeInputData` |
| Around them | events, metrics, logging, validation, config, layout | output only | – |

How they interact:

- `enqueueWorkflow` creates an execution with status `running` and adds one job
  per entry node, one `await` after the other.
- A worker slot takes a job. `routeNodeExecution` reads the node's stored result
  (a resolved node is not executed again), then the execution's status
  (`cancelled` ends the job, `paused` moves it back to the delayed set), then
  runs the node's handler.
- The handler stores the result, visits the node's children, reads the results of
  each child's parents, and adds the child's job, under an id derived from the
  execution and the node, when all of them are resolved. Children outside
  `nextNodes` get a `skipped` result, recursively.
- Then it tries the lock `completion:<execution>`; the holder reads the status,
  counts the nodes without a result and sets `completed` when there is none.
- Two listeners write as well: the worker's `failed` listener records a job that
  is out of attempts and then sets the status `failed`; the `completed` listener
  of the queue events writes the job's return value as the node's result.
- The control operations write the status, list jobs, and handle the listed jobs
  one at a time while all of the above goes on.

What is hard about it: every `await` above is a point where other workers,
listeners and clients run; jobs are retried and taken again after a crash; the
lock has a TTL; events arrive late or not at all; results are written by four
different parties; the Drizzle store has a cache beside its table and refuses
status changes from anything but `running`, the in-memory store accepts all.

What makes each part correct:

- *Joins*: a child starts only behind all of its parents, and no order of the
  parents' reads and writes loses it.
- *Completion*: an execution is completed only with a result for every node, its
  completion is announced once, and it does end.
- *Idempotency*: a node whose success is stored is not executed again.
- *Failure*: a permanent failure reaches the status, unless `continueOnFail` contains it
  (which it does not, see section 3).
- *Delay nodes*: nothing but the second job resolves the node.
- *Control*: a cancelled execution runs no further node; pause and resume lose no
  job; a status call has the effect it returns with.
- *Stores*: a terminal status stays; the cache hides no stored result, is never
  ahead of the table, and is not stale for ever.
- *Lock*: one holder at a time; only the holder releases or extends it.
- *Sub-workflows*: the aggregator runs behind all nodes, once per sub-workflow, and
  the child execution ends.
- *Transactions*: what belongs together is stored together, a completion that runs
  alone is not lost, and overlapping calls do not wait for each other for ever.
- *Dead letters*: an item is in its queue or its retry is in the node queue, and what is
  retried is run.
- *Shutdown*: jobs that were taken are finished and the others left to the next process,
  unless the timeout cuts the close short.
- *Input of a node*: circular data is refused, and the engine's input is the documented
  one.
- *Registry*: versions count without gaps, the current definition is the one that is
  scheduled and the one every process comes to.
- *Graphs*: the cycle and reachability searches find what the edges say, and what is
  accepted can be started and walked.

`PROJECT.json` lists the hazards at their lines, with the properties that watch
over them or the reason why none does yet.

## 2. Modules

```
JobQueue   ExecutionStore -+- StoreTransactions -+- MCStoreTransactions
     \      /       |       |                     +- StoreTransactionsProofs
      \    /        |       +- InMemoryStore -- InMemoryStoreProofs
       \  /      Execution
       |  |          ^ implements       ResultCache -- ResultCacheProofs
     WorkflowRun ----+------- WorkflowRunProofs
      | |  |  \                   |     Lease
      | |  |   MCWorkflowRun      |       ^ implements
      | |  |                      |     DistributedLock -+- MCDistributedLock
      | |  EngineShutdown --------+                      +- DistributedLockProofs
      | |   -- MCEngineShutdown   |
      | |                         |     WorkflowRegistry -+- MCWorkflowRegistry
      | WorkflowControl           |                       +- WorkflowRegistryProofs
      |  | -- MCWorkflowControl   |
      |  DeadLetters -------------+     Paths
      |   -- MCDeadLetters        |       |
      SubWorkflow ----------------+     GraphValidation, NodeUtils
       -- MCSubWorkflow           |       | -- MCSynchronous (with InMemoryStore)
                                  |       ValidationProofs
                          CompositionProofs
```

**JobQueue** states what the engine expects of BullMQ, which is a library: a job
id is `none`, `waiting`, `delayed`, `active`, `completed` or `failed`; `add` under
a known id does nothing; `remove` is refused for a job a worker holds; a failed
attempt is followed by a delay or by `failed`.

**ExecutionStore** is the part both stores have in common: status, result kinds,
`SetExecutionStatus` (its first parameter selects Drizzle's `WHERE status =
'running'`) and the count of pending nodes, in which a failed result counts as
done. A result is `success`, `failed` or `skipped`; its data is abstracted away.

**WorkflowRun** is one execution. A process is a job; `pc[j]` is where its worker
is, and every action ends at an `await` on shared state:

| Actions | Code |
|---|---|
| `EnqueueEntry`, `AbandonStart` | the loop of `enqueueWorkflow` |
| `TakeJob`, `CheckIdempotency`, `CheckExecutionState` | the worker and `routeNodeExecution` |
| `ExecuteNode`, `StoreResult`, `FailWorkflow` | `executeRegularNode`, `handleExecutionError` |
| `ScheduleResume`, `ReturnDelayed`, `ResumeDelay` | `processDelayNode` |
| `SkipChild`, `VisitChild`, `EnqueueChild`, `ChildrenDone` | `checkAndEnqueueChildren`, `skipNode` (its recursion is the sequence `todo[j]`) |
| `AcquireLock`, `ReadStatus`, `CountPending`, `CompleteWorkflow`, `ReleaseLock`, `LockExpires` | `checkWorkflowCompletion`, the lock |
| `RecordPermanentFailure`, `FailExecution` | the `failed` listener |
| `CacheResult` | the result-cache listener |
| `DelayElapses` | BullMQ's delayed set |
| `Crash`, `Throws`, `LoseFailure` | a dying worker (its job is found stalled), a rejected `await`, a lost event |

`Finish`, `FailAttempt`, `MoveToDelayed` and `MoveLimitedBack` are the ways out of a job,
with the event or retry each causes. An executor that throws fails the attempt
(`HandleExecutionError`); one that throws `RateLimitError` goes through the same handler,
but BullMQ puts its job back to waiting and counts no attempt, and the `failed` listener
lets the error pass (`HandleRateLimit`). `Recover` is the handler's branch for
`continueOnFail`; it is never taken, see section 3.

**Execution** is the abstract specification: what a reader of the store may rely
on. Results appear and are never withdrawn, `completed` requires a result of every
node, `failed` requires some result, and the status follows the store's rule.
`WorkflowRun` implements it under the identity mapping of `status` and `results`.

**WorkflowControl** adds clients. A call writes the status, lists jobs once and
handles the list one `await` at a time; `RunStep` is any step of `WorkflowRun`.
The observation variables `cancelled` and `late` remember what the
properties speak of.

**DeadLetters** puts the dead-letter queue beside `WorkflowControl`, for a store
without `handlePermanentFailure`, the in-memory one: only then (`~Guarded`) the listener
calls `moveToDLQ`.

| Actions | Code |
|---|---|
| `MoveToDLQ`, before `RecordPermanentFailure` of the same job | the `failed` listener |
| `FindLetter`, `AddRetry`, `RemoveLetter`, `RetryFails` | `retryDLQItem`, one `await` each |
| `EngineStep` | any step of `WorkflowControl`, whose listener waits for the letter |

A retry is a job of its own, `<<node, stamp>>`, since its id ends in `Date.now()`; two
clients can draw the same stamp. `Retries` are the stamps; it is empty in all other runs.

**EngineShutdown** runs one process of `WorkflowRun` and ends it. `phase` is the step of
`performShutdown` under way; a worker that closes takes no job and waits for its own.
`ExitEarly` is the end of the process by the timeout or by a second signal, whose handler
was registered with `once`; `ProcessGone` is what an end leaves: the store, the queue,
in which active jobs stall and come back, and a lock until its TTL. `cut` remembers
whether an end has cut off a start or a listener, or, by the timeout, a job.

**StoreTransactions** looks into the Drizzle store's transactions on one execution,
statement by statement, under PostgreSQL's default isolation level. A call keeps what it
wrote in `newStatus`, `newRows`, `newItem` and `newLog` until `Commit`; the others do not
see it, and wait where they write the same row. `Refuse` is PostgreSQL ending a deadlock or
rejecting a second insert, `Abort` any failed statement. Every open transaction holds
one of `Connections`, and `getWorkflowVersion` needs another.

| Actions | Code |
|---|---|
| `ReadVersion`, `InsertExecution`, `InsertLog` | `createExecutionWithTransaction` |
| `InsertDLQItem`, `UpsertResult`, `InsertLog` | `handlePermanentFailure` |
| `UpsertResult`, `CountResults`, `SelectFailed`, `UpdateExecution`, `InsertLog` | `updateNodeResultWithCompletion` |
| `ReadVersion`, `SelectExecution`, `UpdateExecution` or `InsertExecution`, `UpsertResult`, `ResultsPersisted`, `InsertLog` | `persistCompleteExecution` |
| `FindTimedOut`, `UpdateExecution`, `InsertLog` | `findTimedOutExecutions`, `handleExecutionTimeout` |
| `SetStatus`, `SetExecutionTimeout`, `ClearExecutionTimeout` | the calls of these names, single statements |

**ResultCache** looks into the Drizzle store at the level of single commands: the
`node_results` rows, the Redis hash, its TTL, and calls of `getNodeResults`,
`updateNodeResult`, `cacheNodeResult` and `handlePermanentFailure` that overlap.
The n-th result written for a node is the number n. `WorkflowRun` takes a store
operation for one step; `ResultCache` says what remains true of reads without
that: a stored result is not missed (`ReadSeesStored`), though an older one may be
returned.

**SubWorkflow** puts a sub-workflow node of a parent beside the execution it starts,
whose variables are those of `WorkflowRun`: `SubNext` is a step of `WorkflowRun` or
one of these.

| Actions | Code |
|---|---|
| `TakeParent`, `RouteParent` | a worker and `routeNodeExecution` in a job of the parent's node |
| `CreateExecution`, `AddFlow` | `executeSubWorkflowWithFlow`: the child's row, then the flow with the aggregator at its root |
| `StoreAnswer`, `CacheAnswer` | `processSubWorkflowNode` and the result-cache listener store the placeholder answer |
| `ParentFault` | a rejected `await` or a crash in the parent's job |
| `ReleaseNode`, `FailNode`, `ReleaseAggregator`, `FailAggregator` | BullMQ's flow: a job waits for those it depends on, and fails with them unless `continueOnFail` |
| `TakeAggregator`, `CompleteChild`, `StoreOutput`, `NotifyParent` | `processAggregatorNode` |
| `AggregatorThrows`, `AggregatorCrash`, `AggregatorFailed` | its `catch`, a dying worker, the `failed` listener |

A node of the child has two jobs: `<<n, "manual">>` is the one in the flow,
`<<n, "node">>` the one its parents enqueue like in any execution. The model has
both, as the code does; the second finds the node resolved or runs it before.

**DistributedLock** is one key of the lock service: the Redis entry, its TTL, and
callers of `withLock` with their interval timers, `renewalCount` and the
`renewalTimers` map of their instance. Time is counted in units. Timers and
commands that are due come before the clock goes on, except in `MaxLate` units in
which something is late; a late unit is what a blocked event loop does. A timer
sends the renewal (`FireTimer`) and Redis executes it later (`Extend`). The
functions under the lock end at any time or never.

**Lease** is the abstract specification of such a lock: one holder at a time, who alone
prolongs the lease or gives it up, from where it may, and who loses it with its time.
`DistributedLock` implements it with `holder` as it is, the entry's time left for `left`,
the caller's place for `at` and the number of its renewals for `asked`.

**InMemoryStore** is the bookkeeping of the in-memory store: three maps with their
limits. `place` stands for a map's order of insertion, which breaks ties of
`lastAccessedAt`; everything may happen in one millisecond. `CleanUp` is the whole
of `cleanup`, as part of `createExecution` and of the timer. Calls about removed
executions come at any time.

**GraphValidation** has every check of `validateWorkflow` as the code computes it,
`registerWorkflow`'s verdict, and the entry nodes `enqueueWorkflow` finds. The searches
are steps: `stack` holds the calls of `hasCycleFromNode` under way, with the number of
outputs each has looked at, and `queue` is that of the breadth-first search.

| Actions | Code |
|---|---|
| `StartSearch`, `NoCycle` | the loop of `detectCycle` |
| `EnterChild`, `SkipChild`, `ReturnFalse`, `FindCycle` | `hasCycleFromNode`: the call for a child, a turn of its loop, its end, and all calls returning true |
| `Visit`, `Finish` | the loop of `findUnreachableNodes` |

The other checks are operators: the first or last node under a repeated id, missing
references, the entry node. The properties compare the outcome with what the edges say.

**NodeUtils** has `validateInputData` and `mergeParentInputs` of `node-utils.ts`, and
`buildNodeInputData`, the function of its own that `executeRegularNode` calls instead.
Data is a value or an object of a heap; a field may lead back to where one came from. A
behaviour takes one case through both functions, with `walk` for the calls of
`validateInputData` under way and `seen` for the set they share.

**Paths** says what the two searches are measured by, without a search: a path leads from
v to w if w is in every set that holds the next of v and is left by no edge.

**WorkflowRegistry** is one workflow: its versions and the locked row in
PostgreSQL, each process's cache entry with its time left, and the job schedulers.

| Actions | Code |
|---|---|
| `Register`, `Upsert`, `Commit`, `SaveFails`, `CacheRegistered`, `Schedule`, `ScheduleFails` | `registerWorkflow`, `saveWorkflow`, `registerScheduleWithUpsert` |
| `Hit`, `Miss`, `SelectWorkflow`, `Fill`, `LoadFails`, `Finish` | `getWorkflow`, `getWorkflowWithLazyLoad` and their callers |
| `ListSchedulers`, `RemoveScheduler` | `removeWorkflowSchedulers` |
| `Evict`, `Tick`, `Restart` | the LRU cache at its limit, its TTL, a process that ends |

The upsert and the select of the newest version are one step, since the upsert
keeps the row locked until the transaction ends; the select of a version by id is
one step with filling the cache, since a version never changes. A version's id is
its position.

The modules whose names begin with **MC** hold the workflows, callers, calls and
definitions the configurations refer to; **MCSynchronous** runs `GraphValidation`,
`NodeUtils` and `InMemoryStore`, whose code awaits nothing: a behaviour is one of one of
the three. Operators under a comment that begins with
"Wrong:" are faulty variants of the definition that follows them; nothing uses them.
They show which plausible bug each property would find.

## 3. Runs

`tlc -config <run>.cfg <module>`; times are seconds to two minutes.

| Run | Module | Instance | Shows |
|---|---|---|---|
| `join` | MCWorkflowRun | diamond a → b, c → d; a branches, b fails or throws, c throws or asks to be rate limited, d is a delay node; 2 slots, 2 attempts; up to 2 crashes or errors | the join waits for both parents and, unless a fault has happened, is never lost; the lock admits one worker; completion is announced once |
| `faults` | MCWorkflowControl | a forks into a valid and an invalid delay node; a may throw, also `RateLimitError`; Drizzle store; one cancellation or pause; up to 2 crashes, errors or lock overruns | no early completion, no second execution, no delay cut short by the listener, no job taken after the cancellation reaches its node, `Execution` implemented |
| `serial` | MCEngineShutdown | diamond, one slot, up to 2 shutdowns | under fairness, every execution ends, also across orderly shutdowns |
| `pause_resume` | MCDeadLetters | a, which may throw, and a delay node b; in-memory store; one client that pauses and resumes, two that retry; 2 calls in all | pausing and resuming loses no job; a dead letter is never lost; what is retried is run |
| `transactions` | MCStoreTransactions | 3 calls of all kinds on 2 nodes, 3 connections, any call may fail | a dead letter comes with its failure; completion needs all results; a completion that runs alone is not lost; every call returns |
| `result_cache` | ResultCache | 2 nodes, 2 calls at a time, 2 writes per node, one fault | a read misses no stored result, the cache is never ahead, staleness ends |
| `sub_workflow` | MCSubWorkflow | a, b → c as the sub-workflow of an entry node; b may throw, c may fail; one crash or error | the aggregator runs behind all nodes of the child; the node starts one sub-workflow, and another only after a fault; a child whose flow was added ends |
| `distributed_lock` | MCDistributedLock | 2 callers in one process, 1 in another; TTL 3, interval 2, 2 renewals, 1 manual renewal, 2 late units | a renewed lock stays with its caller; `Lease` implemented: nobody prolongs or removes another's lock; no lock is held for ever |
| `synchronous` | MCSynchronous | all workflows of the shapes in the module, up to 3 nodes; every heap of 3 objects; every result of up to 2 parents; 3 executions in a store for 2, TTL 1, 4 clock values | cycles and unreachable nodes are found exactly; what is accepted is sound, and can be started so that every node is reached; circular data is refused, and both ways to put an input together agree; the store's limit holds between calls; the least recently used goes first; running executions go only for want of room; traces go with their executions |
| `registry` | MCWorkflowRegistry | 3 calls in 2 processes, 3 definitions (two schedules and none), 2 registrations, TTL 2 | versions count without gaps under concurrent saves; the current definition has its schedule; every process comes to the current definition |

Two runs show where the code does not do what a text of the repository says: TLC
finds a counterexample.

| Run | Text | What the code does |
|---|---|---|
| `lost_completion` | `atomic-workflow-completion.property.test.ts:15`: nodes that complete simultaneously complete the workflow "exactly once" | a worker counts the pending nodes before the last result is stored and still holds the lock when the worker of the last node tries it; that worker gives up, and nobody checks again (`child-enqueue-handler.ts:174`) |
| `continue_on_fail` | `README.md:664`: "With `continueOnFail: true`, the workflow continues even after all retries fail"; `executors.mdx:478`: "Don't stop workflow on failure" | `handleExecutionError` compares `job.attemptsMade` with `job.opts.attempts` inside the running attempt (`execution-handler.ts:180`), which BullMQ (`^5.67.1`) counts only when it has failed: at the last of n attempts the handler reads n - 1 and throws, and the node and the execution fail. The test `retry-policy.unit.test.ts:138` runs the handler with a value no job has; its comment doubts whether the count is 1-based |

Section 5 lists the other disagreements.

### Bounds, and why they are enough

- *Workflows* of two to four nodes have a fork, a join, a branch, a chain and two
  independent nodes: the patterns every larger graph is made of. The conditions
  the handlers evaluate look at a node, its parents or its children only.
- *Two slots* give every pair of overlapping handlers; the races found need two.
- *Two attempts* give a first, a last and a retried attempt.
- `MaxFaults` is 2, so that a fault can hit the recovery from another one.
- *Calls*: a pause followed by a resume, a retry beside either, or two retries of the same
  letter: `MaxRequests` bounds them together. One for a cancellation, whose interleaving
  with the workers is what matters.
- `EngineShutdown`: a second shutdown may hit what the first has left behind.
- `StoreTransactions`: two nodes have a result that is not the last and one that is. Three
  calls are two in a deadlock and one that waits for them. At most two of the calls ask for
  a second connection, so three connections are just enough: with fewer the pool is
  exhausted, which is a fact about the code (section 5).
- `NodeUtils`: three objects have cycles of length one to three, with and without a way
  into them, and shared parts.
- `ResultCache`: an older and a newer result, a hit next to a miss, two calls.
- `SubWorkflow`: a child with two entry nodes and a join has jobs that wait for one
  and for two others. Flow jobs have no `attempts`, so `MaxAttempts` is 1; one fault
  hits the parent, the flow, a node or the aggregator. `MaxFaults < 3` because the
  parent's own job has three attempts and its final failure is not modelled.
- `DistributedLock`: three callers are the holder, one that has lost its lock without
  knowing it, and one that competes; two of them share the timers' map. With TTL 3,
  interval 2, a timer fires twice before the renewals are used up, and two late units
  are enough to lose a lock and to be late again with the next one.
- `InMemoryStore`: with room for two of three executions one eviction leaves a choice;
  four clock values have ties, an execution that expires and one that does not.
- `GraphValidation`: up to three nodes have self-loops, cycles with and without a
  head, nodes reached along two paths, shared children, repeated ids and missing
  references.
- `WorkflowRegistry`: two registrations overlap with each other and with a load;
  two calls of one process race for its cache, the third is in a process with a
  cache of its own.
- The counters `faults`, `calls` and the rows of `ResultCache` are bounded in the
  guards, by `MaxFaults`, `MaxCalls`, `MaxRequests`, `MaxShutdowns` and `MaxWrites`; `late`, the manual renewals,
  the clock of the in-memory store and the registrations by `MaxLate`, `MaxManual`,
  `MaxTime` and `MaxRegistrations`. `announced` is bounded by the jobs.

Deadlock is not checked in runs of `WorkflowRun` and of the modules that extend it,
because an execution ends, nor in `synchronous`, where a validation does, nor in
`StoreTransactions`, where each call is made once; `EveryCallReturns` says there that
nobody is stuck. In `ResultCache`, `DistributedLock` and `WorkflowRegistry` calls can
always be made, and deadlock is checked.

### Fairness

`WorkflowRun!Fairness` is weak fairness of the steps the system schedules itself:
the awaited additions of `enqueueWorkflow`, each job's worker (a taken job runs
on; the waiting list is served in order, and with finitely many jobs each comes to
its turn), each job's `failed` listener, BullMQ's timers, delivery of queue events,
and the TTL of a lock whose holder is gone. Executors are assumed to answer. No
fairness is assumed of faults, of clients, or of a lock's expiry under a live
holder. `lost_completion` relies on it for
its counterexample, which therefore is not a system that merely stops.
`ResultCache!FairSpec` has calls that go on and Redis expiring keys with a TTL.
`SubWorkflow!SubFairness` adds to `Fairness` the worker in the parent's job, the
release of flow jobs and the worker in the aggregator. `DistributedLock!Fairness` is
that of timers, Redis and the clock; nothing is assumed of the functions, which may
hang, nor of their processes. `WorkflowRegistry!FairSpec` assumes only the clock.
`EngineShutdown!ShutSpec` and `DeadLetters!DeadFairness` assume less than `Fairness`: if
some worker, listener, timer or step of the shutdown can go on, one of them does. A
retried job gets its turn all the same, because without faults the others run out of
steps; signals, the timeout and the clients of `retryDLQItem` may come or not.
`StoreTransactions!FairSpec` is weak fairness of each call's next statement and of
PostgreSQL's deadlock detector; failures may come or not.

`EndsUnlessCut` is checked with one slot only, since with two an execution may stay
running even without shutdowns: that is `lost_completion`.

### A setting worth a word

`Guarded` selects the store. `pause_resume` uses the in-memory rule, because a Drizzle
execution does not get out of `paused`; the other runs use Drizzle's.

## 4. Proofs

`tlapm <module>.tla` for `WorkflowRunProofs`, `ResultCacheProofs`,
`DistributedLockProofs`, `InMemoryStoreProofs`, `WorkflowRegistryProofs`,
`StoreTransactionsProofs`, `CompositionProofs` (of `WorkflowControl`, `DeadLetters`,
`SubWorkflow` and `EngineShutdown`) and `ValidationProofs` (of `GraphValidation` and
`NodeUtils`). The theorems hold for all values of the constants that satisfy the
`ASSUME`s: every workflow (finitely many nodes, inputs and outputs that are nodes),
behaviour of its nodes, concurrency, number of attempts and faults, whichever store is
used; every number of calls, processes and executions, every TTL and limit; every
definition to validate, with a finite list of nodes, and every heap, with finitely many
fields to each object; unless a theorem says otherwise.

| Theorem | States | Assumes |
|---|---|---|
| `TypeCorrect` | `[]TypeOK` of `WorkflowRun` | |
| `CompletedIsComplete` | `[]CompletedHasAllResults` | |
| `CompletionLockExclusive` | `[]LockExclusive` | no holder outlives the TTL: `"overrun" \notin Faults` |
| `CompletionAnnouncedOnce` | `[]CompletedOnce` | the same |
| `ParentsComeFirst` | `[]ParentsBeforeChildren` | |
| `TerminalStatusIsFinal` | `TerminalIsFinal` (a consequence of the store's rule, in no run) | `Guarded` |
| `RunImplementsExecution` | `ImplementsExecution` | |
| `JoinsLoseNothing` | `[]QuietMeansResolved` | `WorkflowIsValid` |
| `NodesRunOnce` | `NoReexecution` | `NobodyBranches` |
| `ContinueOnFailIsIgnored` | no error is ever turned into a success (`NeverRecovers`, in no run): what `continue_on_fail` shows on one workflow holds for all | |
| `DelaysAreWaitedFor` | `DelayIsWaitedFor` | |
| `SerialCompletionIsNotLost` | at rest, without faults, the status is not `running` any more (`RestsOnlyAtEnd`, in no run) | `WorkflowIsValid`, `Concurrency = 1`, at least one node |
| `CompletedIsCompleteUnderControl` | `[]CompletedHasAllResults` under `ControlSpec` | |
| `ControlImplementsExecution` | `ImplementsExecution` under `ControlSpec` | |
| `DelaysAreWaitedForUnderControl` | `DelayIsWaitedFor` under `ControlSpec` | |
| `ParentsComeFirstUnderControl` | `[]ParentsBeforeChildren` under `ControlSpec` | |
| `CancellationStops` | `[]CancelStopsExecution` | `Guarded` |
| `LettersAreKept` | `[]NoLetterLost` of `DeadLetters` | no client cancels and no process crashes |
| `PausingLosesNothing` | `[]PauseLosesNothing` of `DeadLetters` | `~Guarded`, `WorkflowIsValid`, no client cancels, no executor answers `success: false`: `NoFailures` |
| `SubWorkflowsStartOnce` | `[]StartsOnce` of `SubWorkflow` | |
| `FlowsAggregateAll` | `[]AggregatesAll` of `SubWorkflow` | no delay nodes, no `continueOnFail` in the flow, `FlowIsWhole` |
| `CompletedIsCompleteAcrossShutdowns` | `[]CompletedHasAllResults` under `ShutSpec` | |
| `ShutdownImplementsExecution` | `ImplementsExecution` under `ShutSpec` | |
| `ParentsComeFirstAcrossShutdowns` | `[]ParentsBeforeChildren` under `ShutSpec` | |
| `DelaysAreWaitedForAcrossShutdowns` | `DelayIsWaitedFor` under `ShutSpec` | |
| `CompletionAnnouncedOnceAcrossShutdowns` | `[]CompletedOnce` under `ShutSpec` | `"overrun" \notin Faults` |
| `NodesRunOnceAcrossShutdowns` | `NoReexecution` under `ShutSpec` | `NobodyBranches` |
| `ShutdownsLoseNothing` | at rest, without faults, the status is terminal or a shutdown has cut somebody off (`RestsOnlyAtEndOrCut`, the safety half of `EndsUnlessCut`) | `WorkflowIsValid`, `Concurrency = 1`, at least one node |
| `ChildCompletedIsComplete` | `[]CompletedHasAllResults` under `SubSpec` | the same |
| `CacheTypeCorrect` | `[]TypeOK` of `ResultCache` | |
| `CacheFollowsTable` | `[]CacheNeverAhead` | |
| `ReadsSeeStored` | `[]ReadSeesStored` | |
| `LockTypeCorrect` | `[]TypeOK` of `DistributedLock` | |
| `RenewedLocksHold` | `[]HoldsWhileRenewed` | manual renewals ask for more than the interval: `RenewalsOutlastInterval` |
| `LockImplementsLease` | `ImplementsLease` | |
| `StoreSizeBounded` | `[]SizeBounded` | |
| `TracesGoWithExecutions` | `[]TracesHaveExecutions` | |
| `LeastRecentlyUsedGo` | `EvictsLeastRecentlyUsed` | |
| `RunningExecutionsStay` | `RunningKept` | |
| `RegistryTypeCorrect` | `[]TypeOK` of `WorkflowRegistry` | |
| `VersionsAreInOrder` | `[]VersionsInOrder` | |
| `CurrentStaysScheduled` | `[]CurrentIsScheduled` | |
| `FailuresStoredWhole` | `[]FailuresAreWhole` of `StoreTransactions` | |
| `CompletionCountsAll` | `[]CompletedHasAllResults` of `StoreTransactions` | |
| `CompletionsAloneCount` | `AloneCompletes` | |
| `CycleSearchIsExact` | `[]CyclesAreFound` of `GraphValidation` | |
| `ReachabilityIsExact` | `[]UnreachableAreFound` | |
| `AcceptedIsRunnable` | `[]AcceptedCanBeWalked` | |
| `DataCheckIsExact` | `[]DataChecked` of `NodeUtils` | |
| `InputFormsAgree` | `[]InputsAgree` | |

The hypotheses. `WorkflowIsValid` says of a graph what the engine needs to walk it:
inputs and outputs agree, nodes without inputs are entry nodes, no delay has an invalid
duration, and the inputs are well-founded, stated as an induction over sets of nodes.
`NobodyBranches`: no executor selects among the children of its node, and no entry node is
a child. `FlowIsWhole`: whoever depends on the final nodes' flow jobs depends on every
node. The modules of the runs have these as `ASSUME`s on their instances (`DiamondIsValid`,
`PairIsValid`, `ForkIsUnconditional`, `ChildIsWhole`), so that TLC confirms that workflows
satisfy them. What goes wrong without them is said in the bullets below and in section 5.

The argument. None of the safety properties is inductive:

- `TypeInv` is `TypeOK` with three facts the types of later steps need: a worker is
  in a job only while the job is active (`WorkerHasJob`), an active or waiting job
  has an attempt left (`AttemptsLeft`, without which `made` could exceed its
  bound), and a worker that adds a child has one to add (`ChildToEnqueue`).
- `CompletionInv` carries the count over to the status write: a worker at
  `complete` has seen no pending node, and results are never withdrawn
  (`ResultsGrow`), so that still holds when it writes, whoever holds the lock by
  then. That is why `CompletedIsComplete` needs no assumption about the TTL.
- `LockInv`: a worker inside the check holds the lock. Without an overrun, only a
  holder's own release or the TTL of a dead holder frees the key.
- `OnceInv`: once the event is out the status is terminal, so a later check reads
  that and leaves; a worker between its status read and the announcement is alone,
  by `LockInv`.
- `ParentsInv`: a worker at `enqueue` has read a result of every parent. Again
  `ResultsGrow` makes the stale read harmless.
- `FailInv`: a job whose failure the listener or the worker is about to write to
  the status has a node with a result; that is what the abstract `Fail` needs.
- `JoinInv`: until a failure, a fault or a cancellation (`Trouble`), every node is
  `Covered`: it has a parent without a result, or a result, or somebody's list or loop
  still has it, or it has a job; and a finished job has resolved its node or left the
  resumed job behind (`JobsHandled`). The hard step is `VisitChild` that finds a parent
  without a result and goes on: that parent is then what covers the child. In a quiet
  state only jobs that are done and parents without results are left, and
  `WorkflowIsValid` turns "every unresolved node has an unresolved parent" into
  "there is none".
- `OneJobInv`: without branching a node that is no delay node has one job, so the result
  an idempotency check did not find cannot appear until the same job stores it, and the
  queue's event follows the end of that job (`EventsFollow`). With branching a second
  parent may skip a node while it is executed.
- `NeverRecovers`: a job a worker is in is active, so by `AttemptsLeft` it has failed less
  often than it may (`AttemptsRunOut`), and the comparison of `handleExecutionError` is
  FALSE.
- `DelayInv`: past `store` a node has a result, the resume step belongs to the second
  job, and the cache listener brings a success only of a node that has a result already.
- `SerialInv`: with one slot (`OneActive`) the worker that stores the last result is alone
  until it is through the completion check, so it finds the lock free and counts nothing
  pending: while every node has a result and the status is not terminal, somebody is on
  the way to write it (`CompletesInv`), and at rest, where `JoinInv` says that every node
  has a result, nobody is. With two slots the worker of the last result may find the lock
  taken by one that has counted before, which is what `lost_completion` shows.
- `ControlTypeInv`, for `WorkflowControl`: what a client may do to the run's state is
  `HandsOff` plus the jobs it lists, so the invariants of `WorkflowRunProofs` carry over
  step by step. `ListedInv` adds that a job a client has listed or holds in its hands
  has the parents its addition needed, so that putting it back adds no child early.
- `CancelInv`: with Drizzle's rule `cancelled` stays, and a job taken since is not past
  its status check.
- `LetterInv`, for `DeadLetters`: a letter outside its queue has a retry, and a retry, once
  added, is in the queue or in the hands of a client that puts it back. `cancelWorkflow`
  would remove it, and a crash would take the client with it.
- `PauseInv`: `JoinInv` again, with the jobs of the queue and those in the hands of
  clients together (`Known`), up to the first fault or failure. The in-memory store lets
  `resumeWorkflow` reopen a failed execution, so the status does not tell that there was
  one, and the invariant looks at listeners and letters.
- `StartInv`, for `SubWorkflow`: executions started and those that are due are within one
  plus the faults (`Paid`), or nothing has gone wrong yet and the aggregator's later job
  will find a result (`Smooth`); the fault that ends `Smooth` is the one that pays.
- `WholeInv`: a flow job is released only behind completed ones, a completed one has a
  result, and by `FlowIsWhole` what the final nodes depend on is everything.
- `ShutTypeInv`, for `EngineShutdown`: once the workers are closed no job is active
  (`WorkersAway`). An end puts the active jobs back to waiting and leaves no worker,
  listener or start anything to do (`EndLeaves`), and what `WorkflowRunProofs` says of
  them then holds; closing the handlers leaves less than there was (`HandlersLeave`); any
  other step is one of the run, or none (`RunOrEnd`). `ShutSerialInv` is `SerialInv` until
  somebody is cut off, and an end that cuts nobody off changes none of it (`EndInOrder`).
- `ReadInv`, for `ResultCache`: a row a read knew of stays, and after the query
  the read has an answer for every such node, from the cache or the table.
- `HoldInv`, for `DistributedLock`: as long as nothing was late, a caller with a
  timer and renewals left holds the entry, and unless a renewal is on its way the
  entry outlives the timer. `TypeOK` alone does not relate the two clocks.
- `LockImplementsLease` needs `TypeOK` only, action by action (`LeaseStep`): the entry has
  a holder exactly while it has time left, so that an expired entry is a free lease.
- `StoreInv`, for `InMemoryStore`: the maps are finite and typed, the limit holds,
  traces are within executions. That the eviction leaves room needs the sort to have
  a first element, which follows from finiteness by taking the strict subsets of the
  map as well-founded.
- `PlaceInv`: places are drawn in order, no timestamp is ahead of the clock and no two
  executions share a place; then the strict order by last access and place is the one
  in which the sort removes, and what is stored last stays.
- `RegistryInv`, for `WorkflowRegistry`: the number a transaction has read is the next
  one while it holds the row (`NumberIsNext`); and each version has its schedule, or a
  registration of its definition still has to add it, or one was missed
  (`AllScheduled`).
- `TransactionInv`, for `StoreTransactions`: which operation is at which statement
  (`AskedFor`); a transaction that has written 'completed' has seen a result of every
  node, or will write one before it commits (`Completes`); what it has written by then
  (`HasWritten`); and that nothing of a call shows before it has committed (`Whole`). No
  step removes a row (`RowsKept`), so a count made earlier still holds at the commit,
  and a call leaves what belongs to the others alone (`Untouched`): only its own steps
  have to be looked at. `AloneInv` adds for a completion nobody has overlapped that no
  other writer of results is open, so what it has counted is all there is, and it has a
  status to commit.

- `ValidationInv`, for `GraphValidation`. In the depth-first search (`SearchInv`) the
  stack is a path, and a visited node that has left it is on no cycle and has all of its
  next behind it (`LeftInv`): its visited and left nodes form a closed set, so they hold
  whatever leads on from them. Thus a node that is skipped because it was visited, be it
  along another path, hides no cycle; and the outputs a call has looked at are left or on
  the stack (`LookedAtInv`). A search that ends has left its start behind, which gives one
  direction of `CyclesAreFound`; the path on the stack gives the other. In the
  breadth-first search (`ReachInv`) the next of what is marked is marked or queued, and
  what is queued is the entry node or led to by it.
- `AcceptedIsRunnable` needs more than the two searches: a finite graph without a cycle
  is well-founded (`AcyclicIsWellFounded`, by the strict subsets of what comes before a
  node), so that the joins come to every node (`JoinsReach`) and every node has an entry
  node before it (`RootsReachAll`). `JoinsReachAll` is the induction `WorkflowIsValid`
  asks for: what the engine accepts without a warning, with inputs and outputs that
  agree, is what `JoinsLoseNothing` assumes of a graph.
- `DataInv`, for `NodeUtils`. The walk is the same search with one difference, that a
  seen object is refused and not skipped. `CheckedInv`: what the walk has left is closed
  and on no cycle, so data it came through is not `Circular`. `SeenInv`: each seen object
  but the first is held in a field that has been looked at; so a refused field and the
  one in which its object was seen first are two fields with the same object, or the
  field leads back to the whole, and the data is no tree. `FieldsInv` is what was looked
  at so far, and `PendingInv` and `AnswerInv` carry the verdict over the parents.

Lemmas such as `EveryMove`, `EveryStatus`, `EveryLock`, `EveryAdd` and
`EveryStatusSet` say once what any step may do to one variable, so that each
theorem has to look only at the steps that matter to it.

Only model-checked:

- everything under fairness (`EndsUnlessCut`, `RetriesAreRun`, `EveryCallReturns`,
  `EventuallyLost`, `ChildEnds` and both `StalenessEnds`): liveness is beyond these
  provers. Of `EndsUnlessCut`, `ShutdownsLoseNothing` proves that what has come to rest
  has ended or was cut off; that it comes to rest is left to TLC;
- `NoReexecution` under control calls, in `faults` with one call: clients may remove jobs
  that have finished or failed and put them back, which the argument of `OneJobInv` does
  not cover. Where nodes branch the property does not hold.

`LockExclusive` is proved for the workers alone, `CompletedOnce` for the workers and across
shutdowns. Under control calls `CompletedOnce` fails with Drizzle's rule, see section 5.

## 5. What the models leave out

- The contents of results and inputs, mapping and merging of data, logging, spans,
  metrics, progress and events other than `completed`.
- Errors before the `try` of `executeRegularNode` have the effect of `Throws` at
  label `state`. A write that took effect although its call failed is not
  modelled, nor is a failing progress update on its own.
- BullMQ's limit on stalls, and a stalled job that is still running elsewhere; how long
  the queue is limited after a `RateLimitError`.
- One value of `MaxAttempts` serves entry jobs (always 3, `workflow-engine.ts:492`)
  and children (the node's `retryPolicy`).
- `ResultCache` takes a pipeline of `HSET`s and `EXPIRE` for one step, and leaves
  out conversions between rows and results. With the cache disabled the store is
  the table alone.
- `SubWorkflow`: the parent's execution is running throughout and has free slots; a
  second execution a retried node starts is counted, not followed; in the child no
  node feeds several others (a flow job has one parent), and there are no delay
  nodes; the row of `__aggregator__` does not enter the count of pending nodes;
  input and output mapping.
- `DistributedLock`: a `renewalRatio` of 1 or more, the warning timer, `isLocked` and
  `getRemainingTTL`.
- `InMemoryStore`: the contents of executions, `updateSpan`, statistics and queries.
- `WorkflowRegistry`: `deactivateWorkflow`, which the engine does not call, time zones
  of schedules, several schedule triggers in one definition, and read-only queries.
- `DeadLetters`: letters of jobs other than those of regular nodes (without faults no
  other node throws), and items that are listed but not retried.
- `EngineShutdown`: `forceExit` set to FALSE; several processes; cleanup handlers other
  than `WorkflowEngine.close`. Its waits for workers are those of the first step, as the
  workers are registered there. An uncaught exception is an `ExitEarly` at any phase
  but `up`; at `up` it is the crash of `WorkflowRun`.
- `StoreTransactions`: the cache (see `ResultCache`), spans and the logs a complete
  state brings with it, which lock no row another call writes. A complete state either
  has a success for every node or failures for some.
- `NodeUtils`: input and output mapping, `aggregateChildResults`, durations and retry
  settings; ids that are not strings.
- Bulk calls, replay, webhooks and schedules start independent executions through `enqueueWorkflow`; its
  look-up of the workflow and its depth limit come before what `WorkflowRun` models.

Disagreements between code and text met on the way, besides `lost_completion` and
`continue_on_fail`:

*Execution*

- A completion check between the stored failure of a node and the status counts the
  failed node as done and completes the execution; the test
  `atomic-workflow-completion.property.test.ts:68` counts only `success` or `skipped`.
- `skipNode` overwrites the result of a child that another parent had executed
  (`child-enqueue-handler.ts:89` against the comment at line 32).
- A branch excluded at its head runs from its second node on, because `skipNode`
  visits the children of the skipped node like those of a successful one.
- A completion check that outlives the lock's TTL lets a second worker announce the
  completion again (`child-enqueue-handler.ts:202` says that only one will reach
  that point); the theorem states the assumption.
- `enqueueWorkflow` creates the execution before the depth limit throws
  (`workflow-engine.ts:425-430`), and that execution stays `running`.

*Control*

- With Drizzle `resumeWorkflow` cannot leave `paused`, since the update is restricted
  to `running` rows (`drizzle-store.ts:361` against `error-handling.mdx:377`, "Workflow
  status changes to 'running'").
- `cancelWorkflow` stops at the first job that was taken since the list was read,
  because `job.remove` throws (`workflow-engine.ts:610` against
  `error-handling.mdx:391`, "All pending jobs removed from queue").
- After a cancellation an active job still enqueues its children; their own status
  check stops them (`error-handling.mdx:393` says that no new nodes start).
- `resumeWorkflow` also promotes the jobs of delay nodes and retry backoffs.
- With the in-memory store a late failure replaces `cancelled`.
- A pause or a cancellation between `getPendingNodeCount` and the status write of a
  completion: the Drizzle store refuses `completed`, without telling, and the event is
  emitted all the same (`child-enqueue-handler.ts:202`).

*Stores*

- A read puts the row it selected before an update back into the cache after the
  invalidation (`drizzle-store.ts:250`), and `updateNodeResultInTransaction` (`:840`)
  invalidates nothing, against "until invalidated, then refresh from DB" (`:43`).
- `addLog` of the in-memory store makes a log for an execution that has been removed,
  and no clean-up removes it (`inmemory-store.ts:337`, `:92`).

- Two overlapping `updateNodeResultWithCompletion` calls that write the last two results
  do not see each other's row, so neither completes the execution, against
  `drizzle-store.ts:774` ("check workflow completion atomically") and
  `drizzle-store-transaction.test.ts:389-391`. `AloneCompletes` is what remains.
- `handleExecutionTimeout`, `updateNodeResultWithCompletion` and
  `persistCompleteExecution` write the status without a condition, and so over a terminal
  one, against `drizzle-store.ts:355`.
- `getWorkflowVersion` inside a transaction takes a second connection
  (`drizzle-store.ts:109`): as many overlapping `createExecution` calls as the pool has
  connections (10 by default, the lower end of the concurrency `configuration.mdx:151`
  recommends) wait for each other for ever.
- `persistCompleteExecution` locks the execution and then the results, a completion the
  other way round: PostgreSQL ends one of them with an error.

*Sub-workflows*

- The placeholder answer may overwrite the aggregator's output
  (`node-processor.ts:257`, and the cache listener, against
  `subworkflow-handler.ts:89`: "This ensures the parent sees the actual sub-workflow
  output").
- The aggregator adds a job for the node of the parent (`subworkflow-handler.ts:97`),
  which is ignored under a known id or ends at the idempotency check: nothing enqueues
  the children of a sub-workflow node or checks the parent's completion, although
  `sub-workflows.mdx` says that the parent continues when the aggregator completes.
- In a flow with `continueOnFail` a job that failed counts as settled before the listener
  has recorded its result, so the aggregator completes the child execution while a node
  has none. The same happens behind the first job of a delay node. `FlowsAggregateAll`
  excludes both.
- If a flow fails, the aggregator never runs, and the parent's node keeps its
  placeholder success ("parent workflow node also fails").
- The nodes of a sub-workflow have two jobs each; the first job of a delay node
  completes and lets the flow go on before the delay is over.

*Lock, graphs, registry, dead letters*

- Manual renewals use up the automatic ones, since both share a counter; `shutdown`
  misses timers whose entry in `renewalTimers` another call of the same key has
  replaced or deleted (`distributed-lock.ts:272`).
- `findCyclePath` returns the whole recursion stack with its first node doubled, not
  only the cycle (`graph-validation.ts:119`).
- The validation accepts workflows whose inputs and outputs disagree, and only warns
  of unreachable nodes; such executions never complete, as some node gets no result.
- An empty workflow with triggers and no entry node is accepted, but every start of it
  throws for want of an entry node (`workflow-engine.ts:458`).
- The jobs of one execution may run under two versions of its graph
  (`node-processor.ts:119`), although an execution records the version it started
  with (`drizzle-store.ts:109`).
- A registration with another cron pattern leaves the old scheduler, since the
  pattern is part of the id (`workflow-engine.ts:211`); a workflow whose save failed is
  known to one process until its cache expires.
- `error-handling.mdx:345` passes `item.jobId` to `retryDLQItem`: that is the id of the
  failed job, and the call looks up ids of the dead-letter queue, so it finds nothing.
- With the Drizzle store failures go to the table `dlq_items` and never to the
  dead-letter queue, so `getDLQItems` and `retryDLQItem` never find them.
- A letter is in the queue before its failure is recorded (`worker-manager.ts:143`): the
  success of a quick retry is overwritten by the listener. A retry of a node of a `failed`
  execution runs it, and the status stays `failed`.
- Retries of one item in the same millisecond are one job, since the id has no other
  difference (`dlq-manager.ts:41`).

*Shutdown and input of a node*

- A shutdown does not wait for the `failed` listeners, whose events are gone with the
  process: the failed node then has no result and its execution stays `running`.
- `validateInputData` refuses an object that is in two places of the data, circular or
  not, and calls it a circular reference (`node-utils.ts:88`).
- `mergeParentInputs` is exported and tested, but the engine calls
  `buildNodeInputData` (`execution-handler.ts:132`), which validates nothing and takes the
  input data where a single parent has none.

## 6. Plan

In the order of importance; a dash marks what is done.

1. – `JobQueue`, `ExecutionStore`, `WorkflowRun`: the life of an execution.
2. – `Execution`, and that `WorkflowRun` implements it.
3. – `WorkflowControl`: cancel, pause, resume.
4. – `ResultCache`: rows, hash, and overlapping calls.
5. – `SubWorkflow`: two executions and the aggregator job.
6. – `DistributedLock`: `withLock` with its timers and counters.
7. – `InMemoryStore`: limits, clean-up and eviction.
8. – `GraphValidation`: the searches against the edges.
9. – `WorkflowRegistry`: registration, versions, caches and schedulers.
10. – `DeadLetters`: `retryDLQItem` beside the listener that fills the queue.
11. – `EngineShutdown`: the order of closing, the timeout, and what an end cuts off.
12. – `NodeUtils`: the two ways to put a node's input together.
13. – `StoreTransactions`: overlapping transactions, locks and the pool.
14. – `Lease`, and that `DistributedLock` implements it.
15. – `StoreTransactionsProofs`.
16. – `CompositionProofs`, and the properties of `WorkflowRun`, `InMemoryStore` and
    `StoreTransactions` that were only checked.
17. – `Paths`, the searches of `GraphValidation` and `NodeUtils` as steps, and
    `ValidationProofs`.
18. – The safety of `EngineShutdown`, in `CompositionProofs`.
19. The completion lock of `WorkflowRun` as an instance of `Lease`.
20. The starts around an execution: replay, webhooks and schedules with their look-ups.
21. Proofs under control calls: that a terminal status stays, the lock, and when
    `NoReexecution` holds.

A new module gets one run for the question it asks, and joins an existing run where
it only extends the behaviour that run already checks.
