-------------------------- MODULE WorkflowRegistry --------------------------
(***************************************************************************)
(* The definitions of one workflow: its versions in PostgreSQL             *)
(* (saveWorkflow and getWorkflow of db/drizzle-store.ts), the LRU cache of *)
(* each process and the job schedulers in Redis                            *)
(* (engine/workflow-engine.ts).  Calls run in processes and interleave at  *)
(* every await.  A call holds in "chosen" the definition it registers or   *)
(* works with.  Only valid definitions come this far (see                  *)
(* GraphValidation); with a store that persists nothing every save is one  *)
(* that fails.                                                             *)
(***************************************************************************)
EXTENDS Integers, Sequences

CONSTANTS
    Calls,             \* calls of registerWorkflow, getWorkflow and so on
    Processes,         \* instances of WorkflowEngine
    Home,              \* the process of a call
    Definitions,
    Cron,              \* the schedule trigger of a definition, or None
    TTL,               \* ttlMs of the cache, in units
    MaxRegistrations,  \* bound on calls of registerWorkflow
    None               \* nothing

ASSUME RegistryAssumption ==
    /\ Home \in [Calls -> Processes]
    /\ None \notin Definitions /\ None \notin Calls
    /\ TTL \in Nat \ {0}
    /\ MaxRegistrations \in Nat

VARIABLES
    versions,       \* workflow_versions, by id, committed
    current,        \* currentVersionId of the workflow, 0 for null
    writer,         \* the transaction that holds the workflow's row
    cache,          \* workflowCache of a process, at this workflow
    left,           \* units until the cached definition expires
    schedulers,     \* cron patterns of the workflow's job schedulers
    pc,             \* where a call is
    chosen,         \* the definition it registers, or works with
    read,           \* the version it will insert, or the id it has selected
    listed,         \* the schedulers it has listed for removal
    registrations,  \* calls of registerWorkflow so far
    missed          \* a scheduler was removed or not added (observation only)

database == <<versions, current, writer>>
caches == <<cache, left>>
hands == <<chosen, read, listed>>
vars == <<database, caches, schedulers, pc, hands, registrations, missed>>

Init ==
    /\ versions = <<>>
    /\ current = 0
    /\ writer = None
    /\ cache = [p \in Processes |-> None]
    /\ left = [p \in Processes |-> 0]
    /\ schedulers = {}
    /\ pc = [c \in Calls |-> "idle"]
    /\ chosen = [c \in Calls |-> None]
    /\ read = [c \in Calls |-> 0]
    /\ listed = [c \in Calls |-> {}]
    /\ registrations = 0
    /\ missed = FALSE

Goto(c, label) == pc' = [pc EXCEPT ![c] = label]

\* A call returns or throws, and its locals are gone.
Leave(c) ==
    /\ Goto(c, "idle")
    /\ chosen' = [chosen EXCEPT ![c] = None]
    /\ read' = [read EXCEPT ![c] = 0]
    /\ listed' = [listed EXCEPT ![c] = {}]

SetCache(p, definition) ==
    /\ cache' = [cache EXCEPT ![p] = definition]
    /\ left' = [left EXCEPT ![p] = TTL]

-----------------------------------------------------------------------------
(***************************************************************************)
(* registerWorkflow                                                        *)
(***************************************************************************)
Register(c, definition) ==
    /\ pc[c] = "idle"
    /\ registrations < MaxRegistrations
    /\ registrations' = registrations + 1
    /\ chosen' = [chosen EXCEPT ![c] = definition]
    /\ Goto(c, "upsert")
    /\ UNCHANGED <<database, caches, schedulers, read, listed, missed>>

NextVersion ==
    IF versions = <<>> THEN 1
    ELSE LET Newest(i) == \A j \in DOMAIN versions :
                              versions[j].version <= versions[i].version
         IN versions[CHOOSE i \in DOMAIN versions : Newest(i)].version + 1

\* Wrong: ON CONFLICT DO NOTHING, which does not lock the row.
InsertIfAbsent(c) ==
    /\ pc[c] = "upsert"
    /\ read' = [read EXCEPT ![c] = NextVersion]
    /\ Goto(c, "commit")
    /\ UNCHANGED <<database, caches, schedulers, chosen, listed, registrations,
                   missed>>

\* ON CONFLICT DO UPDATE waits for the row and keeps it until the end of the
\* transaction, so nobody commits between this select and the insert.
Upsert(c) ==
    /\ pc[c] = "upsert"
    /\ writer = None
    /\ writer' = c
    /\ read' = [read EXCEPT ![c] = NextVersion]
    /\ Goto(c, "commit")
    /\ UNCHANGED <<versions, current, caches, schedulers, chosen, listed,
                   registrations, missed>>

Commit(c) ==
    /\ pc[c] = "commit"
    /\ versions' = Append(versions, [version |-> read[c], definition |-> chosen[c]])
    /\ current' = Len(versions')
    /\ writer' = None
    /\ read' = [read EXCEPT ![c] = 0]
    /\ Goto(c, "cache")
    /\ UNCHANGED <<caches, schedulers, chosen, listed, registrations, missed>>

\* An error is logged, and the registration goes on in memory.
SaveFails(c) ==
    /\ pc[c] \in {"upsert", "commit"}
    /\ writer' = IF writer = c THEN None ELSE writer
    /\ read' = [read EXCEPT ![c] = 0]
    /\ Goto(c, "cache")
    /\ UNCHANGED <<versions, current, caches, schedulers, chosen, listed,
                   registrations, missed>>

CacheRegistered(c) ==
    /\ pc[c] = "cache"
    /\ SetCache(Home[c], chosen[c])
    /\ \/ /\ Cron[chosen[c]] = None
          /\ Leave(c)
       \/ /\ Cron[chosen[c]] # None
          /\ Goto(c, "schedule")
          /\ UNCHANGED hands
    /\ UNCHANGED <<database, schedulers, registrations, missed>>

\* Wrong: the new schedule takes the place of the others.
ScheduleAlone(c) ==
    /\ pc[c] = "schedule"
    /\ schedulers' = {Cron[chosen[c]]}
    /\ Leave(c)
    /\ UNCHANGED <<database, caches, registrations, missed>>

\* registerScheduleWithUpsert: the scheduler's id contains the pattern.
Schedule(c) ==
    /\ pc[c] = "schedule"
    /\ schedulers' = schedulers \cup {Cron[chosen[c]]}
    /\ Leave(c)
    /\ UNCHANGED <<database, caches, registrations, missed>>

\* registerWorkflow throws; what it saved and cached stays.
ScheduleFails(c) ==
    /\ pc[c] = "schedule"
    /\ missed' = TRUE
    /\ Leave(c)
    /\ UNCHANGED <<database, caches, schedulers, registrations>>

-----------------------------------------------------------------------------
(***************************************************************************)
(* getWorkflow, and getWorkflowWithLazyLoad of the node processor          *)
(***************************************************************************)
\* Wrong: updateAgeOnGet.
HitRenews(c) ==
    /\ pc[c] = "idle"
    /\ cache[Home[c]] # None
    /\ chosen' = [chosen EXCEPT ![c] = cache[Home[c]]]
    /\ SetCache(Home[c], cache[Home[c]])
    /\ Goto(c, "use")
    /\ UNCHANGED <<database, schedulers, read, listed, registrations, missed>>

Hit(c) ==
    /\ pc[c] = "idle"
    /\ cache[Home[c]] # None
    /\ chosen' = [chosen EXCEPT ![c] = cache[Home[c]]]
    /\ Goto(c, "use")
    /\ UNCHANGED <<database, caches, schedulers, read, listed, registrations, missed>>

Miss(c) ==
    /\ pc[c] = "idle"
    /\ cache[Home[c]] = None
    /\ Goto(c, "select")
    /\ UNCHANGED <<database, caches, schedulers, hands, registrations, missed>>

\* Without a current version the answer is that there is no workflow.
SelectWorkflow(c) ==
    /\ pc[c] = "select"
    /\ \/ /\ current = 0
          /\ Leave(c)
       \/ /\ current # 0
          /\ read' = [read EXCEPT ![c] = current]
          /\ Goto(c, "fill")
          /\ UNCHANGED <<chosen, listed>>
    /\ UNCHANGED <<database, caches, schedulers, registrations, missed>>

\* Selects the version, which never changes, and caches its definition, whatever
\* the cache holds by now.
Fill(c) ==
    /\ pc[c] = "fill"
    /\ chosen' = [chosen EXCEPT ![c] = versions[read[c]].definition]
    /\ read' = [read EXCEPT ![c] = 0]
    /\ SetCache(Home[c], versions[read[c]].definition)
    /\ Goto(c, "use")
    /\ UNCHANGED <<database, schedulers, listed, registrations, missed>>

LoadFails(c) ==
    /\ pc[c] \in {"select", "fill"}
    /\ Leave(c)
    /\ UNCHANGED <<database, caches, schedulers, registrations, missed>>

\* The caller has done its work with the definition.
Finish(c) ==
    /\ pc[c] = "use"
    /\ Leave(c)
    /\ UNCHANGED <<database, caches, schedulers, registrations, missed>>

-----------------------------------------------------------------------------
(***************************************************************************)
(* removeWorkflowSchedulers                                                *)
(***************************************************************************)
ListSchedulers(c) ==
    /\ pc[c] = "idle"
    /\ schedulers # {}
    /\ listed' = [listed EXCEPT ![c] = schedulers]
    /\ Goto(c, "remove")
    /\ UNCHANGED <<database, caches, schedulers, chosen, read, registrations, missed>>

\* One at a time; a scheduler added after the listing stays.
RemoveScheduler(c) ==
    /\ pc[c] = "remove"
    /\ \E cron \in listed[c] :
          /\ schedulers' = schedulers \ {cron}
          /\ \/ listed[c] = {cron} /\ Leave(c)
             \/ /\ listed[c] # {cron}
                /\ listed' = [listed EXCEPT ![c] = @ \ {cron}]
                /\ UNCHANGED <<pc, chosen, read>>
    /\ missed' = TRUE
    /\ UNCHANGED <<database, caches, registrations>>

-----------------------------------------------------------------------------
(***************************************************************************)
(* Processes and time                                                      *)
(***************************************************************************)
\* The cache is full of other workflows.
Evict(p) ==
    /\ cache[p] # None
    /\ cache' = [cache EXCEPT ![p] = None]
    /\ left' = [left EXCEPT ![p] = 0]
    /\ UNCHANGED <<database, schedulers, pc, hands, registrations, missed>>

\* The process ends and starts again; PostgreSQL rolls back its transactions.
Restart(p) ==
    /\ cache' = [cache EXCEPT ![p] = None]
    /\ left' = [left EXCEPT ![p] = 0]
    /\ writer' = IF writer # None /\ Home[writer] = p THEN None ELSE writer
    /\ missed' = (missed \/ \E c \in Calls : Home[c] = p /\ pc[c] \in {"cache", "schedule"})
    /\ pc' = [c \in Calls |-> IF Home[c] = p THEN "idle" ELSE pc[c]]
    /\ chosen' = [c \in Calls |-> IF Home[c] = p THEN None ELSE chosen[c]]
    /\ read' = [c \in Calls |-> IF Home[c] = p THEN 0 ELSE read[c]]
    /\ listed' = [c \in Calls |-> IF Home[c] = p THEN {} ELSE listed[c]]
    /\ UNCHANGED <<versions, current, schedulers, registrations>>

\* A unit passes; ttlAutopurge deletes what has expired.
Tick ==
    /\ left' = [p \in Processes |-> IF left[p] > 0 THEN left[p] - 1 ELSE 0]
    /\ cache' = [p \in Processes |-> IF left[p] > 1 THEN cache[p] ELSE None]
    /\ UNCHANGED <<database, schedulers, pc, hands, registrations, missed>>

-----------------------------------------------------------------------------
Next ==
    \/ \E c \in Calls :
          \/ \E definition \in Definitions : Register(c, definition)
          \/ Upsert(c) \/ Commit(c) \/ SaveFails(c) \/ CacheRegistered(c)
          \/ Schedule(c) \/ ScheduleFails(c)
          \/ Hit(c) \/ Miss(c) \/ SelectWorkflow(c) \/ Fill(c) \/ LoadFails(c)
          \/ Finish(c) \/ ListSchedulers(c) \/ RemoveScheduler(c)
    \/ \E p \in Processes : Evict(p) \/ Restart(p)
    \/ Tick

Spec == Init /\ [][Next]_vars

\* The clock goes on.  Of the calls nothing is assumed.
FairSpec == Spec /\ WF_vars(Tick)

-----------------------------------------------------------------------------
(***************************************************************************)
(* Properties                                                              *)
(***************************************************************************)
Labels == {"idle", "upsert", "commit", "cache", "schedule", "select", "fill",
           "use", "remove"}

Registering(c) == pc[c] \in {"upsert", "commit", "cache", "schedule"}

Patterns == {Cron[definition] : definition \in Definitions} \ {None}

\* Among the types: the row is held exactly by a transaction under way, and a
\* cached definition has time left.
TypeOK ==
    /\ versions \in Seq([version : Nat, definition : Definitions])
    /\ current \in 0..Len(versions)
    /\ writer \in Calls \cup {None}
    /\ cache \in [Processes -> Definitions \cup {None}]
    /\ left \in [Processes -> 0..TTL]
    /\ schedulers \subseteq Patterns
    /\ \A p \in Processes : cache[p] = None <=> left[p] = 0
    /\ pc \in [Calls -> Labels]
    /\ \A c \in Calls : pc[c] = "commit" <=> writer = c
    /\ chosen \in [Calls -> Definitions \cup {None}]
    /\ read \in [Calls -> Nat]
    /\ listed \in [Calls -> SUBSET Patterns]
    /\ \A c \in Calls : Registering(c) => chosen[c] # None
    /\ \A c \in Calls : pc[c] = "schedule" => Cron[chosen[c]] # None
    /\ \A c \in Calls : pc[c] = "fill" => read[c] \in 1..Len(versions)
    /\ registrations \in Nat
    /\ missed \in BOOLEAN

\* saveWorkflow counts the versions 1, 2, 3, ... whatever processes register at the
\* same time, although no unique index asks for it, and the workflow's current
\* version is the last one.
VersionsInOrder ==
    /\ \A i \in DOMAIN versions : versions[i].version = i
    /\ current = Len(versions)

CurrentDefinition == IF current = 0 THEN None ELSE versions[current].definition

\* However registrations overlap, and whichever commits last, the schedule of the
\* current definition is there when all have returned without an error, unless
\* schedulers have been removed.
CurrentIsScheduled ==
    ~missed /\ current # 0 /\ (\A c \in Calls : ~Registering(c))
        => Cron[CurrentDefinition] \in schedulers \cup {None}

\* "This prevents frequently accessed workflows from never expiring": when the
\* registrations have ended, each process comes to the current definition, even one
\* whose load was overtaken by a registration and one whose save failed.
StalenessEnds ==
    <>[](\A p \in Processes : cache[p] \in {None, CurrentDefinition})

=============================================================================
