----------------------- MODULE WorkflowRegistryProofs -----------------------
(***************************************************************************)
(* The versions of a workflow are counted without gaps or repetitions, and *)
(* the current definition is scheduled, however many processes register    *)
(* at the same time.                                                       *)
(***************************************************************************)
EXTENDS WorkflowRegistry, TLAPS

Version == [version : Nat, definition : Definitions]

\* A version that is not scheduled yet is in the hands of its registration.
Pending(definition) ==
    \E c \in Calls : pc[c] \in {"cache", "schedule"} /\ chosen[c] = definition

AllScheduled ==
    ~missed => \A i \in DOMAIN versions :
        \/ Cron[versions[i].definition] \in schedulers \cup {None}
        \/ Pending(versions[i].definition)

\* The number a transaction has read is still the next one.
NumberIsNext == \A c \in Calls : pc[c] = "commit" => read[c] = Len(versions) + 1

RegistryInv == TypeOK /\ VersionsInOrder /\ NumberIsNext /\ AllScheduled

\* The parts of TypeOK.
DatabaseOK ==
    /\ versions \in Seq(Version)
    /\ current \in 0..Len(versions)
    /\ schedulers \subseteq Patterns
    /\ registrations \in Nat
    /\ missed \in BOOLEAN

CachesOK ==
    /\ cache \in [Processes -> Definitions \cup {None}]
    /\ left \in [Processes -> 0..TTL]
    /\ \A p \in Processes : cache[p] = None <=> left[p] = 0

HandsOK ==
    /\ chosen \in [Calls -> Definitions \cup {None}]
    /\ read \in [Calls -> Nat]
    /\ listed \in [Calls -> SUBSET Patterns]

CallsOK ==
    /\ writer \in Calls \cup {None}
    /\ pc \in [Calls -> Labels]
    /\ \A c \in Calls : pc[c] = "commit" <=> writer = c
    /\ \A c \in Calls : Registering(c) => chosen[c] # None
    /\ \A c \in Calls : pc[c] = "schedule" => Cron[chosen[c]] # None
    /\ \A c \in Calls : pc[c] = "fill" => read[c] \in 1..Len(versions)

LEMMA TypeParts == TypeOK <=> DatabaseOK /\ CachesOK /\ HandsOK /\ CallsOK
    BY DEF TypeOK, DatabaseOK, CachesOK, HandsOK, CallsOK, Version

LEMMA InitRegistry == Init => RegistryInv
<1> SUFFICES ASSUME Init PROVE RegistryInv
    OBVIOUS
<1> USE RegistryAssumption DEF Init
<1>1. TypeOK
  <2>1. versions \in Seq(Version) /\ Len(versions) = 0
      OBVIOUS
  <2>2. missed \in BOOLEAN
      OBVIOUS
  <2>3. registrations \in Nat /\ current \in 0..Len(versions)
      BY <2>1
  <2>4. /\ left \in [Processes -> 0..TTL]
        /\ cache \in [Processes -> Definitions \cup {None}]
        /\ \A p \in Processes : cache[p] = None <=> left[p] = 0
      OBVIOUS
  <2>5. /\ pc \in [Calls -> Labels]
        /\ \A c \in Calls : pc[c] = "idle"
        /\ chosen \in [Calls -> Definitions \cup {None}]
        /\ read \in [Calls -> Nat]
        /\ listed \in [Calls -> SUBSET Patterns]
        /\ schedulers \subseteq Patterns
      BY DEF Labels
  <2> QED
      BY <2>1, <2>2, <2>3, <2>4, <2>5 DEF TypeOK, Registering, Version
<1>2. VersionsInOrder
    BY DEF VersionsInOrder
<1>3. NumberIsNext
    BY DEF NumberIsNext
<1>4. AllScheduled
    BY DEF AllScheduled
<1> QED
    BY <1>1, <1>2, <1>3, <1>4 DEF RegistryInv

\* What NextVersion finds is the number of the last version.
LEMMA NextIsLast ==
    ASSUME TypeOK, VersionsInOrder
    PROVE  NextVersion = Len(versions) + 1
<1>0. versions \in Seq(Version)
    BY DEF TypeOK, Version
<1>1. CASE versions = <<>>
    BY <1>1 DEF NextVersion
<1>2. CASE versions # <<>>
  <2> DEFINE Newest(i) == \A j \in DOMAIN versions :
                              versions[j].version <= versions[i].version
  <2> DEFINE last == CHOOSE i \in DOMAIN versions : Newest(i)
  <2>1. DOMAIN versions = 1..Len(versions) /\ Len(versions) \in Nat \ {0}
      BY <1>0, <1>2
  <2>2. Newest(Len(versions)) /\ Len(versions) \in DOMAIN versions
      BY <2>1 DEF VersionsInOrder
  <2>3. last \in DOMAIN versions /\ Newest(last)
      BY <2>2
  <2>4. last = Len(versions)
      BY <2>1, <2>2, <2>3 DEF VersionsInOrder
  <2>5. NextVersion = versions[last].version + 1
      BY <1>2 DEF NextVersion
  <2> QED
      BY <2>1, <2>4, <2>5 DEF VersionsInOrder
<1> QED
    BY <1>1, <1>2

LEMMA DatabaseStep == TypeOK /\ VersionsInOrder /\ [Next]_vars => DatabaseOK'
<1> SUFFICES ASSUME TypeOK, VersionsInOrder, [Next]_vars PROVE DatabaseOK'
    OBVIOUS
<1> USE TypeParts DEF DatabaseOK
<1>0. CASE UNCHANGED <<versions, current, schedulers, registrations, missed>>
    BY <1>0
<1>1. ASSUME NEW c \in Calls, NEW d \in Definitions, Register(c, d)
      PROVE  DatabaseOK'
    BY <1>1 DEF Register, database
<1>2. ASSUME NEW c \in Calls, Commit(c) PROVE DatabaseOK'
  <2>1. chosen[c] \in Definitions /\ read[c] \in Nat
      BY <1>2 DEF Commit, CallsOK, HandsOK, Registering
  <2> QED
      BY <1>2, <2>1 DEF Commit, Version
<1>3. ASSUME NEW c \in Calls, Schedule(c) PROVE DatabaseOK'
  <2>1. chosen[c] \in Definitions /\ Cron[chosen[c]] # None
      BY <1>3 DEF Schedule, CallsOK, HandsOK, Registering
  <2>2. Cron[chosen[c]] \in Patterns
      BY <2>1 DEF Patterns
  <2> QED
      BY <1>3, <2>2 DEF Schedule, database
<1>4. ASSUME NEW c \in Calls, ScheduleFails(c) PROVE DatabaseOK'
    BY <1>4 DEF ScheduleFails, database
<1>5. ASSUME NEW c \in Calls, RemoveScheduler(c) PROVE DatabaseOK'
    BY <1>5 DEF RemoveScheduler, database
<1>6. ASSUME NEW p \in Processes, Restart(p) PROVE DatabaseOK'
    BY <1>6 DEF Restart
<1> QED
    BY <1>0, <1>1, <1>2, <1>3, <1>4, <1>5, <1>6
       DEF Next, vars, database, Upsert, SaveFails, CacheRegistered, Hit, Miss,
           SelectWorkflow, Fill, LoadFails, Finish, ListSchedulers, Evict, Tick

LEMMA CachesStep == TypeOK /\ [Next]_vars => CachesOK'
<1> SUFFICES ASSUME TypeOK, [Next]_vars PROVE CachesOK'
    OBVIOUS
<1> USE TypeParts, RegistryAssumption DEF CachesOK
<1>0. CASE UNCHANGED caches
    BY <1>0 DEF caches
<1>1. ASSUME NEW c \in Calls, CacheRegistered(c) PROVE CachesOK'
  <2>1. chosen[c] \in Definitions /\ Home[c] \in Processes
      BY <1>1 DEF CacheRegistered, CallsOK, HandsOK, Registering
  <2> QED
      BY <1>1, <2>1 DEF CacheRegistered, SetCache
<1>2. ASSUME NEW c \in Calls, Fill(c) PROVE CachesOK'
  <2>1. versions[read[c]] \in Version
      BY <1>2 DEF Fill, CallsOK, DatabaseOK
  <2>2. versions[read[c]].definition \in Definitions /\ Home[c] \in Processes
      BY <2>1 DEF Version
  <2> QED
      BY <1>2, <2>2 DEF Fill, SetCache
<1>3. ASSUME NEW p \in Processes, Evict(p) PROVE CachesOK'
    BY <1>3 DEF Evict
<1>4. ASSUME NEW p \in Processes, Restart(p) PROVE CachesOK'
    BY <1>4 DEF Restart
<1>5. CASE Tick
    BY <1>5 DEF Tick
<1> QED
    BY <1>0, <1>1, <1>2, <1>3, <1>4, <1>5
       DEF Next, vars, Register, Upsert, Commit, SaveFails, Schedule,
           ScheduleFails, Hit, Miss, SelectWorkflow, LoadFails, Finish,
           ListSchedulers, RemoveScheduler

LEMMA HandsStep == TypeOK /\ VersionsInOrder /\ [Next]_vars => HandsOK'
<1> SUFFICES ASSUME TypeOK, VersionsInOrder, [Next]_vars PROVE HandsOK'
    OBVIOUS
<1> USE TypeParts DEF HandsOK
<1>0. CASE UNCHANGED hands
    BY <1>0 DEF hands
<1>1. ASSUME NEW c \in Calls, Leave(c) PROVE HandsOK'
    BY <1>1 DEF Leave
<1>2. ASSUME NEW c \in Calls, NEW d \in Definitions, Register(c, d)
      PROVE  HandsOK'
    BY <1>2 DEF Register
<1>3. ASSUME NEW c \in Calls, Upsert(c) PROVE HandsOK'
  <2>1. NextVersion \in Nat
      BY NextIsLast DEF DatabaseOK
  <2> QED
      BY <1>3, <2>1 DEF Upsert
<1>4. ASSUME NEW c \in Calls, Commit(c) \/ SaveFails(c) PROVE HandsOK'
    BY <1>4 DEF Commit, SaveFails
<1>5. ASSUME NEW c \in Calls, Hit(c) PROVE HandsOK'
  <2>1. cache[Home[c]] \in Definitions \cup {None}
      BY RegistryAssumption DEF CachesOK
  <2> QED
      BY <1>5, <2>1 DEF Hit
<1>6. ASSUME NEW c \in Calls, SelectWorkflow(c) PROVE HandsOK'
  <2>1. current \in Nat
      BY DEF DatabaseOK
  <2> QED
      BY <1>1, <1>6, <2>1 DEF SelectWorkflow
<1>7. ASSUME NEW c \in Calls, Fill(c) PROVE HandsOK'
  <2>1. versions[read[c]] \in Version
      BY <1>7 DEF Fill, CallsOK, DatabaseOK
  <2>2. versions[read[c]].definition \in Definitions
      BY <2>1 DEF Version
  <2> QED
      BY <1>7, <2>2 DEF Fill
<1>8. ASSUME NEW c \in Calls, ListSchedulers(c) PROVE HandsOK'
    BY <1>8 DEF ListSchedulers, DatabaseOK
<1>9. ASSUME NEW c \in Calls, RemoveScheduler(c) PROVE HandsOK'
    BY <1>1, <1>9 DEF RemoveScheduler
<1>10. ASSUME NEW p \in Processes, Restart(p) PROVE HandsOK'
    BY <1>10 DEF Restart
<1> QED
    BY <1>0, <1>1, <1>2, <1>3, <1>4, <1>5, <1>6, <1>7, <1>8, <1>9, <1>10
       DEF Next, vars, CacheRegistered, Schedule, ScheduleFails, Miss, LoadFails,
           Finish, Evict, Tick

LEMMA CallsStep == TypeOK /\ [Next]_vars => CallsOK'
<1> SUFFICES ASSUME TypeOK, [Next]_vars PROVE CallsOK'
    OBVIOUS
<1> USE TypeParts, RegistryAssumption DEF CallsOK, Registering, Labels, Goto
<1>1. ASSUME NEW c \in Calls, NEW d \in Definitions, Register(c, d)
      PROVE  CallsOK'
    BY <1>1 DEF Register, database, HandsOK
<1>2. ASSUME NEW c \in Calls, Upsert(c) PROVE CallsOK'
    BY <1>2 DEF Upsert, HandsOK
<1>3. ASSUME NEW c \in Calls, Commit(c) PROVE CallsOK'
  <2>1. Len(versions') = Len(versions) + 1 /\ Len(versions) \in Nat
      BY <1>3 DEF Commit, DatabaseOK
  <2> QED
      BY <1>3, <2>1 DEF Commit, HandsOK
<1>4. ASSUME NEW c \in Calls, SaveFails(c) PROVE CallsOK'
    BY <1>4 DEF SaveFails, HandsOK
<1>5. ASSUME NEW c \in Calls, pc[c] # "commit", UNCHANGED <<versions, writer>>, Leave(c)
      PROVE  CallsOK'
    BY <1>5 DEF Leave, HandsOK
<1>6. ASSUME NEW c \in Calls, CacheRegistered(c) PROVE CallsOK'
    BY <1>5, <1>6 DEF CacheRegistered, database, hands
<1>7. ASSUME NEW c \in Calls, Schedule(c) \/ ScheduleFails(c) PROVE CallsOK'
    BY <1>5, <1>7 DEF Schedule, ScheduleFails, database
<1>8. ASSUME NEW c \in Calls, LoadFails(c) \/ Finish(c) PROVE CallsOK'
    BY <1>5, <1>8 DEF LoadFails, Finish, database
<1>9. ASSUME NEW c \in Calls, Hit(c) PROVE CallsOK'
    BY <1>9 DEF Hit, database, HandsOK
<1>10. ASSUME NEW c \in Calls, Miss(c) PROVE CallsOK'
    BY <1>10 DEF Miss, database, hands
<1>11. ASSUME NEW c \in Calls, SelectWorkflow(c) PROVE CallsOK'
  <2>1. CASE current = 0
      BY <1>5, <1>11, <2>1 DEF SelectWorkflow, database
  <2>2. CASE current # 0
    <3>1. current \in 1..Len(versions)
        BY <2>2 DEF DatabaseOK
    <3> QED
        BY <1>11, <2>2, <3>1 DEF SelectWorkflow, database, HandsOK
  <2> QED
      BY <2>1, <2>2
<1>12. ASSUME NEW c \in Calls, Fill(c) PROVE CallsOK'
    BY <1>12 DEF Fill, database, HandsOK
<1>13. ASSUME NEW c \in Calls, ListSchedulers(c) PROVE CallsOK'
    BY <1>13 DEF ListSchedulers, database, HandsOK
<1>14. ASSUME NEW c \in Calls, RemoveScheduler(c) PROVE CallsOK'
    BY <1>5, <1>14 DEF RemoveScheduler, database
<1>15. ASSUME NEW p \in Processes, Restart(p) PROVE CallsOK'
    BY <1>15 DEF Restart, HandsOK
<1>16. CASE UNCHANGED <<versions, writer, pc, hands>>
    BY <1>16 DEF hands
<1> QED
    BY <1>1, <1>2, <1>3, <1>4, <1>6, <1>7, <1>8, <1>9, <1>10, <1>11, <1>12, <1>13,
       <1>14, <1>15, <1>16 DEF Next, vars, database, Evict, Tick

LEMMA TypeStep == TypeOK /\ VersionsInOrder /\ [Next]_vars => TypeOK'
    BY DatabaseStep, CachesStep, HandsStep, CallsStep, TypeParts
       DEF DatabaseOK, CachesOK, HandsOK, CallsOK, TypeOK, Version, Registering

\* The row keeps other transactions away from a number that has been read.
LEMMA NumberStep == RegistryInv /\ [Next]_vars => VersionsInOrder' /\ NumberIsNext'
<1> SUFFICES ASSUME RegistryInv, [Next]_vars
             PROVE  VersionsInOrder' /\ NumberIsNext'
    OBVIOUS
<1> USE TypeParts DEF RegistryInv, VersionsInOrder, NumberIsNext, CallsOK, HandsOK
<1>1. ASSUME NEW c \in Calls, Commit(c) PROVE VersionsInOrder' /\ NumberIsNext'
  <2>1. /\ versions' = Append(versions, [version |-> read[c],
                                         definition |-> chosen[c]])
        /\ current' = Len(versions')
        /\ read[c] = Len(versions) + 1
      BY <1>1 DEF Commit
  <2>2. VersionsInOrder'
      BY <2>1 DEF DatabaseOK
  <2>3. \A other \in Calls : pc'[other] # "commit"
      BY <1>1, RegistryAssumption DEF Commit, Goto
  <2> QED
      BY <2>2, <2>3
<1>2. ASSUME NEW c \in Calls, Upsert(c) PROVE VersionsInOrder' /\ NumberIsNext'
    BY <1>2, NextIsLast DEF Upsert, Goto
<1>3. ASSUME UNCHANGED <<versions, current>>,
             \A c \in Calls : pc'[c] = "commit" => pc[c] = "commit" /\ read'[c] = read[c]
      PROVE  VersionsInOrder' /\ NumberIsNext'
    BY <1>3
<1>4. ASSUME NEW c \in Calls, pc[c] # "commit", UNCHANGED <<versions, current>>,
             Leave(c)
      PROVE  VersionsInOrder' /\ NumberIsNext'
    BY <1>3, <1>4 DEF Leave, Goto
<1>5. ASSUME NEW c \in Calls, NEW d \in Definitions, Register(c, d)
      PROVE  VersionsInOrder' /\ NumberIsNext'
    BY <1>3, <1>5 DEF Register, Goto, database
<1>6. ASSUME NEW c \in Calls, SaveFails(c) PROVE VersionsInOrder' /\ NumberIsNext'
    BY <1>3, <1>6 DEF SaveFails, Goto
<1>7. ASSUME NEW c \in Calls, CacheRegistered(c) \/ Schedule(c) \/ ScheduleFails(c)
      PROVE  VersionsInOrder' /\ NumberIsNext'
    BY <1>3, <1>4, <1>7
       DEF CacheRegistered, Schedule, ScheduleFails, Goto, database, hands
<1>8. ASSUME NEW c \in Calls, Hit(c) \/ Miss(c) \/ ListSchedulers(c) \/ Fill(c)
      PROVE  VersionsInOrder' /\ NumberIsNext'
    BY <1>3, <1>8 DEF Hit, Miss, ListSchedulers, Fill, Goto, database, hands
<1>9. ASSUME NEW c \in Calls, SelectWorkflow(c) \/ LoadFails(c) \/ Finish(c)
      PROVE  VersionsInOrder' /\ NumberIsNext'
    BY <1>3, <1>4, <1>9 DEF SelectWorkflow, LoadFails, Finish, Goto, database
<1>10. ASSUME NEW c \in Calls, RemoveScheduler(c)
       PROVE  VersionsInOrder' /\ NumberIsNext'
    BY <1>3, <1>4, <1>10 DEF RemoveScheduler, database
<1>11. ASSUME NEW p \in Processes, Restart(p) PROVE VersionsInOrder' /\ NumberIsNext'
    BY <1>3, <1>11 DEF Restart
<1>12. CASE UNCHANGED <<versions, current, pc, read>>
    BY <1>12
<1> QED
    BY <1>1, <1>2, <1>5, <1>6, <1>7, <1>8, <1>9, <1>10, <1>11, <1>12
       DEF Next, vars, database, hands, Evict, Tick

\* Each version passes from its registration to the schedulers.
LEMMA ScheduledStep == RegistryInv /\ [Next]_vars => AllScheduled'
<1> SUFFICES ASSUME RegistryInv, [Next]_vars PROVE AllScheduled'
    OBVIOUS
<1>a. versions \in Seq(Version)
    BY TypeParts DEF RegistryInv, DatabaseOK
<1>b. /\ DOMAIN versions = 1..Len(versions)
      /\ Len(versions) \in Nat
      /\ \A i \in DOMAIN versions : versions[i] \in Version
    BY <1>a
<1>c. \A i \in DOMAIN versions : versions[i].definition \in Definitions
    BY <1>b DEF Version
<1> USE TypeParts DEF RegistryInv, HandsOK, CallsOK, Goto
<1> DEFINE Carried(c) == pc[c] \in {"cache", "schedule"}
<1>1. ASSUME versions' = versions, schedulers \subseteq schedulers',
             missed' \/ missed' = missed,
             \A c \in Calls : Carried(c) => Carried(c)' /\ chosen'[c] = chosen[c]
      PROVE  AllScheduled'
    BY <1>1 DEF AllScheduled, Pending
<1>2. ASSUME missed' PROVE AllScheduled'
    BY <1>2 DEF AllScheduled
<1>3. ASSUME NEW c \in Calls, NEW d \in Definitions, Register(c, d)
      PROVE  AllScheduled'
    BY <1>1, <1>3 DEF Register, database
<1>4. ASSUME NEW c \in Calls, Upsert(c) \/ SaveFails(c) PROVE AllScheduled'
    BY <1>1, <1>4 DEF Upsert, SaveFails
<1>5. ASSUME NEW c \in Calls, Commit(c) PROVE AllScheduled'
  <2>1. /\ versions' = Append(versions, [version |-> read[c],
                                         definition |-> chosen[c]])
        /\ UNCHANGED <<chosen, schedulers, missed>>
        /\ pc' = [pc EXCEPT ![c] = "cache"] /\ pc[c] = "commit"
      BY <1>5 DEF Commit
  <2>2. Pending(chosen[c])'
      BY <2>1 DEF Pending
  <2>3. \A d \in Definitions : Pending(d) => Pending(d)'
      BY <2>1 DEF Pending
  <2>4. /\ DOMAIN versions' = 1..(Len(versions) + 1)
        /\ versions'[Len(versions) + 1].definition = chosen[c]
        /\ \A i \in DOMAIN versions : versions'[i] = versions[i]
      BY <1>a, <1>b, <2>1
  <2>5. ASSUME ~missed', NEW i \in DOMAIN versions'
        PROVE  \/ Cron[versions'[i].definition] \in schedulers' \cup {None}
               \/ Pending(versions[i].definition)'
    <3>1. CASE i = Len(versions) + 1
      <4>1. versions'[i].definition = chosen[c]
          BY <2>4, <3>1
      <4>2. Pending(versions[i].definition)'
          BY <2>1, <4>1 DEF Pending
      <4> QED
          BY <4>2
    <3>2. CASE i # Len(versions) + 1
      <4>1. i \in DOMAIN versions
          BY <1>b, <2>4, <3>2
      <4>2. \/ Cron[versions[i].definition] \in schedulers \cup {None}
            \/ Pending(versions[i].definition)
          BY <2>1, <2>5, <4>1 DEF AllScheduled
      <4>3. versions'[i].definition = versions[i].definition
          BY <2>4, <4>1
      <4> QED
          BY <1>c, <2>1, <2>3, <4>1, <4>2, <4>3 DEF Pending
    <3> QED
        BY <3>1, <3>2
  <2> QED
      BY <2>5 DEF AllScheduled, Pending
<1>6. ASSUME NEW c \in Calls, CacheRegistered(c) PROVE AllScheduled'
  <2>1. CASE Cron[chosen[c]] = None
    <3>1. \A d \in Definitions : Pending(d) => Pending(d)' \/ Cron[d] = None
        BY <1>6, <2>1 DEF CacheRegistered, Leave, Pending
    <3> QED
        BY <1>6, <1>c, <3>1 DEF CacheRegistered, database, AllScheduled
  <2>2. CASE Cron[chosen[c]] # None
      BY <1>1, <1>6, <2>2 DEF CacheRegistered, database, hands
  <2> QED
      BY <2>1, <2>2
<1>7. ASSUME NEW c \in Calls, Schedule(c) PROVE AllScheduled'
  <2>1. \A d \in Definitions : Pending(d) => Pending(d)' \/ Cron[d] \in schedulers'
      BY <1>7 DEF Schedule, Leave, Pending
  <2> QED
      BY <1>7, <1>c, <2>1 DEF Schedule, database, AllScheduled
<1>8. ASSUME NEW c \in Calls, ScheduleFails(c) \/ RemoveScheduler(c)
      PROVE  AllScheduled'
    BY <1>2, <1>8 DEF ScheduleFails, RemoveScheduler
<1>9. ASSUME NEW c \in Calls, Hit(c) \/ Miss(c) \/ ListSchedulers(c) \/ Fill(c)
      PROVE  AllScheduled'
    BY <1>1, <1>9 DEF Hit, Miss, ListSchedulers, Fill, database, hands
<1>10. ASSUME NEW c \in Calls, SelectWorkflow(c) \/ LoadFails(c) \/ Finish(c)
       PROVE  AllScheduled'
    BY <1>1, <1>10 DEF SelectWorkflow, LoadFails, Finish, Leave, database
<1>11. ASSUME NEW p \in Processes, Restart(p) PROVE AllScheduled'
  <2>1. CASE \E c \in Calls : Home[c] = p /\ Carried(c)
      BY <1>2, <1>11, <2>1 DEF Restart
  <2>2. CASE ~ \E c \in Calls : Home[c] = p /\ Carried(c)
    <3>1. \A c \in Calls : Carried(c) => Carried(c)' /\ chosen'[c] = chosen[c]
        BY <1>11, <2>2 DEF Restart
    <3>2. missed' \/ missed' = missed
        BY <1>11, <2>2 DEF Restart, DatabaseOK
    <3> QED
        BY <1>1, <1>11, <3>1, <3>2 DEF Restart
  <2> QED
      BY <2>1, <2>2
<1>12. CASE UNCHANGED <<versions, schedulers, missed, pc, chosen>>
    BY <1>1, <1>12
<1> QED
    BY <1>3, <1>4, <1>5, <1>6, <1>7, <1>8, <1>9, <1>10, <1>11, <1>12
       DEF Next, vars, database, hands, Evict, Tick

LEMMA RegistryStep == RegistryInv /\ [Next]_vars => RegistryInv'
    BY TypeStep, NumberStep, ScheduledStep DEF RegistryInv

LEMMA RegistryInvariant == Spec => []RegistryInv
    BY InitRegistry, RegistryStep, PTL DEF Spec

\* The state of the registry is well typed, among others the row of the workflow
\* is locked exactly by a transaction under way, whatever fails or restarts.
THEOREM RegistryTypeCorrect == Spec => []TypeOK
<1>1. RegistryInv => TypeOK
    BY DEF RegistryInv
<1> QED
    BY <1>1, RegistryInvariant, PTL

\* saveWorkflow numbers the versions without gaps and repetitions, and the current
\* version is the newest, for any number of processes that register at once.
THEOREM VersionsAreInOrder == Spec => []VersionsInOrder
<1>1. RegistryInv => VersionsInOrder
    BY DEF RegistryInv
<1> QED
    BY <1>1, RegistryInvariant, PTL

\* The schedule of the current definition is in place when all registrations have
\* returned and none has failed, for any overlap of theirs.
THEOREM CurrentStaysScheduled == Spec => []CurrentIsScheduled
<1>1. RegistryInv => CurrentIsScheduled
  <2> SUFFICES ASSUME RegistryInv, ~missed, current # 0,
                      \A c \in Calls : ~Registering(c)
               PROVE  Cron[CurrentDefinition] \in schedulers \cup {None}
      BY DEF CurrentIsScheduled
  <2>1. current \in DOMAIN versions
      BY TypeParts DEF RegistryInv, DatabaseOK
  <2>2. ~Pending(versions[current].definition)
      BY DEF Pending, Registering
  <2> QED
      BY <2>1, <2>2 DEF RegistryInv, AllScheduled, CurrentDefinition
<1> QED
    BY <1>1, RegistryInvariant, PTL

=============================================================================
