------------------------ MODULE InMemoryStoreProofs ------------------------
(***************************************************************************)
(* Proofs about InMemoryStore, for any ids, limits, TTL and clock.         *)
(***************************************************************************)
EXTENDS InMemoryStore, FiniteSetTheorems, WellFoundedInduction, TLAPS

\* A map whose entries have the timestamps the sort compares.
Sortable(map) ==
    \A e \in DOMAIN map : map[e].lastAccessedAt \in Nat /\ map[e].place \in Nat

UsedBeforeAll(map, e) == {d \in DOMAIN map : UsedBefore(map[d], map[e])}

\* Some entry of a finite map comes first in the sort: the sets of those before an
\* entry are finite, and shrink from an entry to one before it.
LEMMA FirstInSort ==
    ASSUME NEW map, Sortable(map), IsFiniteSet(DOMAIN map), DOMAIN map # {}
    PROVE  \E e \in DOMAIN map : UsedBeforeAll(map, e) = {}
<1> DEFINE D == DOMAIN map
           T == {UsedBeforeAll(map, e) : e \in D}
<1>1. T \subseteq FiniteSubsetsOf(D) /\ T # {}
    <2>1. \A e \in D : UsedBeforeAll(map, e) \in SUBSET D
        BY DEF UsedBeforeAll
    <2>2. \A e \in D : IsFiniteSet(UsedBeforeAll(map, e))
        BY <2>1, FS_Subset
    <2> QED BY <2>1, <2>2 DEF FiniteSubsetsOf
<1>2. PICK least \in T : \A U \in T : <<U, least>> \notin StrictSubsetOrdering(D)
    BY <1>1, FS_StrictSubsetOrderingWellFounded, WFMin
<1>3. PICK e \in D : least = UsedBeforeAll(map, e)
    BY <1>2
<1>4. ASSUME NEW d \in UsedBeforeAll(map, e) PROVE FALSE
    <2>1. d \in D
        BY <1>4 DEF UsedBeforeAll
    <2>2. UsedBeforeAll(map, d) \subseteq UsedBeforeAll(map, e)
        BY <1>4, <2>1 DEF UsedBeforeAll, UsedBefore, Sortable
    <2>3. d \notin UsedBeforeAll(map, d)
        BY <2>1 DEF UsedBeforeAll, UsedBefore, Sortable
    <2>4. <<UsedBeforeAll(map, d), UsedBeforeAll(map, e)>> \in StrictSubsetOrdering(D)
        <3>1. UsedBeforeAll(map, d) \in SUBSET D /\ UsedBeforeAll(map, e) \in SUBSET D
            BY DEF UsedBeforeAll
        <3>2. UsedBeforeAll(map, d) # UsedBeforeAll(map, e)
            BY <1>4, <2>3
        <3> QED BY <2>2, <3>1, <3>2 DEF StrictSubsetOrdering
    <2> QED BY <1>2, <1>3, <2>1, <2>4
<1> QED BY <1>3, <1>4

\* A map that is one too large loses an entry.
LEMMA OneTooMany ==
    ASSUME NEW map, Sortable(map), IsFiniteSet(DOMAIN map),
           Cardinality(DOMAIN map) = MaxExecutions + 1
    PROVE  \E e \in DOMAIN map : e \in Evicted(map)
<1>1. DOMAIN map # {}
    BY FS_EmptySet, StoreAssumption
<1>2. PICK e \in DOMAIN map : UsedBeforeAll(map, e) = {}
    BY <1>1, FirstInSort
<1>3. Cardinality(UsedBeforeAll(map, e)) = 0
    BY <1>2, FS_EmptySet
<1>4. Cardinality(UsedBeforeAll(map, e)) < Cardinality(DOMAIN map) - MaxExecutions
    BY <1>3, StoreAssumption
<1> QED BY <1>4 DEF Evicted, UsedBeforeAll

-----------------------------------------------------------------------------
\* What a clean-up leaves of a map with at most one execution too many.
LEMMA CleanUpFits ==
    ASSUME NEW map, Sortable(map), IsFiniteSet(DOMAIN map),
           Cardinality(DOMAIN map) <= MaxExecutions + 1,
           CleanUp(map)
    PROVE  /\ Live' \subseteq DOMAIN map
           /\ \A e \in Live' : executions'[e] = map[e]
           /\ IsFiniteSet(Live') /\ Cardinality(Live') <= MaxExecutions
           /\ DOMAIN traces' \subseteq DOMAIN traces
           /\ DOMAIN traces' \subseteq Live' \cup (DOMAIN traces \ DOMAIN map)
<1> DEFINE kept == Without(map, Expired(map))
           gone == Expired(map) \cup Evicted(kept)
<1>1. /\ executions' = Without(map, gone)
      /\ traces' = Without(traces, gone)
    BY DEF CleanUp
<1>2. /\ Live' = DOMAIN map \ gone
      /\ \A e \in Live' : executions'[e] = map[e]
      /\ DOMAIN traces' = DOMAIN traces \ gone
    BY <1>1 DEF Live, Without
<1>3. DOMAIN kept = DOMAIN map \ Expired(map) /\ \A e \in DOMAIN kept : kept[e] = map[e]
    BY DEF Without
<1>4. Live' = DOMAIN kept \ Evicted(kept)
    BY <1>2, <1>3
<1>5. /\ IsFiniteSet(DOMAIN kept) /\ Cardinality(DOMAIN kept) \in Nat
      /\ Cardinality(DOMAIN kept) <= MaxExecutions + 1
    <2>1. /\ IsFiniteSet(DOMAIN kept)
          /\ Cardinality(DOMAIN kept) <= Cardinality(DOMAIN map)
        BY <1>3, FS_Subset
    <2>2. Cardinality(DOMAIN kept) \in Nat /\ Cardinality(DOMAIN map) \in Nat
        BY <2>1, FS_CardinalityType
    <2> QED BY <2>1, <2>2, StoreAssumption
<1>6. Sortable(kept)
    BY <1>3 DEF Sortable
<1>7. /\ IsFiniteSet(Live') /\ Cardinality(Live') \in Nat
      /\ Cardinality(Live') <= Cardinality(DOMAIN kept)
      /\ Cardinality(Live') = Cardinality(DOMAIN kept) => Live' = DOMAIN kept
    <2>1. Live' \in SUBSET (DOMAIN kept)
        BY <1>4
    <2> QED BY <1>5, <2>1, FS_Subset, FS_CardinalityType
<1>8. Cardinality(Live') <= MaxExecutions
    <2>1. CASE Cardinality(DOMAIN kept) <= MaxExecutions
        BY <1>5, <1>7, <2>1, StoreAssumption
    <2>2. CASE Cardinality(DOMAIN kept) = MaxExecutions + 1
        <3>1. PICK e \in DOMAIN kept : e \in Evicted(kept)
            BY <1>5, <1>6, <2>2, OneTooMany
        <3>2. Live' # DOMAIN kept
            BY <1>4, <3>1
        <3> QED BY <1>5, <1>7, <2>2, <3>2, StoreAssumption
    <2> QED BY <1>5, <2>1, <2>2, StoreAssumption
<1> QED BY <1>2, <1>7, <1>8

-----------------------------------------------------------------------------
\* The inductive invariant: the limit, the timestamps the sort needs, and that an
\* execution a trace belongs to is there.
StoreInv ==
    /\ now \in Nat
    /\ IsFiniteSet(drawn)
    /\ IsFiniteSet(Live)
    /\ \A e \in Live : executions[e] \in Execution
    /\ SizeBounded
    /\ TracesHaveExecutions

LEMMA StoreSortable == StoreInv => Sortable(executions)
BY DEF StoreInv, Sortable, Execution, Live

LEMMA InitStore == Init => StoreInv
<1>1. ASSUME Init PROVE Live = {} /\ DOMAIN traces = {}
    BY <1>1 DEF Init, Live
<1>2. Cardinality({}) = 0 /\ IsFiniteSet({})
    BY FS_EmptySet
<1> QED
    BY <1>1, <1>2, StoreAssumption
    DEF Init, StoreInv, SizeBounded, TracesHaveExecutions, Live

LEMMA StoreStep == StoreInv /\ [Next]_vars => StoreInv'
<1> SUFFICES ASSUME StoreInv, [Next]_vars PROVE StoreInv'
    OBVIOUS
<1> USE StoreAssumption
<1>0. Cardinality(Live) \in Nat /\ Cardinality(drawn) \in Nat
    BY FS_CardinalityType DEF StoreInv
<1>1. ASSUME NEW e \in Executions, CreateExecution(e) PROVE StoreInv'
    <2> DEFINE created == [status |-> "running", completedAt |-> None,
                           lastAccessedAt |-> now, place |-> Cardinality(drawn)]
               map == Put(executions, e, created)
    <2>1. now' = now /\ now' \in Nat /\ IsFiniteSet(drawn')
        BY <1>1, FS_AddElement DEF CreateExecution, StoreInv
    <2>2. /\ DOMAIN map = Live \cup {e}
          /\ map[e] = created
          /\ \A d \in Live \ {e} : map[d] = executions[d]
        BY DEF Put, Live
    <2>3. (\A d \in DOMAIN map : map[d] \in Execution) /\ Sortable(map)
        <3>1. created \in Execution
            BY <1>0 DEF StoreInv, Execution, None, Store!Statuses
        <3>2. \A d \in DOMAIN map : map[d] \in Execution
            BY <2>2, <3>1 DEF StoreInv
        <3> QED BY <3>2 DEF Sortable, Execution
    <2>4. /\ IsFiniteSet(DOMAIN map) /\ Cardinality(DOMAIN map) \in Nat
          /\ Cardinality(DOMAIN map) <= MaxExecutions + 1
        <3>1. /\ IsFiniteSet(Live \cup {e})
              /\ Cardinality(Live \cup {e}) \in {Cardinality(Live), Cardinality(Live) + 1}
            BY FS_AddElement DEF StoreInv
        <3> QED BY <1>0, <2>2, <3>1 DEF StoreInv, SizeBounded
    <2>5. CASE CleanUp(map)
        <3>1. /\ Live' \subseteq DOMAIN map
              /\ \A d \in Live' : executions'[d] = map[d]
              /\ IsFiniteSet(Live') /\ Cardinality(Live') <= MaxExecutions
              /\ DOMAIN traces' \subseteq Live' \cup (DOMAIN traces \ DOMAIN map)
            BY <2>3, <2>4, <2>5, CleanUpFits
        <3>2. DOMAIN traces \ DOMAIN map = {}
            BY <2>2 DEF StoreInv, TracesHaveExecutions
        <3>3. (\A d \in Live : executions[d] \in Execution)'
            BY <2>3, <3>1
        <3> QED
            BY <2>1, <3>1, <3>2, <3>3 DEF StoreInv, SizeBounded, TracesHaveExecutions
    <2>6. CASE /\ 10 * Cardinality(DOMAIN map) <= 9 * MaxExecutions
               /\ executions' = map
               /\ UNCHANGED <<logs, traces>>
        <3>1. Live' = Live \cup {e} /\ Cardinality(Live') <= MaxExecutions
            BY <2>2, <2>4, <2>6 DEF Live
        <3>2. (\A d \in Live : executions[d] \in Execution)' /\ IsFiniteSet(Live)'
            BY <2>3, <2>4, <2>6 DEF Live
        <3>3. TracesHaveExecutions'
            BY <2>6, <3>1 DEF StoreInv, TracesHaveExecutions
        <3> QED BY <2>1, <3>1, <3>2, <3>3 DEF StoreInv, SizeBounded
    <2> QED BY <1>1, <2>5, <2>6 DEF CreateExecution
<1>2. ASSUME NEW e \in Executions,
             Access(e) \/ \E status \in UsedStatuses : SetExecutionStatus(e, status)
      PROVE  StoreInv'
    <2>1. Live' = Live /\ UNCHANGED <<now, drawn, traces>>
        BY <1>2 DEF Access, SetExecutionStatus, Live
    <2>2. (\A d \in Live : executions[d] \in Execution)'
        <3>1. CASE Access(e)
            BY <3>1 DEF Access, StoreInv, Execution, Live
        <3>2. ASSUME NEW status \in UsedStatuses, SetExecutionStatus(e, status)
              PROVE  (\A d \in Live : executions[d] \in Execution)'
            BY <3>2
            DEF SetExecutionStatus, StoreInv, Execution, Live, Store!SetExecutionStatus
        <3> QED BY <1>2, <3>1, <3>2
    <2> QED BY <2>1, <2>2 DEF StoreInv, SizeBounded, TracesHaveExecutions
<1>3. ASSUME NEW e \in Executions, AddLog(e) PROVE StoreInv'
    BY <1>3 DEF AddLog, StoreInv, SizeBounded, TracesHaveExecutions, Live
<1>4. ASSUME NEW e \in Executions, AddSpan(e) PROVE StoreInv'
    <2>1. DOMAIN traces' \subseteq DOMAIN traces \cup {e} /\ e \in Live
        BY <1>4 DEF AddSpan, Put
    <2> QED
        BY <1>4, <2>1
        DEF AddSpan, StoreInv, SizeBounded, TracesHaveExecutions, Live
<1>5. ASSUME TimedCleanUp PROVE StoreInv'
    <2>1. Cardinality(Live) <= MaxExecutions + 1 /\ CleanUp(executions)
        BY <1>0, <1>5 DEF TimedCleanUp, StoreInv, SizeBounded
    <2>2. /\ Live' \subseteq Live
          /\ \A d \in Live' : executions'[d] = executions[d]
          /\ IsFiniteSet(Live') /\ Cardinality(Live') <= MaxExecutions
          /\ DOMAIN traces' \subseteq Live' \cup (DOMAIN traces \ Live)
        BY <2>1, StoreSortable, CleanUpFits DEF StoreInv, Live
    <2>3. (\A d \in Live : executions[d] \in Execution)'
        BY <2>2 DEF StoreInv
    <2> QED
        BY <1>5, <2>2, <2>3
        DEF TimedCleanUp, StoreInv, SizeBounded, TracesHaveExecutions
<1>6. ASSUME Clear PROVE StoreInv'
    <2>1. Live' = {} /\ DOMAIN traces' = {}
        BY <1>6 DEF Clear, Live
    <2>2. Cardinality({}) = 0 /\ IsFiniteSet({})
        BY FS_EmptySet
    <2> QED
        BY <1>6, <2>1, <2>2
        DEF Clear, StoreInv, SizeBounded, TracesHaveExecutions
<1>7. CASE Tick
    BY <1>7 DEF Tick, StoreInv, SizeBounded, TracesHaveExecutions, Live
<1>8. CASE UNCHANGED vars
    BY <1>8 DEF vars, StoreInv, SizeBounded, TracesHaveExecutions, Live
<1> QED
    BY <1>1, <1>2, <1>3, <1>4, <1>5, <1>6, <1>7, <1>8 DEF Next

\* maxExecutions is never exceeded: a clean-up finds at most one execution too
\* many, and the sort has a first entry to evict, however timestamps coincide.
THEOREM StoreSizeBounded == Spec => []SizeBounded
<1>1. StoreInv => SizeBounded
    BY DEF StoreInv
<1> QED BY <1>1, InitStore, StoreStep, PTL DEF Spec

\* addSpan and the clean-up keep traces and executions together.
THEOREM TracesGoWithExecutions == Spec => []TracesHaveExecutions
<1>1. StoreInv => TracesHaveExecutions
    BY DEF StoreInv
<1> QED BY <1>1, InitStore, StoreStep, PTL DEF Spec

-----------------------------------------------------------------------------
(***************************************************************************)
(* Eviction.  No two executions have one place, so the sort is total: with *)
(* one execution too many exactly the first goes.                          *)
(***************************************************************************)
InOrder(map) == \A d, e \in DOMAIN map : map[d].place = map[e].place => d = e

\* Whatever a clean-up takes away has expired, or was used before all that stays.
LEMMA CleanUpEvicts ==
    ASSUME NEW map, Sortable(map), InOrder(map), IsFiniteSet(DOMAIN map),
           Cardinality(DOMAIN map) <= MaxExecutions + 1,
           CleanUp(map)
    PROVE  /\ Live' \subseteq DOMAIN map
           /\ \A e \in Live' : executions'[e] = map[e]
           /\ \A e \in (DOMAIN map \ Live') \ Expired(map) :
                 /\ Cardinality(Live') = MaxExecutions
                 /\ \A k \in Live' : UsedBefore(map[e], map[k])
<1> DEFINE kept == Without(map, Expired(map))
           gone == Expired(map) \cup Evicted(kept)
<1>1. executions' = Without(map, gone)
    BY DEF CleanUp
<1>2. /\ Live' = DOMAIN map \ gone
      /\ \A e \in Live' : executions'[e] = map[e]
    BY <1>1 DEF Live, Without
<1>3. DOMAIN kept = DOMAIN map \ Expired(map) /\ \A e \in DOMAIN kept : kept[e] = map[e]
    BY DEF Without
<1>4. /\ Live' = DOMAIN kept \ Evicted(kept)
      /\ (DOMAIN map \ Live') \ Expired(map) = DOMAIN kept \ Live'
    BY <1>2, <1>3
<1>5. /\ IsFiniteSet(DOMAIN kept) /\ Cardinality(DOMAIN kept) \in Nat
      /\ Cardinality(DOMAIN kept) <= MaxExecutions + 1
    <2>1. /\ IsFiniteSet(DOMAIN kept)
          /\ Cardinality(DOMAIN kept) <= Cardinality(DOMAIN map)
        BY <1>3, FS_Subset
    <2>2. Cardinality(DOMAIN kept) \in Nat /\ Cardinality(DOMAIN map) \in Nat
        BY <2>1, FS_CardinalityType
    <2> QED BY <2>1, <2>2, StoreAssumption
<1>6. Sortable(kept) /\ InOrder(kept)
    BY <1>3 DEF Sortable, InOrder
<1>7. \A e \in DOMAIN kept :
         /\ IsFiniteSet(UsedBeforeAll(kept, e))
         /\ Cardinality(UsedBeforeAll(kept, e)) \in Nat
    BY <1>5, FS_Subset, FS_CardinalityType DEF UsedBeforeAll
<1>8. ASSUME NEW e \in DOMAIN kept \ Live'
      PROVE  /\ Cardinality(Live') = MaxExecutions
             /\ \A k \in Live' : UsedBefore(kept[e], kept[k])
    <2>1. Cardinality(UsedBeforeAll(kept, e)) < Cardinality(DOMAIN kept) - MaxExecutions
        BY <1>4, <1>8 DEF Evicted, UsedBeforeAll
    <2>2. /\ Cardinality(DOMAIN kept) = MaxExecutions + 1
          /\ Cardinality(UsedBeforeAll(kept, e)) = 0
        BY <1>5, <1>7, <2>1, StoreAssumption
    <2>3. UsedBeforeAll(kept, e) = {}
        BY <1>7, <2>2, FS_EmptySet
    <2>4. \A k \in DOMAIN kept \ {e} : UsedBefore(kept[e], kept[k])
        BY <1>6, <2>3 DEF UsedBeforeAll, UsedBefore, Sortable, InOrder
    <2>5. ASSUME NEW k \in DOMAIN kept \ {e} PROVE k \notin Evicted(kept)
        <3>1. e \in UsedBeforeAll(kept, k)
            BY <2>4 DEF UsedBeforeAll
        <3>2. Cardinality(UsedBeforeAll(kept, k)) # 0
            BY <1>7, <3>1, FS_EmptySet
        <3>3. ~(Cardinality(UsedBeforeAll(kept, k)) < Cardinality(DOMAIN kept) - MaxExecutions)
            BY <1>7, <2>2, <3>2, StoreAssumption
        <3> QED BY <3>3 DEF Evicted, UsedBeforeAll
    <2>6. Live' = DOMAIN kept \ {e}
        <3>1. e \in Evicted(kept) /\ Evicted(kept) \subseteq DOMAIN kept
            BY <1>4, <1>8 DEF Evicted
        <3>2. Evicted(kept) = {e}
            BY <2>5, <3>1
        <3> QED BY <1>4, <3>2
    <2>7. Cardinality(Live') = MaxExecutions
        <3>1. Cardinality(DOMAIN kept \ {e}) = Cardinality(DOMAIN kept) - 1
            BY <1>5, FS_RemoveElement
        <3> QED BY <2>2, <2>6, <3>1, StoreAssumption
    <2> QED BY <2>4, <2>6, <2>7
<1> QED BY <1>2, <1>3, <1>4, <1>8

\* The inductive invariant: places are drawn one after the other, and no
\* timestamp is ahead of the clock.
PlaceInv ==
    /\ \A e \in Live : executions[e].place < Cardinality(drawn)
    /\ \A e \in Live : executions[e].lastAccessedAt <= now
    /\ InOrder(executions)

\* The map createExecution stores or cleans up.
Stored(e) ==
    Put(executions, e, [status |-> "running", completedAt |-> None,
                        lastAccessedAt |-> now, place |-> Cardinality(drawn)])

LEMMA StoredMap ==
    ASSUME StoreInv, PlaceInv, NEW e, e \notin drawn
    PROVE  /\ DOMAIN Stored(e) = Live \cup {e}
           /\ \A d \in Live \ {e} : Stored(e)[d] = executions[d]
           /\ Stored(e)[e].lastAccessedAt = now /\ Stored(e)[e].status = "running"
           /\ Stored(e)[e].place = Cardinality(drawn)
           /\ Sortable(Stored(e)) /\ InOrder(Stored(e))
           /\ IsFiniteSet(DOMAIN Stored(e))
           /\ Cardinality(DOMAIN Stored(e)) <= MaxExecutions + 1
<1>1. /\ DOMAIN Stored(e) = Live \cup {e}
      /\ \A d \in Live \ {e} : Stored(e)[d] = executions[d]
      /\ Stored(e)[e].lastAccessedAt = now /\ Stored(e)[e].status = "running"
      /\ Stored(e)[e].place = Cardinality(drawn)
    BY DEF Stored, Put, Live
<1>2. /\ now \in Nat /\ Cardinality(drawn) \in Nat /\ Cardinality(Live) \in Nat
      /\ \A d \in Live : executions[d].lastAccessedAt \in Nat /\ executions[d].place \in Nat
    BY FS_CardinalityType DEF StoreInv, Execution
<1>3. Sortable(Stored(e))
    BY <1>1, <1>2 DEF Sortable
<1>4. InOrder(Stored(e))
    BY <1>1, <1>2 DEF InOrder, PlaceInv, Live
<1>5. /\ IsFiniteSet(Live \cup {e})
      /\ Cardinality(Live \cup {e}) \in {Cardinality(Live), Cardinality(Live) + 1}
    BY FS_AddElement DEF StoreInv
<1> QED
    BY <1>1, <1>2, <1>3, <1>4, <1>5, StoreAssumption DEF StoreInv, SizeBounded

\* What remains of the map, if anything is evicted at all.
LEMMA CreateKeeps ==
    ASSUME StoreInv, PlaceInv, NEW e \in Executions, CreateExecution(e)
    PROVE  /\ Live' \subseteq DOMAIN Stored(e)
           /\ \A d \in Live' : executions'[d] = Stored(e)[d]
           /\ \A d \in (DOMAIN Stored(e) \ Live') \ Expired(Stored(e)) :
                 /\ Cardinality(Live') = MaxExecutions
                 /\ \A k \in Live' : UsedBefore(Stored(e)[d], Stored(e)[k])
<1>1. CASE CleanUp(Stored(e))
    BY <1>1, StoredMap, CleanUpEvicts DEF CreateExecution
<1>2. CASE executions' = Stored(e)
    BY <1>2 DEF Live
<1> QED BY <1>1, <1>2 DEF CreateExecution, Stored

LEMMA PlaceStep == StoreInv /\ PlaceInv /\ [Next]_vars => PlaceInv'
<1> SUFFICES ASSUME StoreInv, PlaceInv, [Next]_vars PROVE PlaceInv'
    OBVIOUS
<1>0. /\ Cardinality(drawn) \in Nat /\ now \in Nat
      /\ \A d \in Live : executions[d].lastAccessedAt \in Nat /\ executions[d].place \in Nat
    BY FS_CardinalityType DEF StoreInv, Execution
<1>1. ASSUME NEW e \in Executions, CreateExecution(e) PROVE PlaceInv'
    <2>1. now' = now /\ Cardinality(drawn') = Cardinality(drawn) + 1
        BY <1>1, FS_AddElement DEF CreateExecution, StoreInv
    <2>2. /\ Live' \subseteq DOMAIN Stored(e)
          /\ \A d \in Live' : executions'[d] = Stored(e)[d]
        BY <1>1, CreateKeeps
    <2>3. e \notin drawn
        BY <1>1 DEF CreateExecution
    <2>4. \A d \in DOMAIN Stored(e) :
             /\ Stored(e)[d].place < Cardinality(drawn) + 1
             /\ Stored(e)[d].lastAccessedAt <= now
        <3>1. /\ DOMAIN Stored(e) = Live \cup {e}
              /\ \A d \in Live \ {e} : Stored(e)[d] = executions[d]
              /\ Stored(e)[e].lastAccessedAt = now
              /\ Stored(e)[e].place = Cardinality(drawn)
            BY <2>3, StoredMap
        <3> QED BY <1>0, <3>1 DEF PlaceInv
    <2>5. InOrder(Stored(e))
        BY <2>3, StoredMap
    <2> QED BY <2>1, <2>2, <2>4, <2>5 DEF PlaceInv, InOrder, Live
<1>2. ASSUME NEW e \in Executions,
             Access(e) \/ \E status \in UsedStatuses : SetExecutionStatus(e, status)
      PROVE  PlaceInv'
    <2>1. /\ UNCHANGED <<now, drawn>> /\ Live' = Live
          /\ \A d \in Live :
                /\ executions'[d].place = executions[d].place
                /\ executions'[d].lastAccessedAt \in {now, executions[d].lastAccessedAt}
        <3>1. CASE Access(e)
            BY <3>1 DEF Access, Live, StoreInv, Execution
        <3>2. ASSUME NEW status \in UsedStatuses, SetExecutionStatus(e, status)
              PROVE  /\ UNCHANGED <<now, drawn>> /\ Live' = Live
                     /\ \A d \in Live :
                          /\ executions'[d].place = executions[d].place
                          /\ executions'[d].lastAccessedAt
                                \in {now, executions[d].lastAccessedAt}
            BY <3>2 DEF SetExecutionStatus, Live, StoreInv, Execution
        <3> QED BY <1>2, <3>1, <3>2
    <2> QED BY <1>0, <2>1 DEF PlaceInv, InOrder, Live
<1>3. CASE TimedCleanUp
    <2>1. /\ Live' \subseteq Live
          /\ \A d \in Live' : executions'[d] = executions[d]
        BY <1>3 DEF TimedCleanUp, CleanUp, Without, Live
    <2> QED BY <1>3, <2>1 DEF TimedCleanUp, PlaceInv, InOrder, Live
<1>4. CASE Clear
    <2>1. Live' = {}
        BY <1>4 DEF Clear, Live
    <2> QED BY <2>1 DEF PlaceInv, InOrder, Live
<1>5. CASE Tick
    BY <1>0, <1>5 DEF Tick, PlaceInv, InOrder, Live
<1>6. CASE UNCHANGED <<now, drawn, executions>>
    BY <1>6 DEF PlaceInv, InOrder, Live
<1> QED
    BY <1>1, <1>2, <1>3, <1>4, <1>5, <1>6 DEF Next, vars, AddLog, AddSpan

LEMMA InitPlace == Init => PlaceInv
BY DEF Init, PlaceInv, InOrder, Live

\* What one step takes away.
Taken ==
    /\ drawn' \ drawn \subseteq Live'
    /\ \A e \in (Live \ Live') \ Expired(executions) :
          /\ Cardinality(Live') = MaxExecutions
          /\ \A k \in Live' : executions[e].lastAccessedAt <= executions'[k].lastAccessedAt

LEMMA StepTakes ==
    ASSUME StoreInv, PlaceInv, [Next]_vars
    PROVE  Taken \/ Clear
<1>0. /\ Cardinality(drawn) \in Nat /\ Cardinality(Live) \in Nat /\ now \in Nat
      /\ \A d \in Live : executions[d].lastAccessedAt \in Nat /\ executions[d].place \in Nat
    BY FS_CardinalityType DEF StoreInv, Execution
<1>1. ASSUME NEW e \in Executions, CreateExecution(e) PROVE Taken
    <2> DEFINE map == Stored(e)
    <2>1. e \notin drawn /\ drawn' = drawn \cup {e}
        BY <1>1 DEF CreateExecution
    <2>2. /\ DOMAIN map = Live \cup {e}
          /\ \A d \in Live \ {e} : map[d] = executions[d]
          /\ map[e].lastAccessedAt = now /\ map[e].status = "running"
          /\ map[e].place = Cardinality(drawn)
          /\ Sortable(map)
        BY <2>1, StoredMap
    <2>3. /\ Live' \subseteq DOMAIN map
          /\ \A d \in Live' : executions'[d] = map[d]
          /\ \A d \in (DOMAIN map \ Live') \ Expired(map) :
                /\ Cardinality(Live') = MaxExecutions
                /\ \A k \in Live' : UsedBefore(map[d], map[k])
        BY <1>1, CreateKeeps
    <2>4. e \in Live'
        <3> SUFFICES ASSUME e \notin Live' PROVE FALSE
            OBVIOUS
        <3>1. e \notin Expired(map)
            BY <2>2 DEF Expired, Terminal, Store!Terminal
        <3>2. /\ Cardinality(Live') = MaxExecutions
              /\ \A k \in Live' : UsedBefore(map[e], map[k])
            BY <2>2, <2>3, <3>1
        <3>3. Live' # {}
            BY <3>2, FS_EmptySet, StoreAssumption
        <3>4. PICK k \in Live' : UsedBefore(map[e], map[k])
            BY <3>2, <3>3
        <3>5. k \in Live /\ map[k] = executions[k]
            BY <2>2, <2>3, <3>4
        <3> QED BY <1>0, <2>2, <3>4, <3>5 DEF UsedBefore, PlaceInv
    <2>5. ASSUME NEW d \in (Live \ Live') \ Expired(executions)
          PROVE  /\ Cardinality(Live') = MaxExecutions
                 /\ \A k \in Live' : executions[d].lastAccessedAt <= executions'[k].lastAccessedAt
        <3>1. d # e /\ map[d] = executions[d] /\ d \in DOMAIN map
            BY <2>2, <2>4
        <3>2. d \notin Expired(map)
            BY <3>1 DEF Expired, Live
        <3>3. \A k \in Live' : UsedBefore(map[d], map[k])
            BY <2>3, <3>1, <3>2
        <3> QED BY <2>2, <2>3, <3>1, <3>2, <3>3 DEF UsedBefore, Sortable
    <2> QED BY <2>1, <2>4, <2>5 DEF Taken
<1>2. CASE TimedCleanUp
    <2>1. Cardinality(Live) <= MaxExecutions + 1 /\ CleanUp(executions) /\ drawn' = drawn
        BY <1>0, <1>2, StoreAssumption DEF TimedCleanUp, StoreInv, SizeBounded
    <2>2. /\ Live' \subseteq Live
          /\ \A e \in Live' : executions'[e] = executions[e]
          /\ \A e \in (Live \ Live') \ Expired(executions) :
                /\ Cardinality(Live') = MaxExecutions
                /\ \A k \in Live' : UsedBefore(executions[e], executions[k])
        BY <2>1, StoreSortable, CleanUpEvicts DEF StoreInv, PlaceInv, Live
    <2> QED BY <1>0, <2>1, <2>2 DEF Taken, UsedBefore
<1>3. CASE Live' = Live /\ drawn' = drawn
    BY <1>3 DEF Taken
<1> QED
    BY <1>1, <1>2, <1>3
    DEF Next, vars, Access, SetExecutionStatus, AddLog, AddSpan, Tick, Live

LEMMA PlacesInOrder == Spec => [](StoreInv /\ PlaceInv)
BY InitStore, InitPlace, StoreStep, PlaceStep, PTL DEF Spec

\* cleanup: what goes without having expired goes because the store is full, and is
\* what was used longest ago; the execution just created stays.
THEOREM LeastRecentlyUsedGo == Spec => EvictsLeastRecentlyUsed
<1>1. StoreInv /\ PlaceInv /\ [Next]_vars =>
        [\A kept \in Live' :
           /\ drawn' \ drawn \subseteq Live'
           /\ \A e \in (Live \ Live') \ Expired(executions) :
                 /\ Cardinality(Live') = MaxExecutions
                 /\ executions[e].lastAccessedAt <= executions'[kept].lastAccessedAt]_vars
    <2>1. Clear => Live' = {}
        BY DEF Clear, Live
    <2> QED BY <2>1, StepTakes DEF Taken
<1> QED BY <1>1, PlacesInOrder, PTL DEF Spec, EvictsLeastRecentlyUsed

\* An execution under way goes only for want of room, or with all others.
THEOREM RunningExecutionsStay == Spec => RunningKept
<1>1. StoreInv /\ PlaceInv /\ [Next]_vars =>
        [\A e \in Live \ Live' :
           \/ executions[e].status \in Terminal
           \/ Cardinality(Live') = MaxExecutions
           \/ Live' = {}]_vars
    <2>1. Clear => Live' = {}
        BY DEF Clear, Live
    <2>2. \A e \in Expired(executions) : executions[e].status \in Terminal
        BY DEF Expired
    <2> QED BY <2>1, <2>2, StepTakes DEF Taken
<1> QED BY <1>1, PlacesInOrder, PTL DEF Spec, RunningKept

=============================================================================
