-------------------------- MODULE ResultCacheProofs --------------------------
(***************************************************************************)
(* What holds of ResultCache for any number of nodes, clients, writes and  *)
(* faults.                                                                 *)
(***************************************************************************)
EXTENDS ResultCache, TLAPS

\* Where a client is when it is not reading.
NotReading == {"idle", "hdel", "hdel then hset", "hset", "expire"}

\* A call that is not a read knows no rows; what a read knew is still in the
\* table; what it has after the query is enough to answer.
ReadInv ==
    \A c \in Clients :
        /\ pc[c] \in NotReading => known[c] = Nothing
        /\ \A n \in Nodes : known[c][n] # 0 => row[n] # 0
        /\ pc[c] \in {"populate", "return"} =>
               \A n \in wanted[c] : known[c][n] # 0 => got[c][n] # 0

-----------------------------------------------------------------------------
LEMMA NothingType == Nothing \in [Nodes -> Nat]
BY DEF Nothing

LEMMA TypeInitial == Init => TypeOK
<1> SUFFICES ASSUME Init PROVE TypeOK
    OBVIOUS
<1>1. row \in [Nodes -> Nat] /\ hash \in [Nodes -> Nat]
    BY NothingType DEF Init
<1>2. pc \in [Clients -> Labels]
    BY DEF Init, Labels
<1>3. /\ wanted \in [Clients -> SUBSET Nodes]
      /\ fetched \in [Clients -> SUBSET Nodes]
    BY DEF Init
<1>4. /\ got \in [Clients -> [Nodes -> Nat]]
      /\ known \in [Clients -> [Nodes -> Nat]]
    BY NothingType DEF Init
<1>5. expiring \in BOOLEAN /\ persists \in BOOLEAN /\ faults \in Nat
    BY DEF Init
<1> QED
    BY <1>1, <1>2, <1>3, <1>4, <1>5 DEF TypeOK

\* Forgetting a call, which ends a read and a crash.
LEMMA ForgetType ==
    ASSUME TypeOK, NEW c \in Clients, Forget(c)
    PROVE  /\ pc' \in [Clients -> Labels]
           /\ wanted' \in [Clients -> SUBSET Nodes]
           /\ fetched' \in [Clients -> SUBSET Nodes]
           /\ got' \in [Clients -> [Nodes -> Nat]]
           /\ known' \in [Clients -> [Nodes -> Nat]]
<1> USE DEF TypeOK, Forget
<1>1. pc' \in [Clients -> Labels]
    BY DEF Goto, Labels
<1>2. /\ wanted' \in [Clients -> SUBSET Nodes]
      /\ fetched' \in [Clients -> SUBSET Nodes]
    OBVIOUS
<1>3. /\ got' \in [Clients -> [Nodes -> Nat]]
      /\ known' \in [Clients -> [Nodes -> Nat]]
    BY NothingType
<1> QED
    BY <1>1, <1>2, <1>3

LEMMA FaultType == ASSUME TypeOK, NEW kind, Fault(kind) PROVE faults' \in Nat
BY DEF TypeOK, Fault

LEMMA TypePreserved == TypeOK /\ [Next]_vars => TypeOK'
<1> SUFFICES ASSUME TypeOK, [Next]_vars PROVE TypeOK'
    OBVIOUS
<1>0. ASSUME NEW c \in Clients, NEW label \in Labels, Goto(c, label)
      PROVE  pc' \in [Clients -> Labels]
    BY <1>0 DEF TypeOK, Goto
<1>1. ASSUME NEW c \in Clients, NEW nodes \in SUBSET Nodes, StartRead(c, nodes)
      PROVE  TypeOK'
  <2>1. pc' \in [Clients -> Labels]
      BY <1>0, <1>1 DEF StartRead, Labels
  <2> QED
      BY <1>1, <2>1, NothingType DEF StartRead, TypeOK
<1>2. ASSUME NEW c \in Clients, NEW n \in Nodes, NEW operation \in Operations,
             Upsert(c, n, operation)
      PROVE  TypeOK'
  <2>1. AfterUpsert(operation) \in Labels
      BY ResultCacheAssumption DEF AfterUpsert, OperationNames, Labels
  <2>2. pc' \in [Clients -> Labels]
      BY <1>0, <1>2, <2>1 DEF Upsert
  <2>3. row' \in [Nodes -> Nat]
      BY <1>2 DEF Upsert, TypeOK
  <2>4. [Nothing EXCEPT ![n] = row'[n]] \in [Nodes -> Nat]
      BY <2>3, NothingType
  <2>5. got' \in [Clients -> [Nodes -> Nat]]
      BY <1>2, <2>4 DEF Upsert, TypeOK
  <2> QED
      BY <1>2, <2>2, <2>3, <2>5 DEF Upsert, TypeOK
<1>3. ASSUME NEW c \in Clients, ReadHash(c) PROVE TypeOK'
  <2>1. pc' \in [Clients -> Labels]
      BY <1>0, <1>3 DEF ReadHash, Labels
  <2>2. faults' \in Nat
      BY <1>3, FaultType DEF ReadHash, TypeOK
  <2>3. got' \in [Clients -> [Nodes -> Nat]]
      BY <1>3 DEF ReadHash, TypeOK
  <2> QED
      BY <1>3, <2>1, <2>2, <2>3 DEF ReadHash, TypeOK
<1>4. ASSUME NEW c \in Clients, SelectRows(c) PROVE TypeOK'
    BY <1>4 DEF SelectRows, Misses, TypeOK, Goto, Labels
<1>5. ASSUME NEW c \in Clients, Populate(c) PROVE TypeOK'
  <2>1. pc' \in [Clients -> Labels]
      BY <1>0, <1>5 DEF Populate, Labels
  <2>2. faults' \in Nat
      BY <1>5, FaultType DEF Populate, TypeOK
  <2>0. got[c] \in [Nodes -> Nat]
      BY DEF TypeOK
  <2>3. hash' \in [Nodes -> Nat]
      BY <1>5, <2>0 DEF Populate, TypeOK
  <2>4. expiring' \in BOOLEAN
      BY <1>5 DEF Populate, TypeOK
  <2> QED
      BY <1>5, <2>1, <2>2, <2>3, <2>4 DEF Populate, TypeOK
<1>6. ASSUME NEW c \in Clients, Return(c) PROVE TypeOK'
    BY <1>6, ForgetType DEF Return, TypeOK
<1>7. ASSUME NEW c \in Clients, Invalidate(c) PROVE TypeOK'
  <2>1. pc' \in [Clients -> Labels]
      BY <1>0, <1>7 DEF Invalidate, Labels
  <2>2. faults' \in Nat
      BY <1>7, FaultType DEF Invalidate, TypeOK
  <2>3. hash' \in [Nodes -> Nat]
    <3>1. \/ hash' = [n \in Nodes |-> IF n \in wanted[c] THEN 0 ELSE hash[n]]
          \/ hash' = hash
        BY <1>7, Zenon DEF Invalidate
    <3>2. hash \in [Nodes -> Nat]
        BY DEF TypeOK
    <3> QED
        BY <3>1, <3>2
  <2>4. expiring' \in BOOLEAN
      BY <1>7, Zenon DEF Invalidate, TypeOK
  <2> QED
      BY <1>7, <2>1, <2>2, <2>3, <2>4 DEF Invalidate, TypeOK
<1>8. ASSUME NEW c \in Clients, Put(c) PROVE TypeOK'
  <2>1. pc' \in [Clients -> Labels]
      BY <1>0, <1>8 DEF Put, Labels
  <2>2. faults' \in Nat
      BY <1>8, FaultType DEF Put, TypeOK
  <2>0. got[c] \in [Nodes -> Nat]
      BY DEF TypeOK
  <2>3. hash' \in [Nodes -> Nat]
      BY <1>8, <2>0 DEF Put, TypeOK
  <2> QED
      BY <1>8, <2>1, <2>2, <2>3 DEF Put, TypeOK
<1>9. ASSUME NEW c \in Clients, SetTTL(c) PROVE TypeOK'
  <2>1. pc' \in [Clients -> Labels]
      BY <1>0, <1>9 DEF SetTTL, Labels
  <2>2. faults' \in Nat
      BY <1>9, FaultType DEF SetTTL, TypeOK
  <2>3. expiring' \in BOOLEAN /\ persists' \in BOOLEAN
      BY <1>9, Zenon DEF SetTTL, TypeOK
  <2> QED
      BY <1>9, <2>1, <2>2, <2>3 DEF SetTTL, TypeOK
<1>10. ASSUME NEW c \in Clients, Crash(c) PROVE TypeOK'
  <2>1. persists' \in BOOLEAN
      BY <1>10, Zenon DEF Crash, TypeOK
  <2>2. faults' \in Nat
      BY <1>10, FaultType DEF Crash
  <2> QED
      BY <1>10, <2>1, <2>2, ForgetType DEF Crash, TypeOK
<1>11. CASE Expire
    BY <1>11, NothingType DEF Expire, TypeOK
<1>12. CASE UNCHANGED vars
    BY <1>12 DEF vars, TypeOK
<1> QED
    BY <1>1, <1>2, <1>3, <1>4, <1>5, <1>6, <1>7, <1>8, <1>9, <1>10, <1>11, <1>12
       DEF Next, Step

\* Type correctness of the table, the hash and every call.
THEOREM CacheTypeCorrect == Spec => []TypeOK
    BY TypeInitial, TypePreserved, PTL DEF Spec

-----------------------------------------------------------------------------
\* A row never goes back to being absent.
LEMMA RowsStay ==
    TypeOK /\ [Next]_vars => \A n \in Nodes : row[n] <= row'[n]
<1> SUFFICES ASSUME TypeOK, [Next]_vars, NEW n \in Nodes PROVE row[n] <= row'[n]
    OBVIOUS
<1>1. CASE UNCHANGED row
    BY <1>1 DEF TypeOK
<1>2. ASSUME NEW c \in Clients, NEW m \in Nodes, NEW operation \in Operations,
             Upsert(c, m, operation)
      PROVE  row[n] <= row'[n]
    BY <1>2 DEF Upsert, TypeOK
<1> QED
    BY <1>1, <1>2
       DEF Next, Step, StartRead, ReadHash, SelectRows, Populate, Return,
           Invalidate, Put, SetTTL, Crash, Expire, vars

COROLLARY RowsKept ==
    TypeOK /\ [Next]_vars => \A n \in Nodes : row[n] # 0 => row'[n] # 0
<1> SUFFICES ASSUME TypeOK, [Next]_vars, NEW n \in Nodes, row[n] # 0
             PROVE  row'[n] # 0
    OBVIOUS
<1>1. row[n] \in Nat /\ row'[n] \in Nat
    BY TypePreserved DEF TypeOK
<1>2. row[n] <= row'[n]
    BY RowsStay
<1> QED
    BY <1>1, <1>2

\* "Database is always the source of truth": the cache and the readers never
\* have a result that the table did not have before.
THEOREM CacheFollowsTable == Spec => []CacheNeverAhead
<1>1. TypeOK /\ Init => CacheNeverAhead
    BY DEF Init, CacheNeverAhead, TypeOK, Nothing
<1>2. TypeOK /\ CacheNeverAhead /\ [Next]_vars => CacheNeverAhead'
  <2> SUFFICES ASSUME TypeOK, CacheNeverAhead, [Next]_vars PROVE CacheNeverAhead'
      OBVIOUS
  <2> USE DEF CacheNeverAhead, TypeOK, Nothing
  <2>0. /\ \A n \in Nodes : row[n] <= row'[n]
        /\ TypeOK'
      BY RowsStay, TypePreserved
  <2>1. ASSUME UNCHANGED <<hash, got>> PROVE CacheNeverAhead'
      BY <2>0, <2>1
  <2>2. ASSUME NEW c \in Clients, NEW nodes \in SUBSET Nodes, StartRead(c, nodes)
        PROVE  CacheNeverAhead'
      BY <2>0, <2>2 DEF StartRead
  <2>3. ASSUME NEW c \in Clients, NEW n \in Nodes, NEW operation \in Operations,
               Upsert(c, n, operation)
        PROVE  CacheNeverAhead'
      BY <2>0, <2>3 DEF Upsert
  <2>4. ASSUME NEW c \in Clients, ReadHash(c) PROVE CacheNeverAhead'
      BY <2>0, <2>4 DEF ReadHash
  <2>5. ASSUME NEW c \in Clients, SelectRows(c) PROVE CacheNeverAhead'
      BY <2>0, <2>5 DEF SelectRows
  <2>6. ASSUME NEW c \in Clients, Populate(c) PROVE CacheNeverAhead'
      BY <2>0, <2>6 DEF Populate
  <2>7. ASSUME NEW c \in Clients, Return(c) \/ Crash(c) PROVE CacheNeverAhead'
    <3>1. UNCHANGED <<row, hash>> /\ got' = [got EXCEPT ![c] = [n \in Nodes |-> 0]]
        BY <2>7 DEF Return, Crash, Forget
    <3>2. \A n \in Nodes : 0 <= row[n]
        OBVIOUS
    <3> QED
        BY <3>1, <3>2
  <2>8. ASSUME NEW c \in Clients, Invalidate(c) PROVE CacheNeverAhead'
    <3>1. UNCHANGED <<row, got>> /\ \A n \in Nodes : hash'[n] \in {0, hash[n]}
        BY <2>8 DEF Invalidate
    <3>2. \A n \in Nodes : 0 <= row[n]
        OBVIOUS
    <3> QED
        BY <3>1, <3>2
  <2>9. ASSUME NEW c \in Clients, Put(c) PROVE CacheNeverAhead'
      BY <2>0, <2>9 DEF Put
  <2>10. ASSUME NEW c \in Clients, SetTTL(c) PROVE CacheNeverAhead'
      BY <2>1, <2>10 DEF SetTTL
  <2>11. CASE Expire
      BY <2>0, <2>11 DEF Expire
  <2>12. CASE UNCHANGED vars
      BY <2>1, <2>12 DEF vars
  <2> QED
      BY <2>2, <2>3, <2>4, <2>5, <2>6, <2>7, <2>8, <2>9, <2>10, <2>11, <2>12
         DEF Next, Step
<1> QED
    BY <1>1, <1>2, CacheTypeCorrect, PTL DEF Spec

-----------------------------------------------------------------------------
LEMMA ReadInvPreserved == TypeOK /\ ReadInv /\ [Next]_vars => ReadInv'
<1> SUFFICES ASSUME TypeOK, ReadInv, [Next]_vars, NEW c \in Clients
             PROVE  /\ pc'[c] \in NotReading => known'[c] = Nothing
                    /\ \A n \in Nodes : known'[c][n] # 0 => row'[n] # 0
                    /\ pc'[c] \in {"populate", "return"} =>
                           \A n \in wanted'[c] : known'[c][n] # 0 => got'[c][n] # 0
    BY DEF ReadInv
<1> DEFINE Good == /\ pc'[c] \in NotReading => known'[c] = Nothing
                   /\ \A n \in Nodes : known'[c][n] # 0 => row'[n] # 0
                   /\ pc'[c] \in {"populate", "return"} =>
                          \A n \in wanted'[c] : known'[c][n] # 0 => got'[c][n] # 0
<1> USE DEF ReadInv, NotReading, TypeOK, Goto, Nothing
<1>0. /\ TypeOK'
      /\ \A n \in Nodes : row[n] # 0 => row'[n] # 0
    BY TypePreserved, RowsKept
<1>a. ASSUME known'[c] = Nothing PROVE Good
  <2>1. wanted'[c] \subseteq Nodes
      BY <1>0
  <2> QED
      BY <1>a, <2>1
<1>1. ASSUME pc'[c] = pc[c], known'[c] = known[c], wanted'[c] = wanted[c],
             got'[c] = got[c]
      PROVE  Good
    BY <1>0, <1>1
<1>2. ASSUME NEW d \in Clients, NEW nodes \in SUBSET Nodes, StartRead(d, nodes)
      PROVE  Good
    BY <1>0, <1>1, <1>2 DEF StartRead
<1>3. ASSUME NEW d \in Clients, NEW m \in Nodes, NEW operation \in Operations,
             Upsert(d, m, operation)
      PROVE  Good
  <2>1. AfterUpsert(operation) \in {"hdel", "hdel then hset", "return"}
      BY ResultCacheAssumption DEF AfterUpsert, OperationNames
  <2> QED
      BY <1>0, <1>1, <1>3, <2>1 DEF Upsert
<1>4. ASSUME NEW d \in Clients, ReadHash(d) PROVE Good
    BY <1>0, <1>1, <1>4 DEF ReadHash, Misses
<1>5. ASSUME NEW d \in Clients, SelectRows(d) PROVE Good
    BY <1>0, <1>1, <1>5 DEF SelectRows, Misses
<1>6. ASSUME NEW d \in Clients, Populate(d) PROVE Good
    BY <1>0, <1>1, <1>6 DEF Populate
<1>7. ASSUME NEW d \in Clients, Return(d) \/ Crash(d) PROVE Good
  <2>1. CASE d = c
    <3>1. known'[c] = Nothing
        BY <1>7, <2>1 DEF Return, Crash, Forget
    <3> QED
        BY <1>a, <3>1
  <2>2. CASE d # c
    <3>1. /\ pc'[c] = pc[c] /\ known'[c] = known[c]
          /\ wanted'[c] = wanted[c] /\ got'[c] = got[c]
        BY <1>7, <2>2 DEF Return, Crash, Forget
    <3> QED
        BY <1>1, <3>1
  <2> QED
      BY <2>1, <2>2
<1>8. ASSUME NEW d \in Clients, Invalidate(d) PROVE Good
  <2>1. CASE d = c
    <3>1. known'[c] = Nothing
        BY <1>8, <2>1 DEF Invalidate
    <3> QED
        BY <1>a, <3>1
  <2>2. CASE d # c
    <3>1. /\ pc'[c] = pc[c] /\ known'[c] = known[c]
          /\ wanted'[c] = wanted[c] /\ got'[c] = got[c]
        BY <1>8, <2>2 DEF Invalidate
    <3> QED
        BY <1>1, <3>1
  <2> QED
      BY <2>1, <2>2
<1>9. ASSUME NEW d \in Clients, Put(d) PROVE Good
  <2>1. CASE d = c
    <3>1. known'[c] = Nothing
        BY <1>9, <2>1 DEF Put
    <3> QED
        BY <1>a, <3>1
  <2>2. CASE d # c
    <3>1. /\ pc'[c] = pc[c] /\ known'[c] = known[c]
          /\ wanted'[c] = wanted[c] /\ got'[c] = got[c]
        BY <1>9, <2>2 DEF Put
    <3> QED
        BY <1>1, <3>1
  <2> QED
      BY <2>1, <2>2
<1>10. ASSUME NEW d \in Clients, SetTTL(d) PROVE Good
  <2>1. CASE d = c
    <3>1. known'[c] = Nothing
        BY <1>10, <2>1 DEF SetTTL
    <3> QED
        BY <1>a, <3>1
  <2>2. CASE d # c
    <3>1. /\ pc'[c] = pc[c] /\ known'[c] = known[c]
          /\ wanted'[c] = wanted[c] /\ got'[c] = got[c]
        BY <1>10, <2>2 DEF SetTTL
    <3> QED
        BY <1>1, <3>1
  <2> QED
      BY <2>1, <2>2
<1>11. CASE Expire
    BY <1>1, <1>11 DEF Expire
<1>12. CASE UNCHANGED vars
    BY <1>1, <1>12 DEF vars
<1> QED
    BY <1>2, <1>3, <1>4, <1>5, <1>6, <1>7, <1>8, <1>9, <1>10, <1>11, <1>12
       DEF Next, Step

\* The readiness check of a join: a read returns a result for every node that
\* had one when the read began.
THEOREM ReadsSeeStored == Spec => []ReadSeesStored
<1>1. TypeOK /\ Init => ReadInv
    BY DEF Init, ReadInv, NotReading, Nothing, TypeOK
<1>2. ReadInv => ReadSeesStored
    BY DEF ReadInv, ReadSeesStored
<1> QED
    BY <1>1, <1>2, ReadInvPreserved, CacheTypeCorrect, PTL DEF Spec

=============================================================================
