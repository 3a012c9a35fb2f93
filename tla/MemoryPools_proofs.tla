-------------------------- MODULE MemoryPools_proofs --------------------------
(* Proofs about the pools of a program of one thread: whatever the sizes of  *)
(* its requests, the pools and the collections; about its accounts; and     *)
(* about the threshold, for any number of threads.                         *)
EXTENDS MemoryPools, FiniteSetTheorems, WellFoundedInduction, TLAPS

LEMMA RequestFacts ==
  ASSUME NEW r \in AllRequests \cup {NoRequest}
  PROVE  /\ r \in [obj : BOOLEAN, size : Nat]
         /\ Charge(r) \in Nat /\ AllocSize(r) \in Nat /\ Refund(r) \in Nat
<1>1. r \in [obj : BOOLEAN, size : Nat]
  <2>1. AllRequests \subseteq [obj : BOOLEAN, size : Nat]
    BY PoolsAssumption DEF AllRequests
  <2>2. NoRequest \in [obj : BOOLEAN, size : Nat]
    BY DEF NoRequest
  <2> QED BY <2>1, <2>2
<1>2. Charge(r) \in Nat /\ Refund(r) \in Nat
  BY <1>1, PoolsAssumption DEF Charge, Refund, InstanceMemorySize
<1>3. AllocSize(r) \in Nat
  BY <1>1, <1>2, PoolsAssumption DEF AllocSize
<1> QED BY <1>1, <1>2, <1>3

(* A long *)

LEMMA Remainder ==
  ASSUME NEW m \in Int, NEW M \in Int, M > 0
  PROVE  m % M = m - M * (m \div M) /\ m \div M \in Int
<1>1. m % M = m - M * (m \div M)
  BY SMTT(60)
<1> QED BY <1>1

LEMMA SameRemainder ==
  ASSUME NEW M \in Nat \ {0}, NEW r \in 0..(M - 1), NEW q \in Int, NEW m \in Int, m = q * M + r
  PROVE  m % M = r
BY SMTT(30)

(* What is assigned to a long is a long; and is what was assigned, if that  *)
(* is in range.                                                            *)
LEMMA LongTyped == ASSUME NEW n \in Int PROVE Long(n) \in Longs
BY PoolsAssumption DEF Long, Longs

LEMMA LongSame == ASSUME NEW n \in Longs PROVE Long(n) = n
BY PoolsAssumption DEF Long, Longs

(* Overflows on the way to a result do not matter.                          *)
LEMMA LongAdds ==
  ASSUME NEW n \in Int, NEW k \in Int
  PROVE  Long(Long(n) + k) = Long(n + k)
<1>1. PICK M \in Nat \ {0} : M = 2 * LongLimit
  BY PoolsAssumption
<1>2. PICK q \in Int : (n + LongLimit) % M = n + LongLimit - M * q
  BY <1>1, Remainder, PoolsAssumption
<1>3. PICK z \in Int : z = n + k + LongLimit
  BY PoolsAssumption
<1>4. PICK p \in Int, r \in 0..(M - 1) : r = z % M /\ r = z - M * p
  <2>1. M \in Int /\ M > 0
    OBVIOUS
  <2>2. z % M = z - M * (z \div M) /\ z \div M \in Int
    BY <2>1, Remainder
  <2> QED BY <2>1, <2>2
<1>5. PICK m \in Int : m = Long(n) + k + LongLimit
  BY LongTyped, PoolsAssumption DEF Longs
<1>6. m = n + LongLimit - M * q + k
  BY <1>1, <1>2, <1>5, PoolsAssumption DEF Long
<1>7. PICK x, y \in Int : x = M * q /\ y = M * p
  OBVIOUS
<1>8. PICK d \in Int : d * M = y - x
  <2>1. (p - q) * M = y - x /\ p - q \in Int
    BY <1>7
  <2> QED BY <2>1
<1>9. m = d * M + r
  <2>1. r = n + k + LongLimit - y /\ m = n + LongLimit - x + k
    <3>1. r = z - y /\ r \in Int
      BY <1>4, <1>7
    <3> QED BY <1>3, <1>6, <1>7, <3>1, PoolsAssumption
  <2>2. m - r = y - x
    BY <2>1, PoolsAssumption
  <2>3. PICK e \in Int : e = d * M
    OBVIOUS
  <2> QED BY <1>8, <2>2, <2>3
<1>10. m % M = r
  BY <1>9, SameRemainder
<1> QED BY <1>1, <1>3, <1>4, <1>5, <1>10 DEF Long

(* The largest of the capacities of the pools a block starts in *)
LEMMA CapsFacts ==
  /\ Caps \subseteq Nat /\ 0 \notin Caps /\ -1 \notin Caps
  /\ \A c \in Caps : Below(c) \in Int
BY DEF Caps, Below

LEMMA RoomInit ==
  ASSUME Init
  PROVE  /\ room \in [Addr -> Nat]
         /\ \A c \in Caps : \A a \in Pool[c] : room[a] = c
<1> DEFINE cs(a) == {c \in Caps : a \in Pool[c]}
<1>1. ASSUME NEW a \in Addr, NEW c \in Caps, a \in Pool[c]
      PROVE  cs(a) \cup {0} = {c, 0}
  BY <1>1, PoolsAssumption
<1>2. ASSUME NEW a \in Addr, \A c \in Caps : a \notin Pool[c]
      PROVE  cs(a) \cup {0} = {0}
  BY <1>2
<1>3. ASSUME NEW c \in Caps PROVE Max({c, 0}) = c
  BY <1>3, CapsFacts DEF Max
<1>4. Max({0}) = 0
  BY DEF Max
<1>5. room = [a \in Addr |-> Max(cs(a) \cup {0})]
  BY DEF Init
<1> HIDE DEF cs
<1>6. ASSUME NEW a \in Addr PROVE room[a] \in Nat
  <2>1. CASE \E c \in Caps : a \in Pool[c]
    BY <2>1, <1>1, <1>3, <1>5, CapsFacts
  <2>2. CASE \A c \in Caps : a \notin Pool[c]
    BY <2>2, <1>2, <1>4, <1>5
  <2> QED BY <2>1, <2>2
<1>7. ASSUME NEW c \in Caps, NEW a \in Pool[c] PROVE room[a] = c
  <2>1. a \in Addr
    BY <1>7, PoolsAssumption
  <2> QED BY <2>1, <1>1, <1>3, <1>5
<1> QED BY <1>5, <1>6, <1>7

(* A thread between the pool and the record has a block.                    *)
Holding == \A t \in Threads : pc[t] \in {"pop", "record"} => got[t] \in Addr

LEMMA TypedStep ==
  ASSUME TypeOK, Holding, [Next]_vars
  PROVE  TypeOK'
<1> USE DEF TypeOK
<1>1. CASE UNCHANGED vars
  BY <1>1 DEF vars, blockVars, threadVars, sizeVars, sweepVars
<1> SUFFICES ASSUME Next PROVE TypeOK'
  BY <1>1
<1>2. PICK t \in Threads :
         \/ \E r \in Requests[t] : Check(t, r)
         \/ Top(t) \/ PopPool(t) \/ Calloc(t) \/ Record(t)
         \/ StartSweep(t) \/ SweepBlock(t) \/ FinishSweep(t) \/ JoinCollector(t)
  BY DEF Next
<1>0. large' \in BOOLEAN
  BY DEF Next, Remember
<1>3. ASSUME NEW r \in Requests[t], Check(t, r) PROVE TypeOK'
  BY <1>0, <1>3 DEF Check, AllRequests, blockVars, sizeVars
<1>4. CASE Top(t)
  <2>1. PICK c \in Serves(request[t]) : \E a \in pool[c] :
          got' = [got EXCEPT ![t] = a] /\ cache' = [cache EXCEPT ![a] = c]
    BY <1>4 DEF Top
  <2>2. c \in Caps
    BY DEF Serves
  <2>3. PICK a \in pool[c] :
          got' = [got EXCEPT ![t] = a] /\ cache' = [cache EXCEPT ![a] = c]
    BY <2>1
  <2>4. a \in Addr
    BY <2>2
  <2> QED BY <1>0, <1>4, <2>2, <2>3, <2>4 DEF Top, sizeVars, sweepVars
<1>5. CASE PopPool(t)
  <2>1. got[t] \in Addr
    BY <1>5 DEF PopPool, Holding
  <2>2. pool' = pool \/ \E a \in Addr \cup {NoBlock} :
                        pool' = [pool EXCEPT ![cache[got[t]]] = @ \ {a}]
    BY <1>5 DEF PopPool
  <2>3. pool' \in [Caps -> SUBSET Addr]
    BY <2>2
  <2> QED BY <1>0, <1>5, <2>1, <2>3 DEF PopPool, sizeVars, sweepVars
<1>6. CASE Calloc(t)
  BY <1>0, <1>6, RequestFacts DEF Calloc, sizeVars, sweepVars
<1>7. CASE Record(t)
  <2>1. got[t] \in Addr
    BY <1>7 DEF Record, Holding
  <2>2. allocation_size' \in Longs
    <3>1. Charge(request[t]) \in Nat
      BY RequestFacts
    <3> QED BY <1>7, <3>1, LongTyped, PoolsAssumption DEF Record, Longs
  <2> QED BY <1>0, <1>7, <2>1, <2>2 DEF Record, sizeVars, sweepVars
<1>8. CASE StartSweep(t)
  BY <1>0, <1>8 DEF StartSweep, blockVars, sizeVars
<1>9. CASE SweepBlock(t)
  <2>1. PICK a \in sweeping \ kept :
          /\ allocation_size' = Long(allocation_size - Refund(asked[a]))
          /\ sweeping' = sweeping \ {a}
          /\ asked' = [asked EXCEPT ![a] = NoRequest]
          /\ cache' = [cache EXCEPT ![a] = 0]
          /\ \/ UNCHANGED pool
             \/ Home(a) \in Caps /\ pool' = [pool EXCEPT ![Home(a)] = @ \cup {a}]
          /\ dirty' \in {dirty, ClearedContents(a)}
          /\ room' \in {room, [room EXCEPT ![a] = 0]}
    BY <1>9 DEF SweepBlock
  <2>2. a \in Addr /\ asked[a] \in AllRequests \cup {NoRequest}
    OBVIOUS
  <2>3. Refund(asked[a]) \in Nat
    BY <2>2, RequestFacts
  <2>4. pool' \in [Caps -> SUBSET Addr]
    BY <2>1, <2>2
  <2>5. /\ room' \in [Addr -> Nat] /\ dirty' \in SUBSET Addr
        /\ sweeping' \in SUBSET allocated
        /\ asked' \in [Addr -> AllRequests \cup {NoRequest}]
        /\ cache' \in [Addr -> Caps \cup {-1, 0}]
    BY <2>1, <2>2 DEF ClearedContents
  <2>6. allocation_size' \in Longs
    BY <2>1, <2>3, LongTyped, PoolsAssumption DEF Longs
  <2> QED BY <1>0, <1>9, <2>4, <2>5, <2>6 DEF SweepBlock, threadVars, sizeVars
<1>10. CASE FinishSweep(t)
  <2>1. GrownThreshold \in Longs /\ ShrunkThreshold \in Longs
    BY LongTyped, PoolsAssumption DEF GrownThreshold, ShrunkThreshold, Longs
  <2>2. /\ mem_max_size' \in Longs
        /\ uncollected_count' \in 0..UncollectedCount
        /\ collected_count' \in 0..CollectedCount
    BY <1>10, <2>1, PoolsAssumption DEF FinishSweep, AdjustThreshold, Patient
  <2> QED BY <1>0, <1>10, <2>2 DEF FinishSweep
<1>11. CASE JoinCollector(t)
  BY <1>0, <1>11 DEF JoinCollector, blockVars, sizeVars
<1> QED BY <1>2, <1>3, <1>4, <1>5, <1>6, <1>7, <1>8, <1>9, <1>10, <1>11

LEMMA HoldingStep ==
  ASSUME TypeOK, Holding, [Next]_vars
  PROVE  Holding'
<1> USE DEF TypeOK, Holding
<1>1. CASE UNCHANGED vars
  BY <1>1 DEF vars, threadVars
<1> SUFFICES ASSUME Next PROVE Holding'
  BY <1>1
<1>2. PICK t \in Threads :
         \/ \E r \in Requests[t] : Check(t, r)
         \/ Top(t) \/ PopPool(t) \/ Calloc(t) \/ Record(t)
         \/ StartSweep(t) \/ SweepBlock(t) \/ FinishSweep(t) \/ JoinCollector(t)
  BY DEF Next
<1>3. ASSUME NEW r \in Requests[t], Check(t, r) PROVE Holding'
  BY <1>3 DEF Check
<1>4. CASE Top(t)
  <2>1. PICK c \in Caps : \E a \in pool[c] : got' = [got EXCEPT ![t] = a]
    BY <1>4 DEF Top, Serves
  <2>2. PICK a \in Addr : got' = [got EXCEPT ![t] = a]
    BY <2>1
  <2> QED BY <1>4, <2>2 DEF Top
<1>5. CASE PopPool(t)
  BY <1>5 DEF PopPool
<1>6. CASE Calloc(t)
  BY <1>6 DEF Calloc
<1>7. CASE Record(t)
  BY <1>7 DEF Record
<1>8. CASE StartSweep(t) \/ FinishSweep(t) \/ JoinCollector(t)
  BY <1>8 DEF StartSweep, FinishSweep, JoinCollector
<1>9. CASE SweepBlock(t)
  BY <1>9 DEF SweepBlock, threadVars
<1> QED BY <1>2, <1>3, <1>4, <1>5, <1>6, <1>7, <1>8, <1>9
-----------------------------------------------------------------------------
LEMMA PoolsInit ==
  ASSUME Init
  PROVE  TypeOK /\ Holding /\ PoolsInv
<1>0. Holding
  BY DEF Init, Holding
<1>1. TypeOK
  <2>1. 0 \in Longs /\ MemMax \in Longs
    BY PoolsAssumption DEF Longs
  <2>2. /\ pool \in [Caps -> SUBSET Addr] /\ room \in [Addr -> Nat]
        /\ cache \in [Addr -> Caps \cup {-1, 0}]
        /\ asked \in [Addr -> AllRequests \cup {NoRequest}]
    BY RoomInit, PoolsAssumption DEF Init
  <2>3. /\ pc \in [Threads -> {"run", "take", "pop", "record", "collect", "sweep", "join"}]
        /\ request \in [Threads -> AllRequests \cup {NoRequest}]
        /\ got \in [Threads -> Addr \cup {NoBlock}]
        /\ collector \in Threads \cup {"none"}
    BY DEF Init
  <2>4. /\ dirty \in SUBSET Addr /\ allocated \in SUBSET Addr
        /\ kept \in SUBSET allocated /\ sweeping \in SUBSET allocated
    BY DEF Init
  <2>5. /\ allocation_size \in Longs /\ mem_max_size \in Longs
        /\ uncollected_count \in 0..UncollectedCount
        /\ collected_count \in 0..CollectedCount
    BY <2>1, PoolsAssumption DEF Init
  <2>6. large \in BOOLEAN
    BY DEF Init
  <2> QED BY <2>2, <2>3, <2>4, <2>5, <2>6 DEF TypeOK
<1>2. ~Sweeping /\ InUse = {}
  BY DEF Init, Sweeping, InUse
<1>3. PooledGood
  <2>1. pool = Pool /\ dirty = {}
    BY DEF Init
  <2>2. ASSUME NEW c \in Caps, NEW a \in Pool[c] PROVE room[a] >= c
    BY <2>2, RoomInit, CapsFacts
  <2> QED BY <1>2, <2>1, <2>2 DEF PooledGood
<1>4. NoneLost /\ UseGood
  BY <1>2 DEF Init, NoneLost, UseGood
<1>5. \A t \in Threads : StageGood(t)
  BY DEF Init, StageGood
<1> QED BY <1>0, <1>1, <1>3, <1>4, <1>5 DEF PoolsInv

LEMMA PoolsStep ==
  ASSUME NEW main, Threads = {main}, TypeOK, Holding, PoolsInv, [Next]_vars
  PROVE  PoolsInv'
<1> USE DEF PoolsInv
<1>0. /\ TypeOK' /\ (Sweeping <=> pc[main] = "sweep") /\ (Sweeping' <=> pc'[main] = "sweep")
      /\ InFlight = {got[main]} \ {NoBlock} /\ InFlight' = {got'[main]} \ {NoBlock}
      /\ main \in Threads
  <2>1. TypeOK'
    BY TypedStep
  <2> QED BY <2>1 DEF Sweeping, InFlight
<1>1. CASE UNCHANGED vars
  BY <1>1 DEF vars, blockVars, threadVars, sizeVars, sweepVars, PooledGood, NoneLost,
              UseGood, StageGood, InUse, InFlight, Homed, Sweeping
<1> SUFFICES ASSUME Next PROVE PoolsInv'
  BY <1>1
<1>2. \/ \E r \in Requests[main] : Check(main, r)
      \/ Top(main) \/ PopPool(main) \/ Calloc(main) \/ Record(main)
      \/ StartSweep(main) \/ SweepBlock(main) \/ FinishSweep(main) \/ JoinCollector(main)
  BY DEF Next
<1>3. ASSUME NEW r \in Requests[main], Check(main, r) PROVE PoolsInv'
  <2>1. InUse' = InUse /\ got'[main] = got[main]
    BY <1>0, <1>3 DEF Check, InUse, blockVars, TypeOK
  <2> QED BY <1>0, <1>3, <2>1
          DEF Check, blockVars, PooledGood, NoneLost, UseGood, StageGood, Homed, TypeOK
<1>4. CASE Top(main)
  <2>1. PICK c \in Serves(request[main]) : \E a \in pool[c] :
          got' = [got EXCEPT ![main] = a] /\ cache' = [cache EXCEPT ![a] = c]
    BY <1>4 DEF Top
  <2>2. PICK a \in pool[c] :
          got' = [got EXCEPT ![main] = a] /\ cache' = [cache EXCEPT ![a] = c]
    BY <2>1
  <2>3. c \in Caps /\ AllocSize(request[main]) <= c /\ a \in Addr
    BY DEF Serves, TypeOK
  <2>4. InUse' = InUse /\ a \notin InUse
    BY <1>0, <1>4, <2>3 DEF Top, InUse, PooledGood, sweepVars
  <2>5. PooledGood' /\ UseGood'
    BY <1>4, <2>2, <2>4 DEF Top, PooledGood, UseGood, Homed, TypeOK
  <2>6. NoneLost'
    BY <1>0, <1>4, <2>4 DEF Top, NoneLost, StageGood
  <2>7. StageGood(main)'
    BY <1>0, <1>4, <2>2, <2>3 DEF Top, StageGood, sweepVars, TypeOK
  <2> QED BY <2>5, <2>6, <2>7
<1>5. CASE PopPool(main)
  <2> DEFINE g == got[main] c == cache[got[main]]
  <2>1. c \in Caps /\ g \in pool[c] /\ AllocSize(request[main]) <= c /\ g \in Addr
    BY <1>5 DEF PopPool, StageGood, TypeOK
  <2>2. pool' = [pool EXCEPT ![c] = @ \ {g}]
    BY <1>5, <2>1 DEF PopPool
  <2>3. InUse' = InUse /\ g \notin InUse /\ g \notin dirty
    BY <1>0, <1>5, <2>1 DEF PopPool, InUse, PooledGood, sweepVars
  <2>4. allocated = InUse
    BY <1>0, <1>5 DEF PopPool, InUse
  <2>5. g \in Pool[c] /\ room[g] >= c
    BY <2>1 DEF PooledGood
  <2>6. \A d \in Caps : g \in Pool[d] <=> c = d
    BY <2>1, <2>5, PoolsAssumption
  <2>7. \A d \in Caps : g \notin pool'[d]
    BY <2>2, <2>6 DEF PooledGood, TypeOK
  <2>8. PooledGood' /\ UseGood'
    BY <1>5, <2>2, <2>3 DEF PopPool, PooledGood, UseGood, Homed, TypeOK
  <2>9. NoneLost'
    BY <1>0, <1>5, <2>1, <2>2, <2>3, PoolsAssumption DEF PopPool, NoneLost, TypeOK
  <2>10. room[g] >= AllocSize(request[main])
    <3>1. AllocSize(request[main]) \in Nat /\ c \in Nat /\ room[g] \in Nat
      BY <2>1, RequestFacts, CapsFacts DEF TypeOK
    <3> QED BY <2>1, <2>5, <3>1
  <2>11. StageGood(main)'
    BY <1>0, <1>5, <2>1, <2>3, <2>4, <2>6, <2>7, <2>10
    DEF PopPool, StageGood, Homed, sweepVars, TypeOK
  <2> QED BY <2>8, <2>9, <2>11
<1>6. CASE Calloc(main)
  <2>1. PICK a \in Addr \ (allocated \cup Pooled \cup InFlight \cup UNION {Pool[c] : c \in Caps}) :
          /\ got' = [got EXCEPT ![main] = a]
          /\ room' = [room EXCEPT ![a] = AllocSize(request[main])]
          /\ cache' = [cache EXCEPT ![a] = -1]
          /\ dirty' = dirty \ {a}
    BY <1>6 DEF Calloc
  <2>2. /\ a \in Addr /\ a \notin allocated /\ a \notin InUse
        /\ \A c \in Caps : a \notin Pool[c] /\ a \notin pool[c]
    BY <2>1 DEF Pooled, InUse
  <2>3. InUse' = InUse /\ AllocSize(request[main]) \in Nat
    BY <1>0, <1>6, RequestFacts DEF Calloc, InUse, sweepVars, TypeOK
  <2>4. PooledGood' /\ UseGood'
    BY <1>6, <2>1, <2>2, <2>3 DEF Calloc, PooledGood, UseGood, Homed, TypeOK
  <2>5. NoneLost'
    BY <1>0, <1>6, <2>3 DEF Calloc, NoneLost, StageGood
  <2>6. StageGood(main)'
    BY <1>0, <1>6, <2>1, <2>2, <2>3, CapsFacts
    DEF Calloc, StageGood, Homed, sweepVars, TypeOK
  <2> QED BY <2>4, <2>5, <2>6
<1>7. CASE Record(main)
  <2> DEFINE g == got[main]
  <2>1. /\ g \in Addr \ (dirty \cup allocated) /\ \A c \in Caps : g \notin pool[c]
        /\ Homed(g) /\ cache[g] \in Caps \cup {-1} /\ kept = {} /\ sweeping = {}
    BY <1>7 DEF Record, StageGood
  <2>2. InUse' = InUse \cup {g} /\ dirty' = dirty \cup {g}
    BY <1>0, <1>7 DEF Record, InUse, TypeOK
  <2>3. PooledGood' /\ UseGood'
    BY <1>7, <2>1, <2>2 DEF Record, PooledGood, UseGood, Homed, TypeOK
  <2>4. NoneLost'
    BY <1>0, <1>7, <2>2 DEF Record, NoneLost
  <2>5. StageGood(main)'
    BY <1>0, <1>7, <2>1 DEF Record, StageGood, sweepVars, TypeOK
  <2> QED BY <2>3, <2>4, <2>5
<1>8. CASE StartSweep(main)
  <2>1. InUse' = InUse
    BY <1>0, <1>8 DEF StartSweep, InUse, blockVars, TypeOK
  <2> QED BY <1>0, <1>8, <2>1
          DEF StartSweep, blockVars, PooledGood, NoneLost, UseGood, StageGood, Homed, TypeOK
<1>9. CASE SweepBlock(main)
  <2>1. PICK a \in sweeping \ kept :
          /\ sweeping' = sweeping \ {a}
          /\ cache' = [cache EXCEPT ![a] = 0]
          /\ IF Home(a) \in Caps
             THEN /\ IF Cardinality(pool[Home(a)]) < PoolSize + 1
                     THEN /\ pool' = [pool EXCEPT ![Home(a)] = @ \cup {a}]
                          /\ dirty' = ClearedContents(a)
                     ELSE UNCHANGED <<pool, dirty>>
                  /\ UNCHANGED room
             ELSE /\ room' = [room EXCEPT ![a] = 0]
                  /\ UNCHANGED <<pool, dirty>>
    BY <1>9 DEF SweepBlock
  <2>2. a \in Addr /\ a \in InUse /\ Homed(a) /\ cache[a] \in Caps \cup {-1}
    BY DEF InUse, UseGood, TypeOK
  <2>3. InUse' = InUse \ {a} /\ pc'[main] = "sweep" /\ got'[main] = got[main]
    BY <1>0, <1>9, <2>1 DEF SweepBlock, InUse, threadVars, TypeOK
  <2>4. ASSUME cache[a] \in Caps PROVE PooledGood' /\ NoneLost'
    <3>1. Cardinality(pool[cache[a]]) <= PoolSize
      BY <2>4, FS_Subset, PoolsAssumption DEF PooledGood
    <3>2. pool' = [pool EXCEPT ![cache[a]] = @ \cup {a}] /\ dirty' = dirty \ {a} /\ room' = room
      <4>1. IsFiniteSet(pool[cache[a]])
        BY <2>4, FS_Subset, PoolsAssumption DEF PooledGood
      <4>2. Cardinality(pool[cache[a]]) \in Nat
        BY <4>1, FS_CardinalityType
      <4>3. Cardinality(pool[cache[a]]) < PoolSize + 1
        BY <3>1, <4>2, PoolsAssumption
      <4> QED BY <2>1, <2>4, <4>3 DEF Home, ClearedContents
    <3>3. a \in Pool[cache[a]]
      BY <2>2, <2>4 DEF Homed
    <3>4. PooledGood'
      BY <2>3, <2>4, <3>2, <3>3 DEF PooledGood, TypeOK
    <3>5. NoneLost'
      <4> SUFFICES ASSUME NEW c \in Caps, NEW b \in Pool[c]
                   PROVE  b \in pool'[c] \/ b \in InUse' \/ b \in InFlight'
        BY DEF NoneLost
      <4>1. CASE b = a
        BY <2>2, <2>4, <3>2, <4>1 DEF Homed, TypeOK
      <4>2. CASE b # a
        BY <1>0, <2>3, <3>2, <4>2 DEF NoneLost, TypeOK
      <4> QED BY <4>1, <4>2
    <3> QED BY <3>4, <3>5
  <2>5. ASSUME cache[a] \notin Caps PROVE PooledGood' /\ NoneLost'
    <3>1. room' = [room EXCEPT ![a] = 0] /\ pool' = pool /\ dirty' = dirty
      BY <2>1, <2>5 DEF Home
    <3>2. \A c \in Caps : a \notin Pool[c]
      BY <2>2, <2>5 DEF Homed
    <3>3. PooledGood'
      BY <2>2, <2>3, <3>1, <3>2 DEF PooledGood, TypeOK
    <3>4. NoneLost'
      BY <1>0, <2>3, <3>1, <3>2 DEF NoneLost
    <3> QED BY <3>3, <3>4
  <2>6. UseGood'
    BY <2>1, <2>3 DEF UseGood, Homed, TypeOK
  <2>7. StageGood(main)'
    BY <1>9, <2>3 DEF SweepBlock, StageGood
  <2> QED BY <1>0, <2>4, <2>5, <2>6, <2>7
<1>10. CASE FinishSweep(main)
  <2>1. InUse = kept /\ InUse' = kept /\ kept \subseteq Addr
    BY <1>0, <1>10 DEF FinishSweep, InUse, TypeOK
  <2>2. got' = got /\ pool' = pool /\ room' = room /\ cache' = cache /\ dirty' = dirty
    BY <1>10 DEF FinishSweep
  <2>3. PooledGood' /\ UseGood' /\ NoneLost'
    BY <1>0, <2>1, <2>2 DEF PooledGood, UseGood, NoneLost, Homed
  <2>4. StageGood(main)'
    BY <1>0, <1>10, <2>2 DEF FinishSweep, StageGood, TypeOK
  <2> QED BY <1>0, <2>3, <2>4
<1>11. CASE JoinCollector(main)
  <2>1. InUse' = InUse
    BY <1>0, <1>11 DEF JoinCollector, InUse, blockVars, TypeOK
  <2> QED BY <1>0, <1>11, <2>1
          DEF JoinCollector, blockVars, PooledGood, NoneLost, UseGood, StageGood, Homed, TypeOK
<1> QED BY <1>2, <1>3, <1>4, <1>5, <1>6, <1>7, <1>8, <1>9, <1>10, <1>11

-----------------------------------------------------------------------------
LEMMA AllTyped == Spec => [](TypeOK /\ Holding)
<1>1. Init => TypeOK /\ Holding
  BY PoolsInit
<1>2. TypeOK /\ Holding /\ [Next]_vars => (TypeOK /\ Holding)'
  BY TypedStep, HoldingStep
<1> QED BY <1>1, <1>2, PTL DEF Spec

LEMMA PoolsTyped ==
  ASSUME NEW main, Threads = {main}
  PROVE  Spec => [](TypeOK /\ Holding /\ PoolsInv)
<1>1. Init => PoolsInv
  BY PoolsInit
<1>2. TypeOK /\ Holding /\ PoolsInv /\ [Next]_vars => PoolsInv'
  BY PoolsStep
<1> QED BY <1>1, <1>2, AllTyped, PTL DEF Spec

(* The blocks that AllocateObject and AllocateArray hand out have room for   *)
(* what was asked for, are zeroed and are nobody else's, for any sizes, word *)
(* length, pools and thresholds, in a program of one thread.               *)
THEOREM BlocksHandedOut ==
  ASSUME NEW main, Threads = {main}
  PROVE  Spec => []HandedOut
<1>1. TypeOK /\ PoolsInv => HandedOut
  <2> SUFFICES ASSUME TypeOK, PoolsInv PROVE HandedOut
    OBVIOUS
  <2> QED BY DEF PoolsInv, StageGood, HandedOut, InUse, Pooled, PooledGood
<1> QED BY <1>1, PoolsTyped, PTL

(* CollectMemory never throws a block of a pool away: the blocks Initialize  *)
(* put into a pool are in it, in use, or being handed out.                  *)
THEOREM PoolsKeepBlocks ==
  ASSUME NEW main, Threads = {main}
  PROVE  Spec => []PoolsConserved
<1>1. PoolsInv => PoolsConserved
  BY DEF PoolsInv, PooledGood, NoneLost, PoolsConserved, InUse
<1> QED BY <1>1, PoolsTyped, PTL

(* The pools, the blocks, the threads and the sizes keep their types, for    *)
(* any number of threads: a thread that finds its pool empty when it pops    *)
(* still has a block, and the counters of AdjustThreshold stay in range.     *)
THEOREM PoolsTypeCorrect == Spec => []TypeOK
BY AllTyped, PTL

-----------------------------------------------------------------------------
(* The threshold, for any number of threads: it is as many doublings away    *)
(* from MEM_MAX as a list of them says, and is halved only when that list    *)
(* is not empty.                                                           *)
Doublings(n) == [0..n -> {x \in Nat : x >= MemMax}]
Doubled(f, n) ==
  /\ f[0] = MemMax /\ f[n] = mem_max_size
  /\ \A i \in 1..n : f[i] = 2 * f[i - 1]
Rises == \E n \in Nat : \E f \in Doublings(n) : Doubled(f, n)

LEMMA ThresholdGrows ==
  ASSUME Rises, mem_max_size' = 4 * mem_max_size
  PROVE  Rises'
<1>0. PICK n \in Nat : \E f \in Doublings(n) : Doubled(f, n)
  BY DEF Rises
<1>1. PICK f \in Doublings(n) : Doubled(f, n)
  BY <1>0
<1> DEFINE g == [i \in 0..(n + 2) |-> CASE i <= n -> f[i] [] i = n + 1 -> 2 * f[n]
                                          [] OTHER -> 4 * f[n]]
<1>2. f[n] = mem_max_size /\ mem_max_size \in Nat /\ mem_max_size >= MemMax
  BY <1>1 DEF Doubled, Doublings
<1>3. g \in Doublings(n + 2)
  <2> SUFFICES ASSUME NEW i \in 0..(n + 2) PROVE g[i] \in Nat /\ g[i] >= MemMax
    BY DEF Doublings
  <2>1. CASE i <= n
    BY <1>1, <2>1 DEF Doublings
  <2>2. CASE i = n + 1
    BY <1>1, <1>2, <2>2, PoolsAssumption
  <2>3. CASE i = n + 2
    BY <1>1, <1>2, <2>3, PoolsAssumption
  <2> QED BY <1>1, <2>1, <2>2, <2>3
<1>4. g[0] = MemMax /\ g[n + 2] = mem_max_size'
  BY <1>1, <1>2 DEF Doubled
<1>5. ASSUME NEW i \in 1..(n + 2) PROVE g[i] = 2 * g[i - 1]
  <2>1. CASE i <= n
    BY <1>1, <2>1 DEF Doubled
  <2>2. CASE i = n + 1
    BY <1>1, <2>2
  <2>3. CASE i = n + 2
    BY <1>1, <1>2, <2>3
  <2> QED BY <1>1, <2>1, <2>2, <2>3
<1>6. n + 2 \in Nat
  OBVIOUS
<1> HIDE DEF g
<1>7. Doubled(g, n + 2)'
  BY <1>4, <1>5 DEF Doubled
<1>8. g \in Doublings(n + 2)'
  BY <1>3 DEF Doublings
<1> QED BY <1>6, <1>7, <1>8 DEF Rises

LEMMA ThresholdShrinks ==
  ASSUME Rises, MayShrink, mem_max_size' = ShrunkThreshold
  PROVE  Rises'
<1>0. PICK n \in Nat : \E f \in Doublings(n) : Doubled(f, n)
  BY DEF Rises
<1>1. PICK f \in Doublings(n) : Doubled(f, n)
  BY <1>0
<1>2. n # 0
  BY <1>1 DEF Doubled, MayShrink
<1>3. f[n] = 2 * f[n - 1] /\ f[n - 1] \in Nat
  BY <1>1, <1>2 DEF Doubled, Doublings
<1> DEFINE g == [i \in 0..(n - 1) |-> f[i]]
<1>4. g \in Doublings(n - 1) /\ n - 1 \in Nat
  BY <1>1, <1>2 DEF Doublings
<1>5. g[0] = MemMax /\ g[n - 1] = mem_max_size'
  BY <1>1, <1>2, <1>3 DEF Doubled, ShrunkThreshold
<1>6. \A i \in 1..(n - 1) : g[i] = 2 * g[i - 1]
  BY <1>1, <1>2 DEF Doubled
<1> QED BY <1>4, <1>5, <1>6 DEF Rises, Doubled, Doublings

(* The thread that collects holds marked_sweep_mutex.                        *)
CollectorInv ==
  \A t \in Threads : pc[t] \in {"collect", "sweep", "join"} => collector = t

(* A collection was asked for with more than the threshold wanted, so a       *)
(* quarter of a long has room for the threshold until it ends.             *)
RoomToShift ==
  \A t \in Threads : pc[t] \in {"collect", "sweep"} => 4 * mem_max_size < LongLimit

ThresholdInv == CollectorInv /\ (~large => Rises /\ RoomToShift)

LEMMA ThresholdFinish ==
  ASSUME TypeOK, ThresholdInv, NEW t \in Threads, FinishSweep(t), ~large
  PROVE  Rises' /\ RoomToShift'
<1>1. Rises /\ RoomToShift /\ CollectorInv
  BY DEF ThresholdInv
<1>2. mem_max_size \in Nat
  BY <1>1 DEF Rises, Doubled, Doublings
<1>3. 4 * mem_max_size < LongLimit
  BY <1>1 DEF FinishSweep, RoomToShift
<1>4. GrownThreshold = 4 * mem_max_size
  <2>1. mem_max_size * 4 = 4 * mem_max_size /\ mem_max_size * 4 \in Longs
    BY <1>2, <1>3, PoolsAssumption DEF Longs
  <2> QED BY <2>1, LongSame DEF GrownThreshold
<1>5. \/ UNCHANGED mem_max_size
      \/ mem_max_size' = 4 * mem_max_size
      \/ MayShrink /\ mem_max_size' = ShrunkThreshold
  BY <1>4 DEF FinishSweep, AdjustThreshold
<1>6. Rises'
  <2>1. CASE UNCHANGED mem_max_size
    BY <1>1, <2>1 DEF Rises, Doubled, Doublings
  <2> QED BY <1>1, <1>5, <2>1, ThresholdGrows, ThresholdShrinks
<1>7. ASSUME NEW u \in Threads PROVE pc'[u] \notin {"collect", "sweep"}
  <2>1. collector = t /\ pc' = [pc EXCEPT ![t] = "join"]
    BY <1>1 DEF FinishSweep, CollectorInv
  <2>2. pc[u] \in {"collect", "sweep"} => u = t
    BY <1>1, <2>1 DEF CollectorInv
  <2> QED BY <2>1, <2>2 DEF TypeOK
<1>8. RoomToShift'
  BY <1>7 DEF RoomToShift
<1> QED BY <1>6, <1>8

LEMMA ThresholdCheck ==
  ASSUME TypeOK, ThresholdInv, NEW t \in Threads, NEW r \in Requests[t],
         Check(t, r), Remember(r), ~large'
  PROVE  Rises' /\ RoomToShift'
<1>1. Rises /\ RoomToShift /\ mem_max_size' = mem_max_size
  BY DEF ThresholdInv, Remember, Check, sizeVars
<1>2. Rises'
  BY <1>1 DEF Rises, Doubled, Doublings
<1>3. ASSUME Long(allocation_size + Charge(r)) > mem_max_size, collector = "none"
      PROVE  4 * mem_max_size < LongLimit
  <2>1. collector' # collector
    BY <1>3, PoolsAssumption DEF Check
  <2>2. PICK x \in Int : x = allocation_size + Charge(r) /\ -LongLimit <= x
    <3>1. Charge(r) \in Nat
      BY RequestFacts DEF AllRequests
    <3> QED BY <3>1, PoolsAssumption DEF TypeOK, Longs
  <2>3. ~ (4 * x >= LongLimit)
    BY <2>1, <2>2 DEF Remember
  <2>4. Long(x) = x
    BY <2>2, <2>3, LongSame, PoolsAssumption DEF Longs
  <2> QED BY <1>3, <2>2, <2>3, <2>4, PoolsAssumption DEF TypeOK, Longs
<1>4. ASSUME NEW u \in Threads, pc'[u] \in {"collect", "sweep"}
      PROVE  4 * mem_max_size < LongLimit
  <2>1. CASE u = t
    BY <1>3, <1>4, <2>1 DEF Check, TypeOK
  <2>2. CASE u # t
    BY <1>1, <1>4, <2>2 DEF Check, TypeOK, RoomToShift
  <2> QED BY <2>1, <2>2
<1>5. RoomToShift'
  BY <1>1, <1>4 DEF RoomToShift
<1> QED BY <1>2, <1>5

LEMMA CollectorStep ==
  ASSUME TypeOK, CollectorInv, [Next]_vars
  PROVE  CollectorInv'
<1> USE DEF TypeOK, CollectorInv
<1>1. CASE UNCHANGED vars
  BY <1>1 DEF vars, threadVars, sweepVars
<1> SUFFICES ASSUME Next PROVE CollectorInv'
  BY <1>1
<1>2. PICK t \in Threads :
         \/ \E r \in Requests[t] : Check(t, r)
         \/ Top(t) \/ PopPool(t) \/ Calloc(t) \/ Record(t)
         \/ StartSweep(t) \/ SweepBlock(t) \/ FinishSweep(t) \/ JoinCollector(t)
  BY DEF Next
<1>3. ASSUME NEW r \in Requests[t], Check(t, r) PROVE CollectorInv'
  BY <1>3, PoolsAssumption DEF Check
<1>4. CASE Top(t) \/ PopPool(t) \/ Calloc(t) \/ Record(t)
  BY <1>4 DEF Top, PopPool, Calloc, Record, sweepVars
<1>5. CASE StartSweep(t) \/ FinishSweep(t)
  BY <1>5 DEF StartSweep, FinishSweep
<1>6. CASE SweepBlock(t)
  BY <1>6 DEF SweepBlock, threadVars
<1>7. CASE JoinCollector(t)
  BY <1>7 DEF JoinCollector
<1> QED BY <1>2, <1>3, <1>4, <1>5, <1>6, <1>7

LEMMA ThresholdStep == TypeOK /\ ThresholdInv /\ [Next]_vars => ThresholdInv'
<1> SUFFICES ASSUME TypeOK, ThresholdInv, [Next]_vars, ~large'
             PROVE  Rises' /\ RoomToShift'
  BY CollectorStep DEF ThresholdInv
<1>1. CASE UNCHANGED vars
  BY <1>1 DEF vars, threadVars, sizeVars, ThresholdInv, Rises, Doubled, Doublings, RoomToShift
<1>2. ASSUME NEW t \in Threads, NEW r \in Requests[t], Check(t, r), Remember(r)
      PROVE  Rises' /\ RoomToShift'
  BY <1>2, ThresholdCheck
<1>3. ASSUME NEW t \in Threads, FinishSweep(t), UNCHANGED large
      PROVE  Rises' /\ RoomToShift'
  BY <1>3, ThresholdFinish
<1>4. ASSUME NEW t \in Threads, UNCHANGED large,
             \/ Top(t) \/ PopPool(t) \/ Calloc(t) \/ Record(t)
             \/ StartSweep(t) \/ SweepBlock(t) \/ JoinCollector(t)
      PROVE  Rises' /\ RoomToShift'
  <2>1. UNCHANGED mem_max_size
    BY <1>4 DEF Top, PopPool, Calloc, Record, StartSweep, SweepBlock, JoinCollector, sizeVars
  <2>2. Rises /\ RoomToShift
    BY <1>4 DEF ThresholdInv
  <2>3. Rises'
    BY <2>1, <2>2 DEF Rises, Doubled, Doublings
  <2>4. ASSUME NEW u \in Threads, pc'[u] \in {"collect", "sweep"}
        PROVE  pc[u] \in {"collect", "sweep"}
    BY <1>4, <2>4 DEF Top, PopPool, Calloc, Record, StartSweep, SweepBlock, JoinCollector,
                      threadVars, TypeOK
  <2> QED BY <2>1, <2>2, <2>3, <2>4 DEF RoomToShift
<1> QED BY <1>1, <1>2, <1>3, <1>4 DEF Next

(* Until a collection is asked for with a quarter of what a long counts       *)
(* wanted, mem_max_size never falls below MEM_MAX and <<= 2 never overflows: *)
(* for any number of threads, any width of a long, any MEM_MAX and any       *)
(* limits of the two counters.                                             *)
THEOREM ThresholdNeverBelow == Spec => []ThresholdFloor
<1>1. Init => ThresholdInv
  <2> SUFFICES ASSUME Init PROVE ThresholdInv
    OBVIOUS
  <2> DEFINE f == [i \in 0..0 |-> MemMax]
  <2>1. f \in Doublings(0) /\ Doubled(f, 0)
    BY PoolsAssumption DEF Doublings, Doubled, Init
  <2>2. \A t \in Threads : pc[t] = "run"
    BY DEF Init
  <2> QED BY <2>1, <2>2 DEF ThresholdInv, CollectorInv, RoomToShift, Rises
<1>2. ThresholdInv => ThresholdFloor
  BY DEF ThresholdInv, Rises, Doubled, Doublings, ThresholdFloor
<1> QED BY <1>1, <1>2, ThresholdStep, AllTyped, PTL DEF Spec

-----------------------------------------------------------------------------
(* The sum of what was charged for a set of blocks                         *)

Total(as, S) == MapThenSumSet(LAMBDA a : Charge(as[a]), S)

(* The recursive function f behind it, for the subsets of S.                *)
Pick(s) == CHOOSE x \in s : TRUE
Sum(as, f, s) == IF s = {} THEN 0 ELSE Charge(as[Pick(s)]) + f[s \ {Pick(s)}]
Sums(as, S, f) ==
  f = [s \in SUBSET S |-> IF s = {} THEN 0 ELSE Charge(as[Pick(s)]) + f[s \ {Pick(s)}]]
Adds(as, S, f) == \A s \in SUBSET S : f[s] = Sum(as, f, s)

(* What is charged is a number of bytes; and is the same with as and bs.     *)
Charged(as, S) == \A a \in S : Charge(as[a]) \in Nat
Alike(as, bs, S) == \A a \in S : as[a] = bs[a]

(* f and h add up to the same; any element may be the last one added.       *)
SameSums(f, h, S) == \A s \in SUBSET S : f[s] = h[s]
AnyLast(as, S, f) == \A s \in SUBSET S : \A x \in s : f[s] = Charge(as[x]) + f[s \ {x}]
SumsTyped(S, f) == \A s \in SUBSET S : f[s] \in Nat

LEMMA Picked == ASSUME NEW s, s # {} PROVE Pick(s) \in s
BY DEF Pick

LEMMA LeastNumber ==
  ASSUME NEW T, T \subseteq Nat, T # {}
  PROVE  \E n \in T : \A m \in T : ~ (m < n)
<1>1. \E n \in T : \A m \in T : ~ (<<m, n>> \in OpToRel(<, Nat))
  BY NatLessThanWellFounded, WFMin
<1>2. \A m, n \in Nat : <<m, n>> \in OpToRel(<, Nat) <=> m < n
  BY DEF OpToRel
<1> QED BY <1>1, <1>2

(* Among subsets of a finite set there is one that is in W while the set     *)
(* without any one of its elements is not.                                 *)
LEMMA LeastSet ==
  ASSUME NEW S, IsFiniteSet(S), NEW W, W \subseteq SUBSET S, W # {}
  PROVE  \E s \in W : \A x \in s : s \ {x} \notin W
<1> DEFINE T == {Cardinality(s) : s \in W}
<1>1. ASSUME NEW s \in W
      PROVE  /\ IsFiniteSet(s) /\ Cardinality(s) \in Nat
             /\ \A x \in s : Cardinality(s \ {x}) = Cardinality(s) - 1
  BY FS_Subset, FS_CardinalityType, FS_RemoveElement
<1>2. T \subseteq Nat /\ T # {}
  BY <1>1
<1>3. PICK n \in T : \A m \in T : ~ (m < n)
  BY <1>2, LeastNumber
<1>4. PICK s \in W : Cardinality(s) = n
  OBVIOUS
<1>5. ASSUME NEW x \in s, s \ {x} \in W PROVE FALSE
  <2>1. Cardinality(s \ {x}) = Cardinality(s) - 1 /\ Cardinality(s) \in Nat
    BY <1>1
  <2>2. Cardinality(s \ {x}) \in T
    BY <1>5
  <2>3. Cardinality(s \ {x}) < n
    BY <1>4, <2>1
  <2> QED BY <1>3, <2>2, <2>3
<1> QED BY <1>4, <1>5

(* f adds up right on the subsets of S with at most n elements.             *)
Upto(as, S, f, n) == \A s \in SUBSET S : Cardinality(s) <= n => f[s] = Sum(as, f, s)
Reached(as, S, n) == \E f : Upto(as, S, f, n)

LEMMA NextSum ==
  ASSUME NEW as, NEW S, IsFiniteSet(S), NEW f, NEW n \in Nat, Upto(as, S, f, n),
         NEW g, g = [s \in SUBSET S |-> Sum(as, f, s)]
  PROVE  Upto(as, S, g, n + 1)
<1> SUFFICES ASSUME NEW s \in SUBSET S, Cardinality(s) <= n + 1
             PROVE  g[s] = Sum(as, g, s)
  BY DEF Upto
<1>1. CASE s = {}
  BY <1>1 DEF Sum
<1>2. CASE s # {}
  <2>1. Pick(s) \in s
    BY <1>2, Picked
  <2>2. PICK r \in SUBSET S : r = s \ {Pick(s)}
    OBVIOUS
  <2>3. Cardinality(r) <= n
    <3>1. IsFiniteSet(s)
      BY FS_Subset
    <3>2. Cardinality(s) \in Nat /\ Cardinality(s \ {Pick(s)}) = Cardinality(s) - 1
      BY <2>1, <3>1, FS_CardinalityType, FS_RemoveElement
    <3> QED BY <2>2, <3>2
  <2>4. g[r] = f[r]
    BY <2>3 DEF Upto
  <2> QED BY <1>2, <2>2, <2>4 DEF Sum
<1> QED BY <1>1, <1>2

LEMMA SumsExist ==
  ASSUME NEW as, NEW S, IsFiniteSet(S)
  PROVE  \E f : Sums(as, S, f) /\ Adds(as, S, f)
<1> DEFINE T == {n \in Nat : Reached(as, S, n)}
<1>1. 0 \in T
  <2>1. PICK f : f = [s \in SUBSET S |-> 0]
    OBVIOUS
  <2>2. ASSUME NEW s \in SUBSET S, Cardinality(s) <= 0 PROVE s = {}
    <3>1. IsFiniteSet(s)
      BY FS_Subset
    <3> QED BY <2>2, <3>1, FS_CardinalityType, FS_EmptySet
  <2>3. Upto(as, S, f, 0)
    BY <2>1, <2>2 DEF Upto, Sum
  <2> QED BY <2>3 DEF Reached
<1>2. ASSUME NEW n \in Nat, n \in T PROVE n + 1 \in T
  <2>1. PICK f : Upto(as, S, f, n)
    BY <1>2 DEF Reached
  <2>2. PICK g : g = [s \in SUBSET S |-> Sum(as, f, s)]
    OBVIOUS
  <2>3. PICK m \in Nat : m = n + 1
    OBVIOUS
  <2>4. Upto(as, S, g, m)
    BY <2>1, <2>2, <2>3, NextSum
  <2>5. Reached(as, S, m)
    BY <2>4 DEF Reached
  <2> QED BY <2>3, <2>5
<1> HIDE DEF T
<1>3. Nat \subseteq T
  <2> SUFFICES ASSUME Nat \ T # {} PROVE FALSE
    OBVIOUS
  <2>1. PICK n \in Nat \ T : \A m \in Nat \ T : ~ (m < n)
    BY LeastNumber
  <2>2. n # 0 /\ n - 1 \in Nat /\ n - 1 < n /\ (n - 1) + 1 = n
    BY <1>1, <2>1
  <2> QED BY <1>2, <2>1, <2>2
<1>4. Cardinality(S) \in T
  BY <1>3, FS_CardinalityType
<1>5. PICK f : Upto(as, S, f, Cardinality(S))
  BY <1>4 DEF T, Reached
<1>6. PICK g : g = [s \in SUBSET S |-> Sum(as, f, s)]
  OBVIOUS
<1>7. Adds(as, S, g)
  <2>1. Upto(as, S, g, Cardinality(S) + 1) /\ Cardinality(S) \in Nat
    BY <1>5, <1>6, NextSum, FS_CardinalityType
  <2>2. ASSUME NEW s \in SUBSET S PROVE Cardinality(s) <= Cardinality(S) + 1
    <3>1. IsFiniteSet(s) /\ Cardinality(s) <= Cardinality(S)
      BY FS_Subset
    <3> QED BY <2>1, <3>1, FS_CardinalityType
  <2> QED BY <2>1, <2>2 DEF Upto, Adds
<1>8. Sums(as, S, g)
  <2>1. \A s \in SUBSET S :
          g[s] = IF s = {} THEN 0 ELSE Charge(as[Pick(s)]) + g[s \ {Pick(s)}]
    BY <1>7 DEF Adds, Sum
  <2>2. g = [s \in SUBSET S |-> g[s]]
    BY <1>6
  <2> QED BY <2>1, <2>2 DEF Sums
<1> QED BY <1>7, <1>8

LEMMA TotalIs ==
  ASSUME NEW as, NEW S, IsFiniteSet(S)
  PROVE  \E f : Adds(as, S, f) /\ Total(as, S) = f[S]
<1> DEFINE f == CHOOSE h : Sums(as, S, h)
<1>1. Sums(as, S, f)
  BY SumsExist
<1>2. Total(as, S) = f[S]
  BY DEF Total, MapThenSumSet, MapThenFoldSet, Sums, Pick
<1> HIDE DEF f
<1>3. Adds(as, S, f)
  BY <1>1 DEF Sums, Adds, Sum
<1> QED BY <1>2, <1>3

(* What is added up for the same charges is the same.                       *)
LEMMA SumsAgree ==
  ASSUME NEW S, IsFiniteSet(S), NEW R \in SUBSET S, NEW as, NEW bs,
         Alike(as, bs, R),
         NEW f, Adds(as, S, f), NEW h, Adds(bs, R, h)
  PROVE  SameSums(f, h, R)
<1> DEFINE W == {s \in SUBSET R : f[s] # h[s]}
<1> SUFFICES ASSUME W # {} PROVE FALSE
  BY DEF SameSums
<1>0. IsFiniteSet(R) /\ W \subseteq SUBSET R
  BY FS_Subset
<1>1. PICK s \in W : \A x \in s : s \ {x} \notin W
  BY <1>0, LeastSet
<1>2. s # {} /\ Pick(s) \in s
  <2>1. s \in SUBSET S
    OBVIOUS
  <2>2. f[s] = Sum(as, f, s) /\ h[s] = Sum(bs, h, s)
    BY <2>1 DEF Adds
  <2>3. s = {} => f[s] = h[s]
    BY <2>2 DEF Sum
  <2> QED BY <2>3, Picked
<1>3. f[s \ {Pick(s)}] = h[s \ {Pick(s)}]
  BY <1>1, <1>2
<1>4. as[Pick(s)] = bs[Pick(s)]
  BY <1>2 DEF Alike
<1>5. Sum(as, f, s) = Sum(bs, h, s)
  BY <1>2, <1>3, <1>4 DEF Sum
<1> QED BY <1>5 DEF Adds
LEMMA TotalSame ==
  ASSUME NEW S, IsFiniteSet(S), NEW as, NEW bs, Alike(as, bs, S)
  PROVE  Total(as, S) = Total(bs, S)
<1>1. PICK f : Adds(as, S, f) /\ Total(as, S) = f[S]
  BY TotalIs
<1>2. PICK h : Adds(bs, S, h) /\ Total(bs, S) = h[S]
  BY TotalIs
<1>3. SameSums(f, h, S)
  BY <1>1, <1>2, SumsAgree
<1> QED BY <1>1, <1>2, <1>3 DEF SameSums

(* The order in which the blocks are taken does not matter.                 *)
LEMMA SumTyped ==
  ASSUME NEW S, IsFiniteSet(S), NEW as, Charged(as, S),
         NEW f, Adds(as, S, f)
  PROVE  SumsTyped(S, f)
<1> DEFINE W == {s \in SUBSET S : f[s] \notin Nat}
<1> SUFFICES ASSUME W # {} PROVE FALSE
  BY DEF SumsTyped
<1>1. PICK s \in W : \A x \in s : s \ {x} \notin W
  BY LeastSet
<1>2. s \in SUBSET S /\ f[s] \notin Nat /\ f[s] = Sum(as, f, s)
  BY DEF Adds
<1>3. s # {} /\ Pick(s) \in s
  <2>1. s = {} => Sum(as, f, s) \in Nat
    BY DEF Sum
  <2>2. s # {}
    BY <1>2, <2>1
  <2> QED BY <2>2, Picked
<1>4. f[s \ {Pick(s)}] \in Nat /\ Charge(as[Pick(s)]) \in Nat
  BY <1>1, <1>3 DEF Charged
<1>5. Sum(as, f, s) \in Nat
  <2>1. PICK n, m \in Nat : n = Charge(as[Pick(s)]) /\ m = f[s \ {Pick(s)}]
    BY <1>4
  <2>2. Sum(as, f, s) = n + m
    BY <1>3, <2>1 DEF Sum
  <2> QED BY <2>2
<1> QED BY <1>2, <1>5

LEMMA SumAny ==
  ASSUME NEW S, IsFiniteSet(S), NEW as, Charged(as, S),
         NEW f, Adds(as, S, f)
  PROVE  AnyLast(as, S, f)
<1> DEFINE W == {s \in SUBSET S : \E x \in s : f[s] # Charge(as[x]) + f[s \ {x}]}
<1> SUFFICES ASSUME W # {} PROVE FALSE
  BY DEF AnyLast
<1>1. PICK s \in W : \A x \in s : s \ {x} \notin W
  BY LeastSet
<1>2. PICK x \in s : f[s] # Charge(as[x]) + f[s \ {x}]
  OBVIOUS
<1>3. PICK c \in s : c = Pick(s)
  BY <1>2, Picked
<1>4. \A r \in SUBSET S : f[r] = Sum(as, f, r)
  BY DEF Adds
<1>5. f[s] = Charge(as[c]) + f[s \ {c}]
  BY <1>3, <1>4 DEF Sum
<1>6. c # x
  BY <1>2, <1>5
<1>7. f[s \ {c}] = Charge(as[x]) + f[(s \ {c}) \ {x}]
  BY <1>1, <1>6
<1>8. f[s \ {x}] = Charge(as[c]) + f[(s \ {x}) \ {c}]
  BY <1>1, <1>6
<1>9. (s \ {c}) \ {x} = (s \ {x}) \ {c}
  OBVIOUS
<1>10. \A r \in SUBSET S : f[r] \in Nat
  BY SumTyped DEF SumsTyped
<1>11. PICK k, n, m \in Nat : k = f[(s \ {x}) \ {c}] /\ n = Charge(as[c]) /\ m = Charge(as[x])
  BY <1>10 DEF Charged
<1>12. f[s] = n + (m + k) /\ f[s \ {x}] = n + k
  BY <1>5, <1>7, <1>8, <1>9, <1>11
<1>13. f[s] = m + f[s \ {x}]
  BY <1>12
<1> QED BY <1>2, <1>11, <1>13

LEMMA TotalAdds ==
  ASSUME NEW S, IsFiniteSet(S), NEW as, Charged(as, S)
  PROVE  /\ Total(as, S) \in Nat
         /\ \A x \in S : Total(as, S) = Charge(as[x]) + Total(as, S \ {x})
<1>1. PICK f : Adds(as, S, f) /\ Total(as, S) = f[S]
  BY TotalIs
<1>2. ASSUME NEW x \in S PROVE Total(as, S) = Charge(as[x]) + Total(as, S \ {x})
  <2>1. PICK R \in SUBSET S : R = S \ {x}
    OBVIOUS
  <2>2. IsFiniteSet(R)
    BY FS_Subset
  <2>3. PICK h : Adds(as, R, h) /\ Total(as, R) = h[R]
    BY <2>2, TotalIs
  <2>4. SameSums(f, h, R)
    <3>1. Alike(as, as, R)
      BY DEF Alike
    <3> QED BY <1>1, <2>3, <3>1, SumsAgree
  <2>5. AnyLast(as, S, f)
    BY <1>1, SumAny
  <2>6. f[S] = Charge(as[x]) + f[R]
    BY <2>1, <2>5 DEF AnyLast
  <2>7. f[R] = h[R]
    BY <2>4 DEF SameSums
  <2> QED BY <1>1, <2>1, <2>3, <2>6, <2>7
<1>3. f[S] \in Nat
  BY <1>1, SumTyped DEF SumsTyped
<1> QED BY <1>1, <1>2, <1>3

LEMMA TotalEmpty == ASSUME NEW as PROVE Total(as, {}) = 0
<1>1. PICK f : Adds(as, {}, f) /\ Total(as, {}) = f[{}]
  BY TotalIs, FS_EmptySet
<1> QED BY <1>1 DEF Adds, Sum
-----------------------------------------------------------------------------
(* allocation_size, for one thread                                         *)

(* The total is that of the blocks in use, and a block about to be recorded  *)
(* knows what it was asked for.                                            *)
SizeInv ==
  /\ IsFiniteSet(allocated) /\ allocation_size = Long(Total(asked, InUse))
  /\ \A t \in Threads : pc[t] = "record" => asked[got[t]] = request[t]

NotDoubled == \A r \in AllRequests : r.obj => ~X64

LEMMA ChargeIsRefund ==
  ASSUME NotDoubled, NEW r \in AllRequests \cup {NoRequest}
  PROVE  Charge(r) = Refund(r)
BY DEF NotDoubled, Charge, Refund, NoRequest

LEMMA UsedFinite ==
  ASSUME TypeOK, IsFiniteSet(allocated), NEW S \in SUBSET allocated
  PROVE  IsFiniteSet(S) /\ Charged(asked, S)
<1>1. \A a \in S : asked[a] \in AllRequests \cup {NoRequest}
  BY DEF TypeOK
<1> QED BY <1>1, FS_Subset, RequestFacts DEF Charged

LEMMA UsedNext ==
  ASSUME TypeOK', IsFiniteSet(allocated'), InUse' \subseteq allocated'
  PROVE  IsFiniteSet(InUse') /\ Charged(asked', InUse')
<1>1. \A a \in InUse' : asked'[a] \in AllRequests \cup {NoRequest}
  BY DEF TypeOK
<1> QED BY <1>1, FS_Subset, RequestFacts DEF Charged

(* Nothing happens to the blocks in use. *)
LEMMA SizeStays ==
  ASSUME TypeOK, SizeInv, allocated' = allocated, InUse' = InUse,
         allocation_size' = allocation_size, Alike(asked', asked, InUse),
         \A t \in Threads : pc'[t] = "record" => asked'[got'[t]] = request'[t]
  PROVE  SizeInv'
<1>1. IsFiniteSet(InUse)
  BY UsedFinite DEF SizeInv, InUse
<1>2. Total(asked', InUse) = Total(asked, InUse)
  BY <1>1, TotalSame
<1> QED BY <1>2 DEF SizeInv

LEMMA SizeStep ==
  ASSUME NEW main, Threads = {main}, NotDoubled, TypeOK, Holding, PoolsInv, SizeInv, [Next]_vars
  PROVE  SizeInv'
<1> USE DEF PoolsInv
<1>0. /\ TypeOK' /\ (Sweeping <=> pc[main] = "sweep") /\ (Sweeping' <=> pc'[main] = "sweep")
      /\ main \in Threads /\ StageGood(main)
  <2>1. TypeOK'
    BY TypedStep
  <2> QED BY <2>1 DEF Sweeping
<1>1. ASSUME NEW S, asked' = asked PROVE Alike(asked', asked, S)
  BY <1>1 DEF Alike
<1>2. CASE UNCHANGED vars
  <2>1. InUse' = InUse
    BY <1>2 DEF vars, blockVars, threadVars, sweepVars, InUse, Sweeping
  <2>2. /\ allocated' = allocated /\ allocation_size' = allocation_size /\ asked' = asked
        /\ \A t \in Threads : pc'[t] = "record" => asked'[got'[t]] = request'[t]
    BY <1>2 DEF vars, blockVars, threadVars, SizeInv
  <2> QED BY <1>1, <2>1, <2>2, SizeStays
<1> SUFFICES ASSUME Next PROVE SizeInv'
  BY <1>2
<1>3. \/ \E r \in Requests[main] : Check(main, r)
      \/ Top(main) \/ PopPool(main) \/ Calloc(main) \/ Record(main)
      \/ StartSweep(main) \/ SweepBlock(main) \/ FinishSweep(main) \/ JoinCollector(main)
  BY DEF Next
<1>4. ASSUME NEW r \in Requests[main], Check(main, r) PROVE SizeInv'
  <2>1. InUse' = InUse /\ pc'[main] # "record"
    BY <1>0, <1>4 DEF Check, InUse, blockVars, TypeOK
  <2>2. allocated' = allocated /\ allocation_size' = allocation_size /\ asked' = asked
    BY <1>4 DEF Check, blockVars
  <2> QED BY <1>1, <2>1, <2>2, SizeStays
<1>5. CASE Top(main)
  <2>1. InUse' = InUse /\ pc'[main] # "record"
    BY <1>0, <1>5 DEF Top, InUse, sweepVars, TypeOK
  <2>2. allocated' = allocated /\ allocation_size' = allocation_size /\ asked' = asked
    BY <1>5 DEF Top
  <2> QED BY <1>1, <2>1, <2>2, SizeStays
<1>6. CASE PopPool(main)
  <2>1. got[main] \in Addr /\ got[main] \notin InUse /\ got' = got /\ request' = request
    BY <1>0, <1>6 DEF PopPool, StageGood, PooledGood, TypeOK
  <2>2. asked' = [asked EXCEPT ![got[main]] = request[main]]
    BY <1>6 DEF PopPool
  <2>3. Alike(asked', asked, InUse)
    BY <2>1, <2>2 DEF Alike, InUse, TypeOK
  <2>4. asked'[got'[main]] = request'[main]
    BY <2>1, <2>2 DEF TypeOK
  <2>5. InUse' = InUse /\ allocated' = allocated /\ allocation_size' = allocation_size
    BY <1>0, <1>6 DEF PopPool, InUse, sweepVars, TypeOK
  <2> QED BY <2>3, <2>4, <2>5, SizeStays
<1>7. CASE Calloc(main)
  <2>1. PICK a \in Addr \ (allocated \cup Pooled \cup InFlight \cup UNION {Pool[c] : c \in Caps}) :
          /\ got' = [got EXCEPT ![main] = a]
          /\ asked' = [asked EXCEPT ![a] = request[main]]
    BY <1>7 DEF Calloc
  <2>2. a \in Addr /\ a \notin InUse /\ got'[main] = a /\ request' = request
    BY <1>0, <1>7, <2>1 DEF Calloc, InUse, TypeOK
  <2>3. Alike(asked', asked, InUse)
    BY <2>1, <2>2 DEF Alike, InUse, TypeOK
  <2>4. asked'[got'[main]] = request'[main]
    BY <2>1, <2>2 DEF TypeOK
  <2>5. InUse' = InUse /\ allocated' = allocated /\ allocation_size' = allocation_size
    BY <1>0, <1>7 DEF Calloc, InUse, sweepVars, TypeOK
  <2> QED BY <2>3, <2>4, <2>5, SizeStays
<1>8. CASE Record(main)
  <2>1. PICK g \in Addr : g = got[main] /\ g \notin allocated /\ asked[g] = request[main]
    BY <1>0, <1>8 DEF Record, StageGood, SizeInv
  <2>2. /\ allocation_size' = Long(allocation_size + Charge(asked[g]))
        /\ allocated' = allocated \cup {g} /\ asked' = asked /\ pc'[main] # "record"
    BY <1>8, <2>1 DEF Record, TypeOK
  <2>3. InUse' = InUse \cup {g} /\ g \notin InUse /\ InUse' \subseteq allocated'
    BY <1>0, <1>8, <2>1 DEF Record, InUse, TypeOK
  <2>4. IsFiniteSet(allocated')
    BY <2>2, FS_AddElement DEF SizeInv
  <2>5. IsFiniteSet(InUse') /\ Charged(asked', InUse')
    BY <1>0, <2>3, <2>4, UsedNext
  <2>6. Total(asked', InUse') = Charge(asked[g]) + Total(asked, InUse)
    <3>1. PICK T : T = InUse'
      OBVIOUS
    <3>2. g \in T /\ T \ {g} = InUse /\ IsFiniteSet(T) /\ Charged(asked, T)
      BY <2>2, <2>3, <2>5, <3>1
    <3>3. Total(asked, T) = Charge(asked[g]) + Total(asked, T \ {g})
      BY <3>2, TotalAdds
    <3> QED BY <2>2, <3>1, <3>2, <3>3
  <2>7. Charge(asked[g]) \in Nat /\ Total(asked, InUse) \in Nat
    <3>1. IsFiniteSet(InUse) /\ Charged(asked, InUse)
      BY UsedFinite DEF SizeInv, InUse
    <3>2. Charge(asked[g]) \in Nat
      BY <2>2, <2>3, <2>5 DEF Charged
    <3> QED BY <3>1, <3>2, TotalAdds
  <2>8. PICK n, m \in Int : n = Charge(asked[g]) /\ m = Total(asked, InUse)
    BY <2>7
  <2>9. allocation_size' = Long(m + n) /\ Total(asked', InUse') = m + n
    <3>1. allocation_size = Long(m) /\ Total(asked', InUse') = n + m
      BY <2>6, <2>8 DEF SizeInv
    <3>2. Long(Long(m) + n) = Long(m + n)
      BY <2>8, LongAdds
    <3>3. n + m = m + n
      BY <2>8
    <3> QED BY <2>2, <2>8, <3>1, <3>2, <3>3
  <2> QED BY <2>2, <2>4, <2>9 DEF SizeInv
<1>9. CASE StartSweep(main)
  <2>1. InUse' = InUse /\ pc'[main] # "record"
    BY <1>0, <1>9 DEF StartSweep, InUse, blockVars, TypeOK
  <2>2. allocated' = allocated /\ allocation_size' = allocation_size /\ asked' = asked
    BY <1>9 DEF StartSweep, blockVars
  <2> QED BY <1>1, <2>1, <2>2, SizeStays
<1>10. CASE SweepBlock(main)
  <2>1. PICK a \in sweeping \ kept :
          /\ allocation_size' = Long(allocation_size - Refund(asked[a]))
          /\ sweeping' = sweeping \ {a}
          /\ asked' = [asked EXCEPT ![a] = NoRequest]
    BY <1>10 DEF SweepBlock
  <2>2. a \in InUse /\ a \in Addr /\ InUse' = InUse \ {a} /\ allocated' = allocated /\ pc' = pc
    BY <1>0, <1>10, <2>1 DEF SweepBlock, InUse, threadVars, TypeOK, Sweeping
  <2>3. IsFiniteSet(InUse) /\ Charged(asked, InUse) /\ IsFiniteSet(InUse \ {a})
    BY UsedFinite DEF SizeInv, InUse
  <2>4. PICK n, m \in Nat : n = Charge(asked[a]) /\ m = Total(asked, InUse \ {a})
    <3>1. Charged(asked, InUse \ {a}) /\ Charge(asked[a]) \in Nat
      BY <2>2, <2>3 DEF Charged
    <3> QED BY <2>3, <3>1, TotalAdds
  <2>5. allocation_size = Long(n + m)
    BY <2>2, <2>3, <2>4, TotalAdds DEF SizeInv
  <2>6. Refund(asked[a]) = n
    BY <2>2, <2>4, ChargeIsRefund DEF TypeOK
  <2>7. Alike(asked', asked, InUse \ {a})
    BY <2>1, <2>2 DEF Alike, TypeOK, InUse
  <2>8. Total(asked', InUse') = m
    BY <2>2, <2>3, <2>4, <2>7, TotalSame
  <2>9. allocation_size' = Long(m)
    <3>1. Long(n + m) \in Int
      BY LongTyped, PoolsAssumption DEF Longs
    <3>2. allocation_size' = Long(Long(n + m) + (-n))
      BY <2>1, <2>5, <2>6, <3>1
    <3>3. Long(Long(n + m) + (-n)) = Long((n + m) + (-n)) /\ (n + m) + (-n) = m
      BY LongAdds
    <3> QED BY <3>2, <3>3
  <2>10. pc'[main] # "record"
    BY <1>10, <2>2 DEF SweepBlock
  <2> QED BY <2>2, <2>8, <2>9, <2>10 DEF SizeInv
<1>11. CASE FinishSweep(main)
  <2>1. InUse = kept /\ InUse' = kept /\ kept \subseteq allocated /\ pc'[main] # "record"
    BY <1>0, <1>11 DEF FinishSweep, InUse, TypeOK
  <2>2. allocated' = kept /\ asked' = asked /\ allocation_size' = allocation_size
    BY <1>11 DEF FinishSweep
  <2>3. IsFiniteSet(allocated')
    BY <2>1, <2>2, FS_Subset DEF SizeInv
  <2> QED BY <2>1, <2>2, <2>3 DEF SizeInv
<1>12. CASE JoinCollector(main)
  <2>1. InUse' = InUse /\ pc'[main] # "record"
    BY <1>0, <1>12 DEF JoinCollector, InUse, blockVars, TypeOK
  <2>2. allocated' = allocated /\ allocation_size' = allocation_size /\ asked' = asked
    BY <1>12 DEF JoinCollector, blockVars
  <2> QED BY <1>1, <2>1, <2>2, SizeStays
<1> QED BY <1>3, <1>4, <1>5, <1>6, <1>7, <1>8, <1>9, <1>10, <1>11, <1>12

(* However a program of one thread allocates and collects, outside a sweep   *)
(* allocation_size is the sum of what was charged for the blocks it has:     *)
(* the sweep gives back what AllocateObject and AllocateArray charged, if    *)
(* no instance is charged double.                                          *)
THEOREM SizesAddUp ==
  ASSUME NEW main, Threads = {main}, \A r \in AllRequests : r.obj => ~X64
  PROVE  Spec => []SizeAccounted
<1>1. NotDoubled
  BY DEF NotDoubled
<1>2. Init => SizeInv
  <2> SUFFICES ASSUME Init PROVE SizeInv
    OBVIOUS
  <2>1. allocated = {} /\ InUse = {} /\ allocation_size = 0 /\ \A t \in Threads : pc[t] # "record"
    BY DEF Init, InUse
  <2>2. Long(0) = 0
    BY LongSame, PoolsAssumption DEF Longs
  <2> QED BY <2>1, <2>2, FS_EmptySet, TotalEmpty DEF SizeInv
<1>3. TypeOK /\ Holding /\ PoolsInv /\ SizeInv /\ [Next]_vars => SizeInv'
  BY <1>1, SizeStep
<1>4. SizeInv => SizeAccounted
  BY DEF SizeInv, SizeAccounted, Total, InUse
<1> QED BY <1>2, <1>3, <1>4, PoolsTyped, PTL DEF Spec
=============================================================================
