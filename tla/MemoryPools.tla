------------------------------ MODULE MemoryPools ------------------------------
(***************************************************************************)
(* Where the collector's memory comes from (vm/os/posix/memory.cpp): the    *)
(* size check that asks for a collection, the pools of blocks of a fixed    *)
(* size, the sweep that refills them, the running total allocation_size     *)
(* and the threshold mem_max_size that moves with the collections.          *)
(*                                                                         *)
(* What a collection keeps is up to the program: any set of blocks.  That   *)
(* it keeps what is in use is the subject of MemoryManager.                *)
(*                                                                         *)
(* allocation_size and mem_max_size are read without a lock, and the pools  *)
(* are popped without one.                                                 *)
(***************************************************************************)
EXTENDS Integers, FiniteSets, FiniteSetsExt

CONSTANTS
  Addr,       \* memory blocks
  NoBlock,    \* not a block
  Threads,    \* threads of the program
  Pool,       \* the blocks Initialize puts into each pool
  PoolSize,   \* POOL_SIZE
  Requests,   \* what each thread allocates, records [obj, size]
  Word,       \* sizeof(long)
  LongLimit,  \* a long is at least -LongLimit and less than LongLimit
  X64,        \* built with _X64
  MemMax,     \* MEM_MAX
  UncollectedCount, CollectedCount,
  MaxSize     \* bound: allocation_size when an allocation starts

Caps == {16, 32, 64, 256, 512}

NoRequest == [obj |-> FALSE, size |-> 0]
AllRequests == UNION {Requests[t] : t \in Threads}

ASSUME PoolsAssumption ==
  /\ NoBlock \notin Addr /\ "none" \notin Threads
  /\ Pool \in [Caps -> SUBSET Addr]
  /\ \A c \in Caps : IsFiniteSet(Pool[c]) /\ Cardinality(Pool[c]) = PoolSize
  /\ \A c, d \in Caps : c # d => Pool[c] \cap Pool[d] = {}
  /\ PoolSize \in Nat
  /\ Requests \in [Threads -> SUBSET [obj : BOOLEAN, size : Nat]]
  /\ Word \in Nat \ {0} /\ X64 \in BOOLEAN
  /\ LongLimit \in Nat \ {0}
  /\ MemMax \in Nat \ {0} /\ MemMax < LongLimit
  /\ UncollectedCount \in Nat /\ CollectedCount \in Nat
  /\ MaxSize \in Nat

VARIABLES
  pool,      \* cache_pool_16 .. cache_pool_512
  room,      \* bytes a block has, 0 when it is not the program's
  cache,     \* CACHE_SIZE word of a block: its pool, -1 for none, or zeroed
  asked,     \* TYPE and SIZE_OR_CLS words: what a block was allocated for
  dirty,     \* blocks that hold something other than zeros
  allocated, \* allocated_memory
  pc,        \* what each thread is doing
  request,   \* what it allocates
  got,       \* block it has obtained and not recorded
  collector, \* holder of marked_sweep_mutex
  kept,      \* marked_memory
  sweeping,  \* blocks the sweep has not come to
  allocation_size, mem_max_size, uncollected_count, collected_count,
  large      \* history: a collection began with a quarter of LongLimit wanted

blockVars  == <<pool, room, cache, asked, dirty, allocated>>
threadVars == <<pc, request, got>>
sizeVars   == <<mem_max_size, uncollected_count, collected_count>>
sweepVars  == <<collector, kept, sweeping>>
vars == <<blockVars, threadVars, sizeVars, sweepVars, allocation_size, large>>

(* What a long keeps of a result that is out of its range.                  *)
Longs == -LongLimit .. LongLimit - 1
Long(n) == ((n + LongLimit) % (2 * LongLimit)) - LongLimit

(* Bytes of an instance by its class, or of an array by its length          *)
InstanceMemorySize(r) == r.size

(* On _X64 the size of an instance is doubled before it is charged.         *)
Charge(r) == IF r.obj /\ X64 THEN InstanceMemorySize(r) * 2 ELSE InstanceMemorySize(r)

AllocSize(r) == (IF r.obj THEN Charge(r) * 2 ELSE Charge(r)) + 4 * Word

(* What the sweep gives back for a block                                    *)
Refund(r) == InstanceMemorySize(r)

Init ==
  /\ pool = Pool
  /\ room = [a \in Addr |-> Max({c \in Caps : a \in Pool[c]} \cup {0})]
  /\ cache = [a \in Addr |-> 0]
  /\ asked = [a \in Addr |-> NoRequest]
  /\ dirty = {} /\ allocated = {}
  /\ pc = [t \in Threads |-> "run"]
  /\ request = [t \in Threads |-> NoRequest]
  /\ got = [t \in Threads |-> NoBlock]
  /\ collector = "none" /\ kept = {} /\ sweeping = {}
  /\ allocation_size = 0 /\ mem_max_size = MemMax
  /\ uncollected_count = 0 /\ collected_count = 0
  /\ large = FALSE

-----------------------------------------------------------------------------
(* An allocation *)

(* The size check, and the try-lock of a thread that wants to collect.      *)
Check(t, r) ==
  /\ pc[t] = "run" /\ allocation_size <= MaxSize
  /\ request' = [request EXCEPT ![t] = r]
  /\ IF Long(allocation_size + Charge(r)) > mem_max_size /\ collector = "none"
     THEN /\ collector' = t
          /\ pc' = [pc EXCEPT ![t] = "collect"]
     ELSE /\ pc' = [pc EXCEPT ![t] = "take"]
          /\ UNCHANGED collector
  /\ UNCHANGED <<blockVars, got, sizeVars, kept, sweeping, allocation_size>>

(* Smallest request a pool serves, the largest being the pool's own size:   *)
(* there is no pool of 128.                                                *)
Below(c) == CASE c = 512 -> 256 [] c = 256 -> 64 [] c = 64 -> 32 [] c = 32 -> 16 [] c = 16 -> -1

ServesFromBelow(r) == {c \in Caps : pool[c] # {} /\ AllocSize(r) >= Below(c)}
Serves(r) == {c \in Caps : pool[c] # {} /\ AllocSize(r) <= c /\ AllocSize(r) > Below(c)}

InFlight == {got[t] : t \in Threads} \ {NoBlock}
Pooled == UNION {pool[c] : c \in Caps}

(* top() of the pool that serves the request: the block is still in it.     *)
Top(t) ==
  /\ pc[t] = "take"
  /\ \E c \in Serves(request[t]) : \E a \in pool[c] :
       /\ got' = [got EXCEPT ![t] = a]
       /\ cache' = [cache EXCEPT ![a] = c]
  /\ pc' = [pc EXCEPT ![t] = "pop"]
  /\ UNCHANGED <<pool, room, asked, dirty, allocated, request, sizeVars, sweepVars,
                 allocation_size>>

(* pop(): takes what is on top by now, if anything is.                      *)
PopPool(t) ==
  /\ pc[t] = "pop"
  /\ LET c == cache[got[t]] IN
       IF got[t] \in pool[c]
       THEN pool' = [pool EXCEPT ![c] = @ \ {got[t]}]
       ELSE \/ \E a \in pool[c] : pool' = [pool EXCEPT ![c] = @ \ {a}]
            \/ pool[c] = {} /\ UNCHANGED pool
  /\ asked' = [asked EXCEPT ![got[t]] = request[t]]
  /\ pc' = [pc EXCEPT ![t] = "record"]
  /\ UNCHANGED <<room, cache, dirty, allocated, request, got, sizeVars, sweepVars,
                 allocation_size>>

(* No pool serves the request: calloc, zeroed and of the size asked for.    *)
Calloc(t) ==
  /\ pc[t] = "take" /\ Serves(request[t]) = {}
  /\ \E a \in Addr \ (allocated \cup Pooled \cup InFlight \cup UNION {Pool[c] : c \in Caps}) :
       /\ got' = [got EXCEPT ![t] = a]
       /\ room' = [room EXCEPT ![a] = AllocSize(request[t])]
       /\ cache' = [cache EXCEPT ![a] = -1]
       /\ asked' = [asked EXCEPT ![a] = request[t]]
       /\ dirty' = dirty \ {a}
  /\ pc' = [pc EXCEPT ![t] = "record"]
  /\ UNCHANGED <<pool, allocated, request, sizeVars, sweepVars, allocation_size>>

Sweeping == \E t \in Threads : pc[t] = "sweep"
AllocatedMutexIgnored == TRUE
AllocatedMutexFree == ~Sweeping

(* Under allocated_mutex the block is charged and recorded; from now on the *)
(* program writes to it.                                                   *)
Record(t) ==
  /\ pc[t] = "record" /\ AllocatedMutexFree
  /\ allocation_size' = Long(allocation_size + Charge(request[t]))
  /\ allocated' = allocated \cup {got[t]}
  /\ dirty' = dirty \cup {got[t]}
  /\ got' = [got EXCEPT ![t] = NoBlock]
  /\ request' = [request EXCEPT ![t] = NoRequest]
  /\ pc' = [pc EXCEPT ![t] = "run"]
  /\ UNCHANGED <<pool, room, cache, asked, sizeVars, sweepVars>>

-----------------------------------------------------------------------------
(* A collection *)

(* The marked blocks are known; the sweep takes allocated_mutex.            *)
StartSweep(t) ==
  /\ pc[t] = "collect"
  /\ kept' \in SUBSET allocated
  /\ sweeping' = allocated
  /\ pc' = [pc EXCEPT ![t] = "sweep"]
  /\ UNCHANGED <<blockVars, request, got, collector, sizeVars, allocation_size>>

(* memset of the whole block                                               *)
ClearedContents(a) == dirty \ {a}

(* The pool a block goes back to, by its CACHE_SIZE word                    *)
HomeBySize(a) ==
  IF AllocSize(asked[a]) > 512 THEN -1
  ELSE CHOOSE c \in Caps : AllocSize(asked[a]) <= c /\ AllocSize(asked[a]) > Below(c)
Home(a) == cache[a]

(* One block the marks do not hold: its size is given back, it is zeroed    *)
(* and returned to the pool it came from, or freed.                        *)
SweepBlock(t) ==
  /\ pc[t] = "sweep"
  /\ \E a \in sweeping \ kept :
       /\ allocation_size' = Long(allocation_size - Refund(asked[a]))
       /\ sweeping' = sweeping \ {a}
       /\ asked' = [asked EXCEPT ![a] = NoRequest]
       /\ cache' = [cache EXCEPT ![a] = 0]
       /\ IF Home(a) \in Caps
          THEN /\ IF Cardinality(pool[Home(a)]) < PoolSize + 1
                  THEN /\ pool' = [pool EXCEPT ![Home(a)] = @ \cup {a}]
                       /\ dirty' = ClearedContents(a)
                  ELSE UNCHANGED <<pool, dirty>>
               /\ UNCHANGED room
          ELSE /\ room' = [room EXCEPT ![a] = 0]
               /\ UNCHANGED <<pool, dirty>>
  /\ UNCHANGED <<allocated, threadVars, collector, kept, sizeVars>>

(* The threshold after a collection that freed nothing, or something.       *)
GrownThreshold == Long(mem_max_size * 4)
ShrunkThreshold == mem_max_size \div 2
ShrinkAlways == TRUE
MayShrink == mem_max_size # MemMax
PatientOnceMore == uncollected_count <= UncollectedCount
Patient == uncollected_count < UncollectedCount

AdjustThreshold ==
  IF kept = allocated
  THEN /\ IF Patient
          THEN uncollected_count' = uncollected_count + 1 /\ UNCHANGED mem_max_size
          ELSE uncollected_count' = 0 /\ mem_max_size' = GrownThreshold
       /\ UNCHANGED collected_count
  ELSE /\ IF ~MayShrink
          THEN UNCHANGED <<mem_max_size, collected_count>>
          ELSE IF collected_count < CollectedCount
               THEN collected_count' = collected_count + 1 /\ UNCHANGED mem_max_size
               ELSE collected_count' = 0 /\ mem_max_size' = ShrunkThreshold
       /\ UNCHANGED uncollected_count

(* The end of the sweep: the threshold is adjusted, allocated_memory        *)
(* replaced and allocated_mutex released.                                  *)
FinishSweep(t) ==
  /\ pc[t] = "sweep" /\ sweeping \subseteq kept
  /\ AdjustThreshold
  /\ allocated' = kept
  /\ kept' = {} /\ sweeping' = {}
  /\ pc' = [pc EXCEPT ![t] = "join"]
  /\ UNCHANGED <<pool, room, cache, asked, dirty, request, got, collector,
                 allocation_size>>

(* The collection thread is joined, marked_sweep_mutex released.            *)
JoinCollector(t) ==
  /\ pc[t] = "join"
  /\ collector' = "none"
  /\ pc' = [pc EXCEPT ![t] = "take"]
  /\ UNCHANGED <<blockVars, request, got, sizeVars, kept, sweeping, allocation_size>>

(* History, which no step depends on: whether a collection was ever asked   *)
(* for when four times what was wanted is out of the range of a long.      *)
Remember(r) ==
  large' = \/ large
           \/ /\ collector' # collector
              /\ 4 * (allocation_size + Charge(r)) >= LongLimit

Next ==
  \E t \in Threads :
    \/ \E r \in Requests[t] : Check(t, r) /\ Remember(r)
    \/ /\ \/ Top(t) \/ PopPool(t) \/ Calloc(t) \/ Record(t)
          \/ StartSweep(t) \/ SweepBlock(t) \/ FinishSweep(t) \/ JoinCollector(t)
       /\ UNCHANGED large

Spec == Init /\ [][Next]_vars

-----------------------------------------------------------------------------
(* Properties *)

(* Pools, blocks, threads and the sizes are well formed (memory.h).         *)
TypeOK ==
  /\ pool \in [Caps -> SUBSET Addr]
  /\ room \in [Addr -> Nat]
  /\ cache \in [Addr -> Caps \cup {-1, 0}]
  /\ asked \in [Addr -> AllRequests \cup {NoRequest}]
  /\ dirty \in SUBSET Addr /\ allocated \in SUBSET Addr
  /\ pc \in [Threads -> {"run", "take", "pop", "record", "collect", "sweep", "join"}]
  /\ request \in [Threads -> AllRequests \cup {NoRequest}]
  /\ got \in [Threads -> Addr \cup {NoBlock}]
  /\ collector \in Threads \cup {"none"}
  /\ kept \in SUBSET allocated /\ sweeping \in SUBSET allocated
  /\ allocation_size \in Longs /\ mem_max_size \in Longs /\ large \in BOOLEAN
  /\ uncollected_count \in 0..UncollectedCount
  /\ collected_count \in 0..CollectedCount

(* Blocks of the program: a sweep has given up those it has come to and did *)
(* not keep.                                                               *)
InUse == {a \in allocated : Sweeping => a \in kept \cup sweeping}

(* A block about to be recorded is as good as one from calloc: it has room  *)
(* for the header and what was asked for, it is zeroed and nobody else's,   *)
(* whichever pool AllocateObject or AllocateArray took it from.             *)
HandedOut ==
  \A t \in Threads : pc[t] = "record" =>
    /\ room[got[t]] >= AllocSize(request[t])
    /\ got[t] \notin dirty /\ got[t] \notin InUse /\ got[t] \notin Pooled
    /\ \A u \in Threads \ {t} : got[u] # got[t]

(* No pool ever loses a block or gains a foreign one: the test of the pool's *)
(* size in the sweep never throws a block away.                             *)
PoolsConserved ==
  \A c \in Caps :
    /\ pool[c] \subseteq Pool[c]
    /\ Pool[c] \subseteq pool[c] \cup allocated \cup InFlight

(* "account for deallocated memory": outside a sweep allocation_size is the *)
(* sum of what was charged for the blocks in allocated_memory, or what a     *)
(* long keeps of it.                                                       *)
SizeAccounted ==
  ~Sweeping => allocation_size = Long(MapThenSumSet(LAMBDA a : Charge(asked[a]), allocated))

(* mem_max_size moves with every few collections and nothing bounds it from *)
(* above.  As long as a program has not come to use a quarter of what a     *)
(* long counts when it collected, it has not fallen below MEM_MAX, so that  *)
(* not every allocation collects; after that <<= 2 may have overflowed.    *)
ThresholdFloor == ~large => mem_max_size >= MemMax

-----------------------------------------------------------------------------
(* What a program of one thread keeps, the parts of its inductive invariant *)

(* A block the program has knows its pool. *)
Homed(a) == \A c \in Caps : a \in Pool[c] <=> cache[a] = c

PooledGood ==
  /\ \A c \in Caps : pool[c] \subseteq Pool[c]
  /\ \A c \in Caps : \A a \in Pool[c] : room[a] >= c
  /\ \A c \in Caps : \A a \in pool[c] : a \notin dirty /\ a \notin InUse

NoneLost ==
  \A c \in Caps : \A a \in Pool[c] : a \in pool[c] \/ a \in InUse \/ a \in InFlight

UseGood == \A a \in InUse : Homed(a) /\ cache[a] \in Caps \cup {-1}

StageGood(t) ==
  /\ pc[t] = "pop" => /\ cache[got[t]] \in Caps /\ got[t] \in pool[cache[got[t]]]
                      /\ AllocSize(request[t]) <= cache[got[t]]
  /\ pc[t] = "record" => /\ got[t] \in Addr \ (dirty \cup allocated)
                         /\ \A c \in Caps : got[t] \notin pool[c]
                         /\ room[got[t]] >= AllocSize(request[t])
                         /\ Homed(got[t]) /\ cache[got[t]] \in Caps \cup {-1}
  /\ pc[t] \notin {"pop", "record"} => got[t] = NoBlock
  /\ pc[t] # "sweep" => kept = {} /\ sweeping = {}

PoolsInv == PooledGood /\ NoneLost /\ UseGood /\ \A t \in Threads : StageGood(t)
=============================================================================
