---------------------------- MODULE MemoryManager ----------------------------
(***************************************************************************)
(* The mark-and-sweep collector of the virtual machine                     *)
(* (vm/os/posix/memory.cpp) together with the instructions of the          *)
(* interpreter that allocate memory and move references                    *)
(* (vm/interpreter.cpp).                                                   *)
(*                                                                         *)
(* A thread that allocates may run a collection: it takes                  *)
(* marked_sweep_mutex with a try-lock, a collection thread sorts           *)
(* allocated_memory, starts four mark threads (static variables, operand   *)
(* stack, interpreter frames, JIT frames), joins them and sweeps.  The     *)
(* program's other threads are never stopped.                              *)
(*                                                                         *)
(* Sizes, pools and thresholds are the subject of MemoryPools: here a      *)
(* collection may happen at any allocation.                                *)
(***************************************************************************)
EXTENDS Naturals, Sequences, FiniteSets

CONSTANTS
  Addr,      \* memory blocks
  Null,      \* the null reference
  Threads,   \* threads of the program
  Main,      \* the thread vm.cpp starts
  Statics,   \* class variables
  Locals,    \* variables of a stack frame
  Self,      \* the frame variable that holds the instance, mem[0]
  Param,     \* its first variable, mem[1], the parameter of a method
  Fields,    \* instance variables of an object, elements of an array
  Decl,      \* declared type of each variable (StackDclr::type)
  Kinds,     \* the kinds of block the program allocates
  Ints,      \* integers of the program whose bits equal a block's address
  NoJit,     \* built with _NO_JIT
  CollectAt, \* bound: blocks in use before a collection is asked for
  MaxOp,     \* bound: depth of an operand stack
  MaxCalls   \* bound: length of the call stack of each thread

Val == Addr \cup {Null}

ParmTypes == {"OBJ_PARM", "OBJ_ARY_PARM", "PRIM_ARY_PARM"}
BlockKinds == {"obj", "objary", "intary", "bytes"}

ASSUME MemoryAssumption ==
  /\ Null \notin Addr
  /\ Main \in Threads /\ "free" \notin Threads
  /\ Self \in Locals /\ Param \in Locals
  /\ Decl \in [Statics \cup Locals \cup Fields -> ParmTypes]
  /\ Decl[Self] = "OBJ_PARM"
  /\ Kinds \subseteq BlockKinds
  /\ Ints \subseteq Addr
  /\ NoJit \in BOOLEAN
  /\ CollectAt \in Nat /\ MaxOp \in Nat \ {0}
  /\ MaxCalls \in [Threads -> Nat]

(* The compiler's typing: what a variable of a declared type may hold. *)
Fits(type, k) ==
  \/ type = "OBJ_PARM"      /\ k = "obj"
  \/ type = "OBJ_ARY_PARM"  /\ k = "objary"
  \/ type = "PRIM_ARY_PARM" /\ k \in {"intary", "bytes"}

Markers == {"static", "stack", "pda", "jit"}

VARIABLES
  kind,            \* TYPE word of a block
  refs,            \* contents of a block
  allocated,       \* allocated_memory
  unsorted,        \* what was appended to allocated_memory since its last sort
  static,          \* class memory
  th,              \* what each thread is doing
  op,              \* operand stacks
  pos,             \* stack_pos of each thread
  frames,          \* call stack of each thread, the current frame last
  block,           \* block obtained by an allocation not yet recorded
  holder,          \* ThreadHolder of a thread that has not started yet
  gc,              \* stage of the collection thread
  owner,           \* holder of marked_sweep_mutex
  flagged,         \* blocks with MARKED_FLAG set
  marked,          \* marked_memory
  mst,             \* stage of each mark thread
  work,            \* what each mark thread has still to visit
  cur,             \* block a mark thread has tested and will mark
  allocated_mutex, \* holders, "free" when none
  marked_mutex

heapVars   == <<kind, refs, allocated, unsorted>>
threadVars == <<th, op, pos, frames, block, holder>>
gcVars     == <<gc, owner, flagged, marked, mst, work, cur,
                allocated_mutex, marked_mutex>>
vars == <<heapVars, static, threadVars, gcVars>>

Entry(v, isRef) == [v |-> v, ref |-> isRef]
NewFrame(self, isJit) ==
  [jit |-> isJit, mem |-> [l \in Locals |-> IF l = Self THEN self ELSE Null],
   tmp |-> Entry(Null, FALSE)]
NoWord == [a |-> Null, how |-> "raw"]
NoBlock == [a |-> Null, kind |-> "obj"]

(* Main runs one call deep: Execute runs the program's initialisation      *)
(* method, which calls Main.                                               *)
Init ==
  /\ kind = [a \in Addr |-> "free"]
  /\ refs = [a \in Addr |-> [f \in Fields |-> Null]]
  /\ allocated = {} /\ unsorted = {}
  /\ static = [s \in Statics |-> Null]
  /\ th = [t \in Threads |-> IF t = Main THEN "run" ELSE "new"]
  /\ op = [t \in Threads |-> [i \in 0..MaxOp |-> Entry(Null, FALSE)]]
  /\ pos = [t \in Threads |-> 0]
  /\ frames = [t \in Threads |->
                 IF t = Main THEN <<NewFrame(Null, FALSE), NewFrame(Null, FALSE)>>
                             ELSE << >>]
  /\ block = [t \in Threads |-> NoBlock]
  /\ holder = [t \in Threads |-> [self |-> Null, param |-> Null]]
  /\ gc = "idle" /\ owner = "free"
  /\ flagged = {} /\ marked = {}
  /\ mst = [m \in Markers |-> "off"]
  /\ work = [m \in Markers |-> {}]
  /\ cur = [m \in Markers |-> NoWord]
  /\ allocated_mutex = "free" /\ marked_mutex = "free"

-----------------------------------------------------------------------------
(* Instructions of the program's threads *)

Running(t) == th[t] = "run"
CurrentFrame(t) == frames[t][Len(frames[t])]
Top(t) == op[t][pos[t] - 1]

(* PushInt(v): the slot above the top keeps what an earlier pop left.      *)
Push(t, e) ==
  /\ op' = [op EXCEPT ![t][pos[t]] = e]
  /\ pos' = [pos EXCEPT ![t] = @ + 1]

SetLocal(t, l, v) ==
  frames' = [frames EXCEPT ![t][Len(frames[t])].mem[l] = v]

LoadInt(t) ==
  /\ Running(t) /\ pos[t] < MaxOp
  /\ \E n \in Ints : Push(t, Entry(n, FALSE))
  /\ UNCHANGED <<heapVars, static, th, frames, block, holder, gcVars>>

LoadLocal(t, l) ==
  /\ Running(t) /\ pos[t] < MaxOp
  /\ Push(t, Entry(CurrentFrame(t).mem[l], TRUE))
  /\ UNCHANGED <<heapVars, static, th, frames, block, holder, gcVars>>

LoadStatic(t, s) ==
  /\ Running(t) /\ pos[t] < MaxOp
  /\ Push(t, Entry(static[s], TRUE))
  /\ UNCHANGED <<heapVars, static, th, frames, block, holder, gcVars>>

(* STOR_INT_VAR, local: PopInt into the frame's memory *)
StoreLocal(t, l) ==
  /\ Running(t) /\ pos[t] > 0 /\ l # Self
  /\ Top(t).ref
  /\ Top(t).v # Null => Fits(Decl[l], kind[Top(t).v])
  /\ SetLocal(t, l, Top(t).v)
  /\ pos' = [pos EXCEPT ![t] = @ - 1]
  /\ UNCHANGED <<heapVars, static, th, op, block, holder, gcVars>>

StoreStatic(t, s) ==
  /\ Running(t) /\ pos[t] > 0
  /\ Top(t).ref
  /\ Top(t).v # Null => Fits(Decl[s], kind[Top(t).v])
  /\ static' = [static EXCEPT ![s] = Top(t).v]
  /\ pos' = [pos EXCEPT ![t] = @ - 1]
  /\ UNCHANGED <<heapVars, th, op, frames, block, holder, gcVars>>

(* Loading from an instance or an array replaces the reference on top.      *)
(* Where that is null, LOAD_INT_VAR stops the program and has no step here;  *)
(* LOAD_INT_ARY_ELM prints and goes on with the index in its place, which    *)
(* is what Pop and LoadInt do.                                             *)
LoadField(t, f) ==
  /\ Running(t) /\ pos[t] > 0
  /\ Top(t).ref /\ Top(t).v # Null
  /\ kind[Top(t).v] \notin {"bytes", "free"}
  /\ op' = [op EXCEPT ![t][pos[t] - 1] =
              Entry(refs[Top(t).v][f], kind[Top(t).v] # "intary")]
  /\ UNCHANGED <<heapVars, static, th, pos, frames, block, holder, gcVars>>

(* What may be stored in slot f of block a *)
Storable(e, a, f) ==
  IF kind[a] = "intary"
  THEN ~e.ref
  ELSE /\ e.ref
       /\ e.v # Null =>
            Fits(IF kind[a] = "obj" THEN Decl[f] ELSE "OBJ_PARM", kind[e.v])

(* STOR_INT_VAR, instance, and STOR_INT_ARY_ELM: the instance or array is   *)
(* on top, the value below it.  Where the former is null, STOR_INT_VAR stops *)
(* the program; STOR_INT_ARY_ELM prints and goes on with the array taken and *)
(* the index and the value left, which is what Pop and LoadInt do.          *)
StoreField(t, f) ==
  /\ Running(t) /\ pos[t] > 1
  /\ Top(t).ref /\ Top(t).v # Null
  /\ kind[Top(t).v] \notin {"bytes", "free"}
  /\ Storable(op[t][pos[t] - 2], Top(t).v, f)
  /\ refs' = [refs EXCEPT ![Top(t).v][f] = op[t][pos[t] - 2].v]
  /\ pos' = [pos EXCEPT ![t] = @ - 2]
  /\ UNCHANGED <<kind, allocated, unsorted, static, th, op, frames, block, holder, gcVars>>

Pop(t) ==
  /\ Running(t) /\ pos[t] > 0
  /\ pos' = [pos EXCEPT ![t] = @ - 1]
  /\ UNCHANGED <<heapVars, static, th, op, frames, block, holder, gcVars>>

(* The JIT frame of native code is registered under jit_mutex, which the   *)
(* JIT mark thread holds while it scans.                                   *)
JitRootsFree == mst["jit"] = "off"
PdaRootsFree == mst["pda"] = "off"

(* MTHD_CALL: the instance is popped into the new frame; native code gets  *)
(* a zeroed JIT frame of its own.                                          *)
Call(t, isJit) ==
  /\ Running(t) /\ pos[t] > 0 /\ Len(frames[t]) < MaxCalls[t]
  /\ Top(t).ref
  /\ Top(t).v # Null => kind[Top(t).v] = "obj"
  /\ isJit => ~NoJit /\ JitRootsFree
  /\ frames' = [frames EXCEPT ![t] = Append(@, NewFrame(Top(t).v, isJit))]
  /\ pos' = [pos EXCEPT ![t] = @ - 1]
  /\ UNCHANGED <<heapVars, static, th, op, block, holder, gcVars>>

(* Native code saves a register in a temporary of its JIT frame and reads   *)
(* it back.                                                                *)
Spill(t) ==
  /\ Running(t) /\ CurrentFrame(t).jit /\ pos[t] > 0
  /\ frames' = [frames EXCEPT ![t][Len(frames[t])].tmp = Top(t)]
  /\ pos' = [pos EXCEPT ![t] = @ - 1]
  /\ UNCHANGED <<heapVars, static, th, op, block, holder, gcVars>>

Reload(t) ==
  /\ Running(t) /\ CurrentFrame(t).jit /\ pos[t] < MaxOp
  /\ Push(t, CurrentFrame(t).tmp)
  /\ UNCHANGED <<heapVars, static, th, frames, block, holder, gcVars>>

(* RTRN to the caller: the frame is released, a JIT frame unregistered.     *)
Return(t) ==
  /\ Running(t)
  /\ Len(frames[t]) > (IF t = Main THEN 2 ELSE 1)
  /\ CurrentFrame(t).jit => JitRootsFree
  /\ frames' = [frames EXCEPT ![t] = SubSeq(@, 1, Len(@) - 1)]
  /\ UNCHANGED <<heapVars, static, th, op, pos, block, holder, gcVars>>

-----------------------------------------------------------------------------
(* Threads of the program *)

(* ASYNC_MTHD_CALL: the new thread runs with the instance and the parameter *)
(* of the creator's frame; until it starts they are in a ThreadHolder.      *)
ProcessAsyncMethodCall(t, u) ==
  /\ Running(t) /\ th[u] = "new"
  /\ CurrentFrame(t).mem[Self] # Null
  /\ th' = [th EXCEPT ![u] = "starting"]
  /\ holder' = [holder EXCEPT ![u] = [self |-> CurrentFrame(t).mem[Self],
                                      param |-> CurrentFrame(t).mem[Param]]]
  /\ UNCHANGED <<heapVars, static, op, pos, frames, block, gcVars>>

(* AsyncMethodCall: parameter on the new stack, monitor registered,        *)
(* Execute starts with call_stack_pos 0.                                   *)
AsyncMethodCall(u) ==
  /\ th[u] = "starting" /\ PdaRootsFree
  /\ th' = [th EXCEPT ![u] = "run"]
  /\ frames' = [frames EXCEPT ![u] = <<NewFrame(holder[u].self, FALSE)>>]
  /\ op' = [op EXCEPT ![u][0] = Entry(holder[u].param, TRUE)]
  /\ pos' = [pos EXCEPT ![u] = 1]
  /\ UNCHANGED <<heapVars, static, block, holder, gcVars>>

(* The bottom frame returns: monitor unregistered, thread gone. *)
ExitThread(u) ==
  /\ u # Main /\ Running(u) /\ Len(frames[u]) = 1 /\ PdaRootsFree
  /\ th' = [th EXCEPT ![u] = "done"]
  /\ frames' = [frames EXCEPT ![u] = << >>]
  /\ pos' = [pos EXCEPT ![u] = 0]
  /\ UNCHANGED <<heapVars, static, op, block, holder, gcVars>>

-----------------------------------------------------------------------------
(* Allocation: AllocateObject and AllocateArray *)

InFlight == {block[t].a : t \in Threads} \ {Null}
Allocating == {t \in Threads : th[t] \in {"collecting", "allocating"}}

(* pthread_mutex_trylock of marked_sweep_mutex *)
TryLockIgnored == TRUE
TryLock == owner = "free"

(* A NEW_* instruction of kind k: the size check asks for a collection or   *)
(* not; a thread that finds marked_sweep_mutex taken allocates without.     *)
(* Bound: a block is left for every allocation under way.                  *)
New(t, k) ==
  /\ Running(t) /\ pos[t] < MaxOp
  /\ Cardinality(allocated \cup InFlight) + Cardinality(Allocating) < Cardinality(Addr)
  /\ block' = [block EXCEPT ![t] = [a |-> Null, kind |-> k]]
  /\ \/ /\ th' = [th EXCEPT ![t] = "allocating"]
        /\ UNCHANGED <<gc, owner>>
     \/ /\ Cardinality(allocated) >= CollectAt
        /\ TryLock
        /\ owner' = t
        /\ gc' = "sort"
        /\ th' = [th EXCEPT ![t] = "collecting"]
  /\ UNCHANGED <<heapVars, static, op, pos, frames, holder, flagged, marked, mst,
                 work, cur, allocated_mutex, marked_mutex>>

(* A block from calloc, zeroed, or from a pool, zeroed when it was put there. *)
GetBlock(t) ==
  /\ th[t] = "allocating" /\ block[t].a = Null
  /\ \E a \in Addr \ (allocated \cup InFlight) :
       /\ block' = [block EXCEPT ![t].a = a]
       /\ kind' = [kind EXCEPT ![a] = block[t].kind]
       /\ refs' = [refs EXCEPT ![a] = [f \in Fields |-> Null]]
       /\ flagged' \in {flagged, flagged \ {a}}
  /\ UNCHANGED <<allocated, unsorted, static, th, op, pos, frames, holder, gc, owner,
                 marked, mst, work, cur, allocated_mutex, marked_mutex>>

(* Recorded under allocated_mutex, then pushed by the instruction.          *)
Record(t) ==
  /\ th[t] = "allocating" /\ block[t].a # Null
  /\ allocated_mutex = "free"
  /\ allocated' = allocated \cup {block[t].a}
  /\ unsorted' = unsorted \cup {block[t].a}
  /\ Push(t, Entry(block[t].a, TRUE))
  /\ block' = [block EXCEPT ![t] = NoBlock]
  /\ th' = [th EXCEPT ![t] = "run"]
  /\ UNCHANGED <<kind, refs, static, frames, holder, gcVars>>

-----------------------------------------------------------------------------
(* Collection *)

(* A word to visit: its value, and the declared type of the variable it was *)
(* read from, "raw" when none is known.  Null words are passed over.        *)
Words == [a : Addr, how : ParmTypes \cup {"raw"}]

NotNullUnchecked(mem) == DOMAIN mem
NotNull(mem) == {v \in DOMAIN mem : mem[v] # Null}
Variables(mem) == {[a |-> mem[v], how |-> Decl[v]] : v \in NotNull(mem)}
Elements(mem, how) == {[a |-> mem[v], how |-> how] : v \in NotNull(mem)}

(* CheckPdaRoots scans a monitored call stack that is not empty, the        *)
(* current frame and the frames below it; CheckJitRoots the registered      *)
(* frames of native code.                                                  *)
PdaFramesBelow(t) == {i \in 1..(Len(frames[t]) - 1) : ~frames[t][i].jit}
PdaFrames(t) == {i \in DOMAIN frames[t] : ~frames[t][i].jit /\ Len(frames[t]) > 1}
JitFrames(t) == {i \in DOMAIN frames[t] : frames[t][i].jit}

FrameWords(t, indices) == UNION {Variables(frames[t][i].mem) : i \in indices}
TempWordsNone(t) == {}
TempWords(t) ==
  UNION {Elements([v \in {"tmp"} |-> frames[t][i].tmp.v], "raw") : i \in JitFrames(t)}

(* CheckStack starts at stack_pos, the slot above the top of the stack.     *)
StackWordsWithoutTop(t) == Elements([i \in 0..(pos[t] - 2) |-> op[t][i].v], "raw")
StackWordsWhole(t) == Elements([i \in 0..MaxOp |-> op[t][i].v], "raw")
StackWords(t) == Elements([i \in 0..pos[t] |-> op[t][i].v], "raw")

Roots(m) ==
  CASE m = "static" -> Variables(static)
    [] m = "stack"  -> StackWords(owner)
    [] m = "pda"    -> UNION {FrameWords(t, PdaFrames(t)) : t \in Threads}
    [] m = "jit"    -> UNION {FrameWords(t, JitFrames(t)) \cup TempWords(t) : t \in Threads}

(* std::sort of allocated_memory, then the four mark threads are created.   *)
Sort ==
  /\ gc = "sort" /\ allocated_mutex = "free"
  /\ unsorted' = {}
  /\ gc' = "mark"
  /\ mst' = [m \in Markers |-> "ready"]
  /\ UNCHANGED <<kind, refs, allocated, static, threadVars, owner, flagged, marked,
                 work, cur, allocated_mutex, marked_mutex>>

(* CheckStatic, CheckStack, CheckPdaRoots and CheckJitRoots read their      *)
(* roots.                                                                  *)
ReadRoots(m) ==
  /\ mst[m] = "ready"
  /\ mst' = [mst EXCEPT ![m] = "scan"]
  /\ work' = [work EXCEPT ![m] = Roots(m)]
  /\ UNCHANGED <<heapVars, static, threadVars, gc, owner, flagged, marked, cur,
                 allocated_mutex, marked_mutex>>

(* std::binary_search of allocated_memory: it finds no block that is not    *)
(* there and may miss one when blocks were appended since the sort.        *)
Search(a) ==
  IF a \notin allocated THEN {FALSE}
  ELSE IF unsorted = {} THEN {TRUE} ELSE BOOLEAN

(* Whether CheckObject takes a word for an instance: by its TYPE word where *)
(* the declaration says it is one, by GetClassMapping for a raw word.      *)
Identified(w) ==
  IF w.how = "raw" THEN {found /\ kind[w.a] = "obj" : found \in Search(w.a)}
                   ELSE {kind[w.a] = "obj"}

(* The flag is tested before marked_mutex is taken to set it. *)
TestFlagAlways(m, w, stage) ==
  /\ cur' = [cur EXCEPT ![m] = w]
  /\ mst' = [mst EXCEPT ![m] = stage]
TestFlag(m, w, stage) ==
  IF w.a \in flagged
  THEN UNCHANGED <<mst, cur>>
  ELSE /\ cur' = [cur EXCEPT ![m] = w]
       /\ mst' = [mst EXCEPT ![m] = stage]

(* MarkMemory, for an instance or an array of a primitive type *)
VisitMemory(m) ==
  /\ mst[m] = "scan"
  /\ \E w \in work[m] :
       /\ \/ w.how = "PRIM_ARY_PARM"
          \/ w.how \in {"OBJ_PARM", "raw"} /\ TRUE \in Identified(w)
       /\ w.how = "raw" => allocated_mutex = "free"
       /\ TestFlag(m, w, "mark")
       /\ work' = [work EXCEPT ![m] = @ \ {w}]
  /\ UNCHANGED <<heapVars, static, threadVars, gc, owner, flagged, marked,
                 allocated_mutex, marked_mutex>>

(* MarkValidMemory, for an array of references and for what CheckObject     *)
(* could not identify: searched and tested under allocated_mutex, which is  *)
(* kept until the block is marked.                                         *)
VisitValidMemory(m) ==
  /\ mst[m] = "scan" /\ allocated_mutex = "free"
  /\ \E w \in work[m] :
       /\ \/ w.how = "OBJ_ARY_PARM"
          \/ w.how \in {"OBJ_PARM", "raw"} /\ FALSE \in Identified(w)
       /\ \E found \in Search(w.a) :
            IF found THEN TestFlag(m, w, "markvalid") ELSE UNCHANGED <<mst, cur>>
       /\ allocated_mutex' = IF mst'[m] = "markvalid" THEN m ELSE "free"
       /\ work' = [work EXCEPT ![m] = @ \ {w}]
  /\ UNCHANGED <<heapVars, static, threadVars, gc, owner, flagged, marked, marked_mutex>>

(* What a newly marked block adds to the visit: the variables of an         *)
(* instance by their declarations, the elements of an array of references   *)
(* as instances, those of an array met as a raw word as raw words.         *)
ContentsDeclaredOnly(w) ==
  CASE w.how = "PRIM_ARY_PARM" -> {}
    [] w.how = "OBJ_ARY_PARM"  -> Elements(refs[w.a], "OBJ_PARM")
    [] OTHER -> IF kind[w.a] = "obj" THEN Variables(refs[w.a]) ELSE {}
Contents(w) ==
  CASE w.how = "PRIM_ARY_PARM" -> {}
    [] w.how = "OBJ_ARY_PARM"  -> Elements(refs[w.a], "OBJ_PARM")
    [] OTHER -> CASE kind[w.a] = "obj"   -> Variables(refs[w.a])
                  [] kind[w.a] \in {"bytes", "free"} -> {}
                  [] OTHER               -> Elements(refs[w.a], "raw")

(* A search that misses can leave an array unscanned, or have an instance   *)
(* read as if it were an array.                                            *)
Scans(m) ==
  IF mst[m] = "mark" \/ unsorted = {} \/ cur[m].how = "OBJ_ARY_PARM"
  THEN {Contents(cur[m])}
  ELSE SUBSET Elements(refs[cur[m].a], "raw")

Mark(m) ==
  /\ mst[m] \in {"mark", "markvalid"}
  /\ marked_mutex = "free"
  /\ flagged' = flagged \cup {cur[m].a}
  /\ marked' = marked \cup {cur[m].a}
  /\ \E contents \in Scans(m) :
       work' = [work EXCEPT ![m] = @ \cup contents]
  /\ mst' = [mst EXCEPT ![m] = "scan"]
  /\ cur' = [cur EXCEPT ![m] = NoWord]
  /\ allocated_mutex' = IF mst[m] = "markvalid" THEN "free" ELSE allocated_mutex
  /\ UNCHANGED <<heapVars, static, threadVars, gc, owner, marked_mutex>>

(* A mark thread that has nothing left exits; its root lists are unlocked.  *)
MarkDone(m) ==
  /\ mst[m] = "scan" /\ work[m] = {}
  /\ mst' = [mst EXCEPT ![m] = "off"]
  /\ UNCHANGED <<heapVars, static, threadVars, gc, owner, flagged, marked, work, cur,
                 allocated_mutex, marked_mutex>>

StackNotJoined ==
  mst["stack"] # "ready" /\ \A m \in Markers \ {"stack"} : mst[m] = "off"
AllJoined == \A m \in Markers : mst[m] = "off"

(* The collection thread joins the four mark threads, then takes            *)
(* marked_mutex and, holding it, allocated_mutex.                          *)
JoinMarkers ==
  /\ gc = "mark"
  /\ AllJoined
  /\ marked_mutex = "free"
  /\ marked_mutex' = "gc"
  /\ gc' = "lock"
  /\ UNCHANGED <<heapVars, static, threadVars, owner, flagged, marked, mst, work, cur,
                 allocated_mutex>>

LockAllocated ==
  /\ gc = "lock" /\ allocated_mutex = "free"
  /\ allocated_mutex' = "gc"
  /\ gc' = "sweep"
  /\ UNCHANGED <<heapVars, static, threadVars, owner, flagged, marked, mst, work, cur,
                 marked_mutex>>

(* MARKED_FLAG is cleared for what is kept and zeroed with the rest;         *)
(* marked_memory is cleared.                                               *)
FlagsOfKept == flagged \ (allocated \ marked)
SweptFlags == flagged \ allocated
MarksOfKept == marked
SweptMarks == {}

(* The sweep keeps what is in marked_memory and clears its flag, zeroes and *)
(* frees the rest, clears marked_memory and replaces allocated_memory.     *)
Sweep ==
  /\ gc = "sweep"
  /\ allocated' = allocated \cap marked
  /\ unsorted' = unsorted \cap marked
  /\ refs' = [a \in Addr |-> IF a \in allocated \ marked
                             THEN [f \in Fields |-> Null] ELSE refs[a]]
  /\ kind' = [a \in Addr |-> IF a \in allocated \ marked THEN "free" ELSE kind[a]]
  /\ flagged' = SweptFlags
  /\ marked' = SweptMarks
  /\ marked_mutex' = "free" /\ allocated_mutex' = "free"
  /\ gc' = "done"
  /\ UNCHANGED <<static, threadVars, owner, mst, work, cur>>

(* The allocating thread joins the collection thread.                       *)
JoinCollector(t) ==
  /\ gc = "done" /\ owner = t
  /\ gc' = "idle" /\ owner' = "free"
  /\ th' = [th EXCEPT ![t] = "allocating"]
  /\ UNCHANGED <<heapVars, static, op, pos, frames, block, holder, flagged, marked,
                 mst, work, cur, allocated_mutex, marked_mutex>>

-----------------------------------------------------------------------------
Instruction(t) ==
  \/ LoadInt(t) \/ Pop(t) \/ Spill(t) \/ Reload(t) \/ Return(t) \/ ExitThread(t)
  \/ \E l \in Locals : LoadLocal(t, l) \/ StoreLocal(t, l)
  \/ \E s \in Statics : LoadStatic(t, s) \/ StoreStatic(t, s)
  \/ \E f \in Fields : LoadField(t, f) \/ StoreField(t, f)
  \/ \E isJit \in BOOLEAN : Call(t, isJit)
  \/ \E u \in Threads : ProcessAsyncMethodCall(t, u)
  \/ \E k \in Kinds : New(t, k)

Allocate(t) == GetBlock(t) \/ Record(t) \/ JoinCollector(t)

Collector == Sort \/ JoinMarkers \/ LockAllocated \/ Sweep

Marker(m) ==
  \/ ReadRoots(m) \/ VisitMemory(m) \/ VisitValidMemory(m)
  \/ Mark(m) \/ MarkDone(m)

Next ==
  \/ \E t \in Threads : Instruction(t) \/ Allocate(t) \/ AsyncMethodCall(t)
  \/ Collector
  \/ \E m \in Markers : Marker(m)

Spec == Init /\ [][Next]_vars

(* The scheduler runs every thread that can run; nothing makes the program  *)
(* itself take a step.                                                     *)
Fairness ==
  /\ \A t \in Threads : WF_vars(Allocate(t))
  /\ WF_vars(Collector)
  /\ \A m \in Markers : WF_vars(Marker(m))

FairSpec == Spec /\ Fairness

-----------------------------------------------------------------------------
(* Properties *)

Entries == [v : Val, ref : BOOLEAN]
FrameType == [jit : BOOLEAN, mem : [Locals -> Val], tmp : Entries]

HeapType ==
  /\ kind \in [Addr -> BlockKinds \cup {"free"}]
  /\ refs \in [Addr -> [Fields -> Val]]
  /\ allocated \in SUBSET Addr /\ unsorted \in SUBSET Addr
  /\ static \in [Statics -> Val]

ThreadType ==
  /\ th \in [Threads -> {"new", "starting", "run", "collecting", "allocating", "done"}]
  /\ op \in [Threads -> [0..MaxOp -> Entries]]
  /\ pos \in [Threads -> 0..MaxOp]
  /\ frames \in [Threads -> Seq(FrameType)]
  /\ block \in [Threads -> [a : Val, kind : BlockKinds]]
  /\ holder \in [Threads -> [self : Val, param : Val]]

CollectorType ==
  /\ gc \in {"idle", "sort", "mark", "lock", "sweep", "done"}
  /\ owner \in Threads \cup {"free"}
  /\ flagged \in SUBSET Addr /\ marked \in SUBSET Addr
  /\ mst \in [Markers -> {"off", "ready", "scan", "mark", "markvalid"}]
  /\ work \in [Markers -> SUBSET Words]
  /\ cur \in [Markers -> Words \cup {NoWord}]
  /\ allocated_mutex \in Markers \cup {"free", "gc"}
  /\ marked_mutex \in {"free", "gc"}

(* The state of the collector and of the program is well formed, and no     *)
(* null word is ever visited (vm/os/posix/memory.cpp).  That the stacks stay *)
(* within MaxOp is by the guards of the instructions, not by the code.      *)
TypeOK == HeapType /\ ThreadType /\ CollectorType

(* References the program holds: class variables, the variables of every    *)
(* frame, operand stacks below stack_pos, and the parameters of a thread    *)
(* that is about to start.                                                 *)
StaticRefs == {a \in Addr : \E s \in Statics : static[s] = a}
LocalRefs(t) ==
  {a \in Addr : \E i \in DOMAIN frames[t] :
     \/ \E l \in Locals : frames[t][i].mem[l] = a
     \/ frames[t][i].tmp = Entry(a, TRUE)}
StackRefs(t) == {a \in Addr : \E i \in 0..MaxOp : i < pos[t] /\ op[t][i] = Entry(a, TRUE)}
HolderRefs(t) ==
  {a \in Addr : th[t] = "starting" /\ a \in {holder[t].self, holder[t].param}}
ProgramRefs ==
  StaticRefs \cup UNION {LocalRefs(t) \cup StackRefs(t) \cup HolderRefs(t) : t \in Threads}

(* References a block holds: the integers of an integer array are none.     *)
BlockRefs(a) ==
  {b \in Addr : kind[a] \in {"obj", "objary"} /\ \E f \in Fields : refs[a][f] = b}

(* No reference the program holds or can load is to a block that has been   *)
(* taken back: what the sweep of CollectMemory frees is out of reach.       *)
NoDangling ==
  /\ ProgramRefs \subseteq allocated
  /\ \A a \in allocated : BlockRefs(a) \subseteq allocated

(* Between collections no block has its MARKED_FLAG set and marked_memory   *)
(* is empty: a flag left behind would hide a block's contents from the next *)
(* collection.                                                             *)
CleanBetween ==
  gc \in {"idle", "sort", "done"} =>
    /\ flagged = {} /\ marked = {}
    /\ \A m \in Markers : work[m] = {} /\ cur[m] = NoWord

(* The sweep takes marked_mutex before allocated_mutex, MarkValidMemory the *)
(* other way round: they never wait for one another.                       *)
NoLockCycle ==
  ~ (marked_mutex = "gc" /\ allocated_mutex \in Markers)

(* Blocks met when following every word from the roots of the collection,   *)
(* whatever its type, the slot above the top of the operand stack included.  *)
RootWords ==
  {a \in Addr :
     \/ a \in StaticRefs
     \/ \E i \in 0..pos[owner] : op[owner][i].v = a
     \/ \E t \in Threads : \E i \in DOMAIN frames[t] :
          frames[t][i].tmp.v = a \/ \E l \in Locals : frames[t][i].mem[l] = a}
Closure(S) ==
  {a \in allocated : \A T \in SUBSET allocated :
     ( /\ S \cap allocated \subseteq T
       /\ \A b \in T : {refs[b][f] : f \in Fields} \cap allocated \subseteq T ) => a \in T}
Conservative == Closure(RootWords)

(* A collection gives back every block that no word reaches.                *)
GarbageReclaimed ==
  [][gc = "sweep" /\ gc' = "done" => allocated' \subseteq Conservative]_vars

(* Only one thread at a time runs a collection.                             *)
OneCollector == \A t, u \in Threads :
  th[t] = "collecting" /\ th[u] = "collecting" => t = u

(* The collector implements AbstractHeap.                                   *)
Heap == INSTANCE AbstractHeap WITH
  live <- allocated,
  root <- ProgramRefs,
  edge <- [a \in Addr |-> IF a \in allocated THEN BlockRefs(a) ELSE {}]
HeapSpec == Heap!Spec

(* Every allocation returns, through a collection or not.                   *)
AllocationReturns ==
  \A t \in Threads : th[t] \in {"collecting", "allocating"} ~> th[t] = "run"

(* Blocks the mark threads reach from the roots they are about to read      *)
Traced == Closure({w.a : w \in UNION {Roots(m) : m \in Markers}})
MarkStarts == gc = "mark" /\ \A m \in Markers : mst[m] = "ready"

(* "scan stack memory for threads op_stack, stack_pos" (fixes.txt): the     *)
(* mark threads reach what every thread has on its operand stack.          *)
ThreadStacksScanned ==
  MarkStarts => \A t \in Threads : StackRefs(t) \cap allocated \subseteq Traced
=============================================================================
