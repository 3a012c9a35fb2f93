------------------------ MODULE MemoryManager_proofs ------------------------
(***************************************************************************)
(* Theorems about MemoryManager, for any number of threads, blocks and      *)
(* variables: type correctness and lock order; then, for a program of one   *)
(* thread, that the collector never takes back a block the program can     *)
(* reach (the four mark threads and the sweep are concurrent, the program   *)
(* waits for them in CollectMemory), that it implements AbstractHeap, and   *)
(* that what a collection found unreachable is gone when it ends.           *)
(***************************************************************************)
EXTENDS MemoryInvariant, SequenceTheorems, TLAPS

-----------------------------------------------------------------------------
(* Frames and operand stacks *)

(* GetStackFrame hands out a well-formed frame. *)
LEMMA NewFrameTyped ==
  ASSUME NEW self \in Val, NEW isJit \in BOOLEAN
  PROVE  NewFrame(self, isJit) \in FrameType
BY DEF NewFrame, FrameType, Entries, Entry, Val

(* A call stack of two frames. *)
LEMMA PairTyped ==
  ASSUME NEW S, NEW f \in S
  PROVE  <<f, f>> \in Seq(S) /\ <<f>> \in Seq(S) /\ Len(<<f, f>>) = 2 /\ Len(<<f>>) = 1
         /\ \A i \in 1..2 : <<f, f>>[i] = f
OBVIOUS

(* The current frame of a thread that has one. *)
LEMMA CurrentTyped ==
  ASSUME ThreadType, NEW t \in Threads, Len(frames[t]) > 0
  PROVE  /\ CurrentFrame(t) \in FrameType
         /\ Len(frames[t]) \in 1..Len(frames[t])
<1>1. frames[t] \in Seq(FrameType) /\ Len(frames[t]) \in Nat
  BY LenProperties DEF ThreadType
<1>2. Len(frames[t]) \in 1..Len(frames[t])
  BY <1>1
<1> QED BY <1>1, <1>2, ElementOfSeq DEF CurrentFrame

(* A value popped from the operand stack is an entry. *)
LEMMA TopTyped ==
  ASSUME ThreadType, NEW t \in Threads, pos[t] > 0
  PROVE  Top(t) \in Entries
BY MemoryAssumption DEF ThreadType, Top

(* PushInt keeps the operand stacks well formed. *)
LEMMA PushTyped ==
  ASSUME ThreadType, NEW t \in Threads, NEW e \in Entries, pos[t] < MaxOp, Push(t, e)
  PROVE  /\ op' \in [Threads -> [0..MaxOp -> Entries]]
         /\ pos' \in [Threads -> 0..MaxOp]
BY MemoryAssumption DEF ThreadType, Push

(* So does replacing one frame of a call stack by another. *)
LEMMA FrameReplaced ==
  ASSUME ThreadType, NEW t \in Threads, NEW f \in FrameType, NEW i \in 1..Len(frames[t])
  PROVE  LET new == [frames EXCEPT ![t] = [@ EXCEPT ![i] = f]]
         IN  /\ new \in [Threads -> Seq(FrameType)]
             /\ \A u \in Threads : Len(new[u]) = Len(frames[u])
<1>1. frames[t] \in Seq(FrameType)
  BY DEF ThreadType
<1>2. /\ [frames[t] EXCEPT ![i] = f] \in Seq(FrameType)
      /\ Len([frames[t] EXCEPT ![i] = f]) = Len(frames[t])
  BY <1>1, ExceptSeq
<1> QED BY <1>2 DEF ThreadType

LEMMA InitTyped == ASSUME Init PROVE TypeOK /\ Control
<1>1. HeapType
  BY MemoryAssumption DEF Init, HeapType, Val, BlockKinds
<1>2. ThreadType
  <2>1. NewFrame(Null, FALSE) \in FrameType
    BY NewFrameTyped DEF Val
  <2>2. <<NewFrame(Null, FALSE), NewFrame(Null, FALSE)>> \in Seq(FrameType)
    BY <2>1, PairTyped
  <2>3. << >> \in Seq(FrameType)
    OBVIOUS
  <2>4. frames \in [Threads -> Seq(FrameType)]
    BY <2>2, <2>3 DEF Init
  <2>5. op \in [Threads -> [0..MaxOp -> Entries]]
    BY DEF Init, Entries, Entry, Val
  <2>6. pos \in [Threads -> 0..MaxOp]
    BY MemoryAssumption DEF Init
  <2>7. block \in [Threads -> [a : Val, kind : BlockKinds]]
    BY DEF Init, NoBlock, Val, BlockKinds
  <2>8. holder \in [Threads -> [self : Val, param : Val]]
    BY DEF Init, Val
  <2>9. th \in [Threads -> {"new", "starting", "run", "collecting", "allocating", "done"}]
    BY DEF Init
  <2> QED BY <2>4, <2>5, <2>6, <2>7, <2>8, <2>9 DEF ThreadType
<1>3. CollectorType
  BY DEF Init, CollectorType, Words, NoWord, Markers
<1>4. Control
  <2> DEFINE two == <<NewFrame(Null, FALSE), NewFrame(Null, FALSE)>>
  <2>1. Len(two) > 0
    BY PairTyped
  <2>2. \A t \in Threads : th[t] \in {"run", "collecting", "allocating"} => Len(frames[t]) > 0
    BY <2>1 DEF Init
  <2> QED BY <2>2 DEF Init, Control
<1> QED BY <1>1, <1>2, <1>3, <1>4 DEF TypeOK

-----------------------------------------------------------------------------
(* The instructions *)

(* An instruction that leaves the heap, the collector, what a thread is      *)
(* doing and its allocation alone, and no call stack empty.                 *)
LEMMA LocalStep ==
  ASSUME TypeOK, Control,
         UNCHANGED <<heapVars, th, block, holder, gcVars>>,
         static' \in [Statics -> Val],
         op' \in [Threads -> [0..MaxOp -> Entries]],
         pos' \in [Threads -> 0..MaxOp],
         frames' \in [Threads -> Seq(FrameType)],
         \A u \in Threads :
           /\ th[u] \in {"run", "collecting", "allocating"} => Len(frames'[u]) > 0
           /\ th[u] # "run" => pos'[u] = pos[u]
  PROVE  TypeOK' /\ Control'
<1> USE DEF heapVars, gcVars
<1>1. HeapType' /\ CollectorType'
  BY DEF TypeOK, HeapType, CollectorType
<1>2. ThreadType'
  BY DEF TypeOK, ThreadType
<1>3. Control'
  BY DEF Control
<1> QED BY <1>1, <1>2, <1>3 DEF TypeOK

(* Instructions that move a word between the operand stack, a variable and  *)
(* class memory.                                                           *)
LEMMA MoveTyped ==
  ASSUME TypeOK, Control, NEW t \in Threads,
         \/ LoadInt(t) \/ Pop(t) \/ Reload(t) \/ Spill(t)
         \/ \E l \in Locals : LoadLocal(t, l) \/ StoreLocal(t, l)
         \/ \E s \in Statics : LoadStatic(t, s) \/ StoreStatic(t, s)
  PROVE  TypeOK' /\ Control'
<1> USE DEF TypeOK, ThreadType
<1>0. ASSUME Running(t) PROVE Len(frames[t]) > 0 /\ th[t] = "run"
  BY <1>0 DEF Running, Control
<1>1. CASE LoadInt(t)
  <2>1. PICK n \in Ints : Push(t, Entry(n, FALSE))
    BY <1>1 DEF LoadInt
  <2>2. Entry(n, FALSE) \in Entries
    BY MemoryAssumption DEF Entry, Entries, Val
  <2>3. Running(t) /\ pos[t] < MaxOp /\ UNCHANGED <<heapVars, static, th, frames, block, holder, gcVars>>
    BY <1>1 DEF LoadInt
  <2>4. op' \in [Threads -> [0..MaxOp -> Entries]] /\ pos' \in [Threads -> 0..MaxOp]
    BY <2>1, <2>2, <2>3, PushTyped
  <2> QED BY <1>0, <2>1, <2>3, <2>4, LocalStep DEF Push, Control, HeapType
<1>2. CASE Pop(t)
  <2>1. pos' \in [Threads -> 0..MaxOp]
    BY <1>2, MemoryAssumption DEF Pop
  <2> QED BY <1>0, <1>2, <2>1, LocalStep DEF Pop, Control, HeapType
<1>3. CASE Reload(t)
  <2>1. CurrentFrame(t).tmp \in Entries
    BY <1>0, <1>3, CurrentTyped DEF Reload, FrameType
  <2>2. op' \in [Threads -> [0..MaxOp -> Entries]] /\ pos' \in [Threads -> 0..MaxOp]
    BY <1>3, <2>1, PushTyped DEF Reload
  <2> QED BY <1>0, <1>3, <2>2, LocalStep DEF Reload, Push, Control, HeapType
<1>4. CASE Spill(t)
  <2>1. Top(t) \in Entries /\ Len(frames[t]) > 0 /\ CurrentFrame(t) \in FrameType
    BY <1>0, <1>4, TopTyped, CurrentTyped DEF Spill
  <2> DEFINE f == [CurrentFrame(t) EXCEPT !.tmp = Top(t)]
  <2>2. f \in FrameType
    BY <2>1 DEF FrameType
  <2>3. frames' = [frames EXCEPT ![t] = [@ EXCEPT ![Len(frames[t])] = f]]
    BY <1>4 DEF Spill, CurrentFrame
  <2>4. /\ frames' \in [Threads -> Seq(FrameType)]
        /\ \A u \in Threads : Len(frames'[u]) = Len(frames[u])
    BY <2>1, <2>2, <2>3, CurrentTyped, FrameReplaced
  <2>5. pos' \in [Threads -> 0..MaxOp]
    BY <1>4, MemoryAssumption DEF Spill
  <2> QED BY <1>0, <1>4, <2>4, <2>5, LocalStep DEF Spill, Control, HeapType
<1>5. ASSUME NEW l \in Locals, LoadLocal(t, l) PROVE TypeOK' /\ Control'
  <2>1. Entry(CurrentFrame(t).mem[l], TRUE) \in Entries
    BY <1>0, <1>5, CurrentTyped DEF LoadLocal, FrameType, Entry, Entries
  <2>2. op' \in [Threads -> [0..MaxOp -> Entries]] /\ pos' \in [Threads -> 0..MaxOp]
    BY <1>5, <2>1, PushTyped DEF LoadLocal
  <2> QED BY <1>0, <1>5, <2>2, LocalStep DEF LoadLocal, Push, Control, HeapType
<1>6. ASSUME NEW l \in Locals, StoreLocal(t, l) PROVE TypeOK' /\ Control'
  <2>1. Top(t) \in Entries /\ Len(frames[t]) > 0 /\ CurrentFrame(t) \in FrameType
    BY <1>0, <1>6, TopTyped, CurrentTyped DEF StoreLocal
  <2> DEFINE f == [CurrentFrame(t) EXCEPT !.mem[l] = Top(t).v]
  <2>2. f \in FrameType
    BY <2>1 DEF FrameType, Entries
  <2>3. frames' = [frames EXCEPT ![t] = [@ EXCEPT ![Len(frames[t])] = f]]
    BY <1>6 DEF StoreLocal, SetLocal, CurrentFrame
  <2>4. /\ frames' \in [Threads -> Seq(FrameType)]
        /\ \A u \in Threads : Len(frames'[u]) = Len(frames[u])
    BY <2>1, <2>2, <2>3, CurrentTyped, FrameReplaced
  <2>5. pos' \in [Threads -> 0..MaxOp]
    BY <1>6, MemoryAssumption DEF StoreLocal
  <2> QED BY <1>0, <1>6, <2>4, <2>5, LocalStep DEF StoreLocal, Control, HeapType
<1>7. ASSUME NEW s \in Statics, LoadStatic(t, s) PROVE TypeOK' /\ Control'
  <2>1. Entry(static[s], TRUE) \in Entries
    BY DEF HeapType, Entry, Entries
  <2>2. op' \in [Threads -> [0..MaxOp -> Entries]] /\ pos' \in [Threads -> 0..MaxOp]
    BY <1>7, <2>1, PushTyped DEF LoadStatic
  <2> QED BY <1>0, <1>7, <2>2, LocalStep DEF LoadStatic, Push, Control, HeapType
<1>8. ASSUME NEW s \in Statics, StoreStatic(t, s) PROVE TypeOK' /\ Control'
  <2>1. Top(t) \in Entries
    BY <1>8, TopTyped DEF StoreStatic
  <2>2. static' \in [Statics -> Val] /\ pos' \in [Threads -> 0..MaxOp]
    BY <1>8, <2>1, MemoryAssumption DEF StoreStatic, HeapType, Entries
  <2> QED BY <1>0, <1>8, <2>2, LocalStep DEF StoreStatic, Control
<1> QED BY <1>1, <1>2, <1>3, <1>4, <1>5, <1>6, <1>7, <1>8

(* Instructions that read and write an instance or an array. *)
LEMMA FieldTyped ==
  ASSUME TypeOK, Control, NEW t \in Threads, NEW f \in Fields,
         LoadField(t, f) \/ StoreField(t, f)
  PROVE  TypeOK' /\ Control'
<1> USE DEF TypeOK, ThreadType
<1>1. CASE LoadField(t, f)
  <2>1. Top(t) \in Entries /\ Top(t).v \in Addr
    BY <1>1, TopTyped DEF LoadField, Entries, Val
  <2>2. Entry(refs[Top(t).v][f], kind[Top(t).v] # "intary") \in Entries
    BY <2>1 DEF HeapType, Entry, Entries
  <2>3. op' \in [Threads -> [0..MaxOp -> Entries]]
    BY <1>1, <2>2 DEF LoadField
  <2> QED BY <1>1, <2>3, LocalStep DEF LoadField, Control, HeapType
<1>2. CASE StoreField(t, f)
  <2>0. pos[t] - 2 \in 0..MaxOp
    BY <1>2, MemoryAssumption DEF StoreField
  <2>1. op[t][pos[t] - 2] \in Entries
    <3>1. op[t] \in [0..MaxOp -> Entries]
      OBVIOUS
    <3>2. \A i \in 0..MaxOp : op[t][i] \in Entries
      BY <3>1
    <3> QED BY <2>0, <3>2
  <2>2. refs' \in [Addr -> [Fields -> Val]]
    BY <1>2, <2>1 DEF StoreField, HeapType, Entries
  <2>3. pos' \in [Threads -> 0..MaxOp]
    BY <1>2, MemoryAssumption DEF StoreField
  <2>4. HeapType' /\ CollectorType'
    BY <1>2, <2>2 DEF StoreField, HeapType, CollectorType, gcVars
  <2>5. ThreadType'
    BY <1>2, <2>3 DEF StoreField
  <2>6. Control'
    BY <1>2 DEF StoreField, Control, gcVars, Running
  <2> QED BY <2>4, <2>5, <2>6
<1> QED BY <1>1, <1>2

(* Calls and returns *)
LEMMA CallTyped ==
  ASSUME TypeOK, Control, NEW t \in Threads,
         (\E isJit \in BOOLEAN : Call(t, isJit)) \/ Return(t)
  PROVE  TypeOK' /\ Control'
<1> USE DEF TypeOK, ThreadType
<1>0. frames[t] \in Seq(FrameType) /\ Len(frames[t]) \in Nat
  BY LenProperties
<1>1. ASSUME NEW isJit \in BOOLEAN, Call(t, isJit) PROVE TypeOK' /\ Control'
  <2>1. Top(t).v \in Val
    BY <1>1, TopTyped DEF Call, Entries
  <2>2. NewFrame(Top(t).v, isJit) \in FrameType
    BY <2>1, NewFrameTyped
  <2> DEFINE stack == Append(frames[t], NewFrame(Top(t).v, isJit))
  <2>3. stack \in Seq(FrameType) /\ Len(stack) = Len(frames[t]) + 1
    BY <1>0, <2>2, AppendProperties
  <2>4. frames' = [frames EXCEPT ![t] = stack]
    BY <1>1 DEF Call
  <2> HIDE DEF stack
  <2>5. /\ frames' \in [Threads -> Seq(FrameType)]
        /\ \A u \in Threads : Len(frames'[u]) > 0 \/ frames'[u] = frames[u]
    BY <1>0, <2>3, <2>4
  <2>6. pos' \in [Threads -> 0..MaxOp]
    BY <1>1, MemoryAssumption DEF Call
  <2> QED BY <1>1, <2>5, <2>6, LocalStep DEF Call, Control, HeapType, Running
<1>2. CASE Return(t)
  <2> DEFINE stack == SubSeq(frames[t], 1, Len(frames[t]) - 1)
  <2>0. Len(frames[t]) > 1
    BY <1>0, <1>2 DEF Return
  <2>1. stack \in Seq(FrameType) /\ Len(stack) = Len(frames[t]) - 1
    BY <1>0, <2>0, SubSeqProperties
  <2>2. frames' = [frames EXCEPT ![t] = stack]
    BY <1>2 DEF Return
  <2> HIDE DEF stack
  <2>3. /\ frames' \in [Threads -> Seq(FrameType)]
        /\ \A u \in Threads : Len(frames'[u]) > 0 \/ frames'[u] = frames[u]
    BY <1>0, <2>0, <2>1, <2>2
  <2> QED BY <1>2, <2>3, LocalStep DEF Return, Control, HeapType
<1> QED BY <1>1, <1>2

-----------------------------------------------------------------------------
(* Threads of the program *)

LEMMA ThreadsTyped ==
  ASSUME TypeOK, Control, NEW u \in Threads,
         \/ \E t \in Threads : ProcessAsyncMethodCall(t, u)
         \/ AsyncMethodCall(u) \/ ExitThread(u)
  PROVE  TypeOK' /\ Control'
<1> USE DEF TypeOK, ThreadType
<1>1. ASSUME NEW t \in Threads, ProcessAsyncMethodCall(t, u) PROVE TypeOK' /\ Control'
  <2>1. CurrentFrame(t) \in FrameType /\ Len(frames[t]) > 0
    BY <1>1, CurrentTyped DEF ProcessAsyncMethodCall, Running, Control
  <2>2. CurrentFrame(t).mem[Self] \in Val /\ CurrentFrame(t).mem[Param] \in Val
    BY <2>1, MemoryAssumption DEF FrameType
  <2>3. /\ holder' \in [Threads -> [self : Val, param : Val]]
        /\ th' = [th EXCEPT ![u] = "starting"]
        /\ th[u] = "new"
        /\ UNCHANGED <<heapVars, static, op, pos, frames, block, gcVars>>
    BY <1>1, <2>2 DEF ProcessAsyncMethodCall
  <2>4. HeapType' /\ CollectorType'
    BY <2>3 DEF HeapType, CollectorType, heapVars, gcVars
  <2>5. ThreadType'
    BY <2>3
  <2>6. Control'
    BY <2>3 DEF Control, gcVars
  <2> QED BY <2>4, <2>5, <2>6
<1>2. CASE AsyncMethodCall(u)
  <2> DEFINE frame == NewFrame(holder[u].self, FALSE)
  <2>1. holder[u].self \in Val /\ holder[u].param \in Val
    OBVIOUS
  <2>2. <<frame>> \in Seq(FrameType) /\ Len(<<frame>>) = 1
    BY <2>1, NewFrameTyped, PairTyped
  <2>3. /\ th[u] = "starting"
        /\ th' = [th EXCEPT ![u] = "run"]
        /\ frames' = [frames EXCEPT ![u] = <<frame>>]
        /\ op' = [op EXCEPT ![u][0] = Entry(holder[u].param, TRUE)]
        /\ pos' = [pos EXCEPT ![u] = 1]
        /\ UNCHANGED <<heapVars, static, block, holder, gcVars>>
    BY <1>2 DEF AsyncMethodCall
  <2> HIDE DEF frame
  <2>4. HeapType' /\ CollectorType'
    BY <2>3 DEF HeapType, CollectorType, heapVars, gcVars
  <2>5. Entry(holder[u].param, TRUE) \in Entries
    BY <2>1 DEF Entry, Entries
  <2>6. frames' \in [Threads -> Seq(FrameType)]
    BY <2>2, <2>3
  <2>7. ThreadType'
    <3>1. op' \in [Threads -> [0..MaxOp -> Entries]]
      BY <2>3, <2>5
    <3>2. pos' \in [Threads -> 0..MaxOp]
      BY <2>3, MemoryAssumption
    <3>3. th' \in [Threads -> {"new", "starting", "run", "collecting", "allocating", "done"}]
      BY <2>3
    <3> QED BY <2>3, <2>6, <3>1, <3>2, <3>3
  <2>8. Control'
    BY <2>2, <2>3 DEF Control, gcVars
  <2> QED BY <2>4, <2>7, <2>8
<1>3. CASE ExitThread(u)
  <2>1. /\ th[u] = "run"
        /\ th' = [th EXCEPT ![u] = "done"]
        /\ frames' = [frames EXCEPT ![u] = << >>]
        /\ pos' = [pos EXCEPT ![u] = 0]
        /\ UNCHANGED <<heapVars, static, op, block, holder, gcVars>>
    BY <1>3 DEF ExitThread, Running
  <2>2. << >> \in Seq(FrameType)
    OBVIOUS
  <2>3. HeapType' /\ CollectorType'
    BY <2>1 DEF HeapType, CollectorType, heapVars, gcVars
  <2>4. ThreadType'
    BY <2>1, <2>2, MemoryAssumption
  <2>5. Control'
    BY <2>1 DEF Control, gcVars
  <2> QED BY <2>3, <2>4, <2>5
<1> QED BY <1>1, <1>2, <1>3

-----------------------------------------------------------------------------
(* Allocation *)

LEMMA AllocationTyped ==
  ASSUME TypeOK, Control, NEW t \in Threads,
         (\E k \in Kinds : New(t, k)) \/ Allocate(t)
  PROVE  TypeOK' /\ Control'
<1> USE DEF TypeOK, ThreadType, gcVars, heapVars
<1>1. ASSUME NEW k \in Kinds, New(t, k) PROVE TypeOK' /\ Control'
  <2>1. /\ th[t] = "run" /\ pos[t] < MaxOp
        /\ block' = [block EXCEPT ![t] = [a |-> Null, kind |-> k]]
        /\ \/ th' = [th EXCEPT ![t] = "allocating"] /\ UNCHANGED <<gc, owner>>
           \/ /\ gc' = "sort" /\ owner' = t
              /\ th' = [th EXCEPT ![t] = "collecting"]
              /\ owner = "free"
        /\ UNCHANGED <<heapVars, static, op, pos, frames, holder, flagged, marked, mst,
                       work, cur, allocated_mutex, marked_mutex>>
    BY <1>1 DEF New, Running, TryLock
  <2>2. [a |-> Null, kind |-> k] \in [a : Val, kind : BlockKinds]
    BY MemoryAssumption DEF Val
  <2>3. HeapType'
    BY <2>1 DEF HeapType
  <2>4. CollectorType'
    BY <2>1 DEF CollectorType
  <2>5. ThreadType'
    BY <2>1, <2>2
  <2>6. Control'
    BY <2>1, MemoryAssumption DEF Control
  <2> QED BY <2>3, <2>4, <2>5, <2>6
<1>2. CASE GetBlock(t)
  <2>1. PICK a \in Addr \ (allocated \cup InFlight) :
          /\ block' = [block EXCEPT ![t].a = a]
          /\ kind' = [kind EXCEPT ![a] = block[t].kind]
          /\ refs' = [refs EXCEPT ![a] = [f \in Fields |-> Null]]
          /\ flagged' \in {flagged, flagged \ {a}}
    BY <1>2 DEF GetBlock
  <2>2. /\ th[t] = "allocating"
        /\ UNCHANGED <<allocated, unsorted, static, th, op, pos, frames, holder, gc,
                       owner, marked, mst, work, cur, allocated_mutex, marked_mutex>>
    BY <1>2 DEF GetBlock
  <2>3. HeapType'
    BY <2>1, <2>2 DEF HeapType, Val
  <2>4. CollectorType'
    BY <2>1, <2>2 DEF CollectorType
  <2>5. ThreadType'
    BY <2>1, <2>2 DEF Val
  <2>6. Control'
    BY <2>1, <2>2 DEF Control
  <2> QED BY <2>3, <2>4, <2>5, <2>6
<1>3. CASE Record(t)
  <2>1. /\ th[t] = "allocating" /\ block[t].a # Null
        /\ allocated' = allocated \cup {block[t].a}
        /\ unsorted' = unsorted \cup {block[t].a}
        /\ Push(t, Entry(block[t].a, TRUE))
        /\ block' = [block EXCEPT ![t] = NoBlock]
        /\ th' = [th EXCEPT ![t] = "run"]
        /\ UNCHANGED <<kind, refs, static, frames, holder, gcVars>>
    BY <1>3 DEF Record
  <2>2. Entry(block[t].a, TRUE) \in Entries /\ pos[t] < MaxOp
    BY <2>1 DEF Entry, Entries, Control
  <2>3. op' \in [Threads -> [0..MaxOp -> Entries]] /\ pos' \in [Threads -> 0..MaxOp]
    BY <2>1, <2>2, PushTyped
  <2>4. HeapType'
    BY <2>1 DEF HeapType, Val
  <2>5. CollectorType'
    BY <2>1 DEF CollectorType
  <2>6. ThreadType'
    BY <2>1, <2>3 DEF NoBlock, Val, BlockKinds
  <2>7. Control'
    BY <2>1 DEF Control, Push
  <2> QED BY <2>4, <2>5, <2>6, <2>7
<1>4. CASE JoinCollector(t)
  <2>1. HeapType'
    BY <1>4 DEF JoinCollector, HeapType
  <2>2. CollectorType'
    BY <1>4 DEF JoinCollector, CollectorType
  <2>3. ThreadType'
    BY <1>4 DEF JoinCollector
  <2> QED BY <1>4, <2>1, <2>2, <2>3 DEF JoinCollector, Control
<1> QED BY <1>1, <1>2, <1>3, <1>4 DEF Allocate

-----------------------------------------------------------------------------
(* Collection *)

(* The words read from declared variables, and from a row of words.         *)
LEMMA VariableWords ==
  ASSUME NEW X \in SUBSET (Statics \cup Locals \cup Fields), NEW mem \in [X -> Val]
  PROVE  Variables(mem) \subseteq Words
<1>1. \A v \in X : Decl[v] \in ParmTypes
  BY MemoryAssumption
<1>2. \A v \in NotNull(mem) : mem[v] \in Addr /\ v \in X
  BY DEF NotNull, Val
<1> QED BY <1>1, <1>2 DEF Variables, Words

LEMMA ElementWords ==
  ASSUME NEW X, NEW mem \in [X -> Val], NEW how \in ParmTypes \cup {"raw"}
  PROVE  Elements(mem, how) \subseteq Words
<1>1. \A v \in NotNull(mem) : mem[v] \in Addr
  BY DEF NotNull, Val
<1> QED BY <1>1 DEF Elements, Words

(* The mark threads start with words. *)
LEMMA RootsTyped ==
  ASSUME TypeOK, NEW m \in Markers, owner \in Threads
  PROVE  Roots(m) \subseteq Words
<1> USE DEF TypeOK, ThreadType
<1>1. Variables(static) \subseteq Words
  BY VariableWords DEF HeapType
<1>2. ASSUME NEW t \in Threads, NEW i \in DOMAIN frames[t]
      PROVE  /\ Variables(frames[t][i].mem) \subseteq Words
             /\ Elements([v \in {"tmp"} |-> frames[t][i].tmp.v], "raw") \subseteq Words
  <2>1. frames[t] \in Seq(FrameType)
    OBVIOUS
  <2>2. DOMAIN frames[t] = 1..Len(frames[t])
    BY <2>1, LenProperties
  <2>3. frames[t][i] \in FrameType
    BY <1>2, <2>1, <2>2, ElementOfSeq
  <2>4. frames[t][i].mem \in [Locals -> Val] /\ frames[t][i].tmp.v \in Val
    BY <2>3 DEF FrameType, Entries
  <2>5. Variables(frames[t][i].mem) \subseteq Words
    BY <2>4, VariableWords
  <2>6. [v \in {"tmp"} |-> frames[t][i].tmp.v] \in [{"tmp"} -> Val]
    BY <2>4
  <2> QED BY <2>5, <2>6, ElementWords
<1>3. StackWords(owner) \subseteq Words
  <2>1. op[owner] \in [0..MaxOp -> Entries] /\ pos[owner] \in 0..MaxOp
    OBVIOUS
  <2>2. \A i \in 0..pos[owner] : op[owner][i].v \in Val
    BY <2>1, MemoryAssumption DEF Entries
  <2>3. [i \in 0..pos[owner] |-> op[owner][i].v] \in [0..pos[owner] -> Val]
    BY <2>2
  <2> QED BY <2>3, ElementWords DEF StackWords
<1>4. ASSUME NEW t \in Threads PROVE FrameWords(t, PdaFrames(t)) \subseteq Words
  BY <1>2 DEF FrameWords, PdaFrames
<1>5. ASSUME NEW t \in Threads
      PROVE  FrameWords(t, JitFrames(t)) \subseteq Words /\ TempWords(t) \subseteq Words
  <2> DEFINE temp(i) == Elements([v \in {"tmp"} |-> frames[t][i].tmp.v], "raw")
  <2>1. \A i \in JitFrames(t) : Variables(frames[t][i].mem) \subseteq Words /\ temp(i) \subseteq Words
    BY <1>2 DEF JitFrames
  <2>2. TempWords(t) = UNION {temp(i) : i \in JitFrames(t)}
    BY DEF TempWords
  <2> HIDE DEF temp
  <2>3. TempWords(t) \subseteq Words
    BY <2>1, <2>2
  <2> QED BY <2>1, <2>3 DEF FrameWords
<1>6. CASE m = "static"
  BY <1>1, <1>6 DEF Roots
<1>7. CASE m = "stack"
  BY <1>3, <1>7 DEF Roots
<1>8. CASE m = "pda"
  BY <1>4, <1>8 DEF Roots
<1>9. CASE m = "jit"
  BY <1>5, <1>9 DEF Roots
<1> QED BY <1>6, <1>7, <1>8, <1>9 DEF Markers

(* A newly marked block adds words. *)
LEMMA ContentsTyped ==
  ASSUME HeapType, NEW w \in Words
  PROVE  /\ Contents(w) \subseteq Words
         /\ Elements(refs[w.a], "raw") \subseteq Words
<1>1. refs[w.a] \in [Fields -> Val]
  BY DEF HeapType, Words
<1>2. Variables(refs[w.a]) \subseteq Words
  BY <1>1, VariableWords
<1>3. \A how \in ParmTypes \cup {"raw"} : Elements(refs[w.a], how) \subseteq Words
  BY <1>1, ElementWords
<1>4. Elements(refs[w.a], "raw") \subseteq Words /\ Elements(refs[w.a], "OBJ_PARM") \subseteq Words
  BY <1>3 DEF ParmTypes
<1> QED BY <1>2, <1>4 DEF Contents

(* A step of a mark thread leaves the heap and the program alone. *)
LEMMA MarkerTyped ==
  ASSUME TypeOK, Control, NEW m \in Markers, Marker(m)
  PROVE  TypeOK' /\ Control'
<1> USE DEF TypeOK
<1>0. UNCHANGED <<heapVars, static, threadVars, gc, owner, marked_mutex>>
  BY DEF Marker, ReadRoots, VisitMemory, VisitValidMemory, Mark, MarkDone
<1>1. HeapType' /\ ThreadType'
  BY <1>0 DEF HeapType, ThreadType, heapVars, threadVars
<1>2. SUFFICES CollectorType' /\ Control'
  BY <1>1
<1>3. ASSUME mst' \in [Markers -> {"off", "ready", "scan", "mark", "markvalid"}],
             \A n \in Markers : mst'[n] \in {"mark", "markvalid"} => cur'[n] \in Words,
             \A n \in Markers : mst'[n] # "off" => mst[n] # "off"
      PROVE  Control'
  BY <1>0, <1>3 DEF Control, threadVars
<1>4. CASE ReadRoots(m)
  <2>1. Roots(m) \subseteq Words
    BY <1>4, RootsTyped DEF ReadRoots, Control, CollectorType
  <2>2. CollectorType'
    BY <1>0, <1>4, <2>1 DEF ReadRoots, CollectorType
  <2> QED BY <1>3, <1>4, <2>2 DEF ReadRoots, CollectorType, Control
<1>5. ASSUME mst[m] = "scan", NEW w \in work[m], NEW stage \in {"mark", "markvalid"},
             TestFlag(m, w, stage) \/ UNCHANGED <<mst, cur>>,
             work' = [work EXCEPT ![m] = @ \ {w}],
             UNCHANGED <<flagged, marked>>,
             allocated_mutex' \in Markers \cup {"free", "gc"}
      PROVE  CollectorType' /\ Control'
  <2>1. w \in Words
    BY DEF CollectorType
  <2>2. CollectorType'
    BY <1>0, <1>5, <2>1 DEF TestFlag, CollectorType
  <2> QED BY <1>3, <1>5, <2>1, <2>2 DEF TestFlag, CollectorType, Control
<1>6. CASE VisitMemory(m)
  <2>1. PICK w \in work[m] :
          TestFlag(m, w, "mark") /\ work' = [work EXCEPT ![m] = @ \ {w}]
    BY <1>6 DEF VisitMemory
  <2>2. /\ mst[m] = "scan" /\ UNCHANGED <<flagged, marked>>
        /\ allocated_mutex' \in Markers \cup {"free", "gc"}
    BY <1>6 DEF VisitMemory, CollectorType
  <2> QED BY <1>5, <2>1, <2>2
<1>7. CASE VisitValidMemory(m)
  <2>1. PICK w \in work[m] :
          /\ \E found \in Search(w.a) :
               IF found THEN TestFlag(m, w, "markvalid") ELSE UNCHANGED <<mst, cur>>
          /\ allocated_mutex' = IF mst'[m] = "markvalid" THEN m ELSE "free"
          /\ work' = [work EXCEPT ![m] = @ \ {w}]
    BY <1>7 DEF VisitValidMemory
  <2>2. TestFlag(m, w, "markvalid") \/ UNCHANGED <<mst, cur>>
    BY <2>1
  <2>3. /\ mst[m] = "scan" /\ UNCHANGED <<flagged, marked>>
        /\ allocated_mutex' \in Markers \cup {"free", "gc"}
    BY <1>7, <2>1 DEF VisitValidMemory
  <2> QED BY <1>5, <2>1, <2>2, <2>3
<1>8. CASE Mark(m)
  <2>1. cur[m] \in Words
    BY <1>8 DEF Mark, Control
  <2>2. Contents(cur[m]) \subseteq Words /\ Elements(refs[cur[m].a], "raw") \subseteq Words
    BY <2>1, ContentsTyped
  <2>3. \A S \in Scans(m) : S \subseteq Words
    BY <2>2 DEF Scans
  <2>4. work' \in [Markers -> SUBSET Words]
    BY <1>8, <2>3 DEF Mark, CollectorType
  <2>5. flagged' \in SUBSET Addr /\ marked' \in SUBSET Addr
    BY <1>8, <2>1 DEF Mark, CollectorType, Words
  <2>6. /\ mst[m] # "off" /\ mst' = [mst EXCEPT ![m] = "scan"]
        /\ cur' = [cur EXCEPT ![m] = NoWord]
        /\ allocated_mutex' = IF mst[m] = "markvalid" THEN "free" ELSE allocated_mutex
    BY <1>8 DEF Mark
  <2>7. CollectorType'
    BY <1>0, <2>4, <2>5, <2>6 DEF CollectorType
  <2> QED BY <1>3, <2>6, <2>7 DEF CollectorType, Control
<1>9. CASE MarkDone(m)
  <2>1. CollectorType'
    BY <1>0, <1>9 DEF MarkDone, CollectorType
  <2> QED BY <1>3, <1>9, <2>1 DEF MarkDone, CollectorType, Control
<1> QED BY <1>4, <1>6, <1>7, <1>8, <1>9 DEF Marker

LEMMA CollectorTyped ==
  ASSUME TypeOK, Control, Collector
  PROVE  TypeOK' /\ Control'
<1> USE DEF TypeOK
<1>0. UNCHANGED <<static, threadVars, owner>>
  BY DEF Collector, Sort, JoinMarkers, LockAllocated, Sweep
<1>1. ThreadType'
  BY <1>0 DEF ThreadType, threadVars
<1>2. CASE Sort
  <2>1. HeapType'
    BY <1>0, <1>2 DEF Sort, HeapType
  <2>2. CollectorType'
    BY <1>0, <1>2 DEF Sort, CollectorType
  <2>3. Control'
    BY <1>0, <1>2 DEF Sort, Control, threadVars
  <2> QED BY <1>1, <2>1, <2>2, <2>3
<1>3. CASE JoinMarkers \/ LockAllocated
  <2>1. HeapType'
    BY <1>0, <1>3 DEF JoinMarkers, LockAllocated, HeapType, heapVars
  <2>2. CollectorType'
    BY <1>0, <1>3 DEF JoinMarkers, LockAllocated, CollectorType
  <2>3. Control'
    BY <1>0, <1>3 DEF JoinMarkers, LockAllocated, Control, threadVars, AllJoined
  <2> QED BY <1>1, <2>1, <2>2, <2>3
<1>4. CASE Sweep
  <2>1. HeapType'
    BY <1>0, <1>4 DEF Sweep, HeapType, Val
  <2>2. CollectorType'
    BY <1>0, <1>4 DEF Sweep, CollectorType, SweptFlags, SweptMarks
  <2>3. Control'
    BY <1>0, <1>4 DEF Sweep, Control, threadVars
  <2> QED BY <1>1, <2>1, <2>2, <2>3
<1> QED BY <1>2, <1>3, <1>4 DEF Collector

-----------------------------------------------------------------------------
LEMMA StepTyped ==
  ASSUME TypeOK, Control, [Next]_vars
  PROVE  TypeOK' /\ Control'
<1>1. ASSUME NEW t \in Threads, Instruction(t) PROVE TypeOK' /\ Control'
  BY <1>1, MoveTyped, FieldTyped, CallTyped, ThreadsTyped, AllocationTyped DEF Instruction
<1>2. ASSUME NEW t \in Threads, Allocate(t) PROVE TypeOK' /\ Control'
  BY <1>2, AllocationTyped
<1>3. ASSUME NEW t \in Threads, AsyncMethodCall(t) PROVE TypeOK' /\ Control'
  BY <1>3, ThreadsTyped
<1>4. CASE UNCHANGED vars
  <2> USE <1>4 DEF vars, heapVars, threadVars, gcVars
  <2>1. HeapType' /\ ThreadType' /\ CollectorType'
    BY DEF TypeOK, HeapType, ThreadType, CollectorType
  <2> QED BY <2>1 DEF TypeOK, Control
<1> QED BY <1>1, <1>2, <1>3, <1>4, CollectorTyped, MarkerTyped DEF Next

LEMMA Typed == Spec => [](TypeOK /\ Control)
<1>1. Init => TypeOK /\ Control
  BY InitTyped
<1>2. TypeOK /\ Control /\ [Next]_vars => (TypeOK /\ Control)'
  BY StepTyped
<1> QED BY <1>1, <1>2, PTL DEF Spec

(* The types the other proofs of this module rest on, and that a mark thread *)
(* never visits a null word, however many threads, blocks and variables     *)
(* there are.                                                              *)
LEMMA TypeCorrect == Spec => []TypeOK
BY Typed, PTL

(* marked_sweep_mutex lets one thread at a time collect, however many       *)
(* allocate (CollectMemory's try-lock, released after the join).           *)
THEOREM CollectorsExcluded == Spec => []OneCollector
<1>1. Control => OneCollector
  BY DEF Control, OneCollector
<1> QED BY <1>1, Typed, PTL

-----------------------------------------------------------------------------
(* The two mutexes *)

LEMMA InitLocks == ASSUME Init PROVE Locks
BY DEF Init, Locks, Markers

LEMMA StepLocks ==
  ASSUME TypeOK, Control, Locks, [Next]_vars
  PROVE  Locks'
<1> USE DEF Locks
<1>1. ASSUME UNCHANGED <<mst, gc, allocated_mutex, marked_mutex>> PROVE Locks'
  BY <1>1
<1>2. ASSUME NEW t \in Threads, Instruction(t) PROVE Locks'
  <2>1. CASE \E k \in Kinds : New(t, k)
    <3>1. UNCHANGED <<mst, allocated_mutex, marked_mutex>> /\ (gc' = gc \/ owner = "free")
      BY <2>1 DEF New, TryLock
    <3>2. owner = "free" => gc = "idle"
      BY MemoryAssumption DEF Control
    <3> QED BY <3>1, <3>2
  <2>2. CASE ~ \E k \in Kinds : New(t, k)
    BY <1>1, <1>2, <2>2 DEF Instruction, LoadInt, Pop, Spill, Reload, Return, ExitThread,
       LoadLocal, StoreLocal, LoadStatic, StoreStatic, LoadField, StoreField, Call,
       ProcessAsyncMethodCall, gcVars
  <2> QED BY <2>1, <2>2
<1>3. ASSUME NEW t \in Threads, Allocate(t) \/ AsyncMethodCall(t) PROVE Locks'
  BY <1>3 DEF Allocate, GetBlock, Record, JoinCollector, AsyncMethodCall, gcVars
<1>4. CASE Collector
  <2>1. CASE Sort
    BY <2>1 DEF Sort, Markers
  <2>2. CASE JoinMarkers \/ LockAllocated
    BY <2>2 DEF JoinMarkers, LockAllocated, Markers
  <2>3. CASE Sweep
    BY <2>3 DEF Sweep, Markers
  <2> QED BY <1>4, <2>1, <2>2, <2>3 DEF Collector
<1>5. ASSUME NEW m \in Markers, Marker(m) PROVE Locks'
  <2>1. UNCHANGED <<gc, marked_mutex>>
    BY <1>5 DEF Marker, ReadRoots, VisitMemory, VisitValidMemory, Mark, MarkDone
  <2> SUFFICES ASSUME NEW n \in Markers, allocated_mutex' = n PROVE mst'[n] = "markvalid"
    BY <2>1
  <2>2. CASE ReadRoots(m) \/ MarkDone(m)
    BY <2>2 DEF ReadRoots, MarkDone, TypeOK, CollectorType
  <2>3. CASE VisitMemory(m)
    BY <2>3 DEF VisitMemory, TestFlag, TypeOK, CollectorType
  <2>4. CASE VisitValidMemory(m)
    BY <2>4 DEF VisitValidMemory, Markers
  <2>5. CASE Mark(m)
    BY <2>5 DEF Mark, TypeOK, CollectorType, Markers
  <2> QED BY <1>5, <2>2, <2>3, <2>4, <2>5 DEF Marker
<1>6. CASE UNCHANGED vars
  BY <1>1, <1>6 DEF vars, gcVars
<1> QED BY <1>2, <1>3, <1>4, <1>5, <1>6 DEF Next

(* The sweep and a mark thread never hold one of the two mutexes each and   *)
(* wait for the other, although they take them in opposite orders: the     *)
(* sweep asks for its first one only when every mark thread has exited.    *)
THEOREM LockOrder == Spec => []NoLockCycle
<1>1. Init => Locks
  BY InitLocks
<1>2. TypeOK /\ Control /\ Locks /\ [Next]_vars => Locks'
  BY StepLocks
<1>3. Control /\ Locks => NoLockCycle
  BY DEF Control, Locks, NoLockCycle
<1> QED BY <1>1, <1>2, <1>3, Typed, PTL DEF Spec

-----------------------------------------------------------------------------
(* A program of one thread: what is in use is never taken back *)

LEMMA InitSafe == ASSUME Init, Threads = {Main} PROVE SingleThreaded
<1> USE DEF Init
<1> DEFINE bottom == NewFrame(Null, FALSE)
<1>1. GoodFrame(bottom)
  BY DEF NewFrame, Entry, GoodFrame, GoodEntry, Good
<1>2. frames[Main] = <<bottom, bottom>>
  BY MemoryAssumption
<1> HIDE DEF bottom
<1>3. Len(frames[Main]) = 2 /\ \A i \in 1..2 : frames[Main][i] = bottom
  BY <1>2, PairTyped
<1>4. FramesGood
  BY <1>1, <1>3 DEF FramesGood
<1>5. StaticsGood /\ BlocksTyped
  BY DEF StaticsGood, BlocksTyped, Good
<1>6. StackGood
  BY MemoryAssumption DEF StackGood
<1>7. MainThread
  BY <1>3, MemoryAssumption DEF MainThread, NoBlock
<1>8. Phases /\ Tricolour
  BY DEF Phases, Tricolour
<1> QED BY <1>4, <1>5, <1>6, <1>7, <1>8 DEF SingleThreaded

-----------------------------------------------------------------------------
(* The program *)

(* While the program runs no collection is under way. *)
LEMMA Quiet ==
  ASSUME Threads = {Main}, Control, MainThread, th[Main] # "collecting"
  PROVE  gc = "idle"
BY DEF Control

(* An instruction has only the program's own state to look after. *)
LEMMA InstructionSafe ==
  ASSUME SingleThreaded, gc = "idle", th[Main] = "run",
         UNCHANGED <<kind, allocated, unsorted, th, block, gcVars>>,
         StaticsGood', FramesGood', StackGood', BlocksTyped', Len(frames'[Main]) > 1
  PROVE  SingleThreaded'
<1> USE DEF SingleThreaded, gcVars
<1>1. MainThread'
  BY DEF MainThread
<1>2. Phases'
  BY DEF Phases
<1>3. Tricolour'
  BY DEF Tricolour
<1> QED BY <1>1, <1>2, <1>3

(* Values and entries stay good while blocks and their kinds do. *)
LEMMA GoodKept ==
  ASSUME UNCHANGED <<kind, allocated>>
  PROVE  /\ StaticsGood /\ UNCHANGED static => StaticsGood'
         /\ FramesGood /\ UNCHANGED frames => FramesGood'
         /\ StackGood /\ UNCHANGED <<op, pos>> => StackGood'
         /\ BlocksTyped /\ UNCHANGED refs => BlocksTyped'
BY DEF StaticsGood, FramesGood, StackGood, BlocksTyped, Good, GoodEntry, GoodFrame

(* PushInt of a good entry, and PopInt. *)
LEMMA PushRecorded ==
  ASSUME TypeOK, StackGood, allocated \subseteq allocated', pos[Main] < MaxOp,
         NEW e, e.ref /\ e.v # Null => e.v \in allocated', Push(Main, e)
  PROVE  StackGood'
<1>1. op[Main] \in [0..MaxOp -> Entries] /\ pos[Main] \in 0..MaxOp
  BY MemoryAssumption DEF TypeOK, ThreadType
<1>2. op'[Main] = [op[Main] EXCEPT ![pos[Main]] = e] /\ pos'[Main] = pos[Main] + 1
  BY MemoryAssumption DEF Push, TypeOK, ThreadType
<1>3. SUFFICES ASSUME NEW i \in 0..MaxOp, i < pos[Main] + 1 PROVE GoodEntry(op[Main][i])'
  BY <1>2 DEF StackGood
<1>4. CASE i = pos[Main]
  BY <1>1, <1>2, <1>4 DEF GoodEntry
<1>5. CASE i < pos[Main]
  BY <1>1, <1>2, <1>5 DEF StackGood, GoodEntry
<1> QED BY <1>1, <1>3, <1>4, <1>5, MemoryAssumption

LEMMA PushGood ==
  ASSUME TypeOK, StackGood, UNCHANGED <<kind, allocated>>, pos[Main] < MaxOp,
         NEW e, GoodEntry(e), Push(Main, e)
  PROVE  StackGood'
BY PushRecorded DEF GoodEntry

LEMMA PopGood ==
  ASSUME TypeOK, StackGood, UNCHANGED <<kind, allocated, op>>,
         pos'[Main] \in 0..MaxOp, pos'[Main] <= pos[Main]
  PROVE  StackGood'
<1>1. pos[Main] \in 0..MaxOp
  BY MemoryAssumption DEF TypeOK, ThreadType
<1> QED BY <1>1, MemoryAssumption DEF StackGood, GoodEntry

(* The top of the stack is good, and so is the current frame. *)
LEMMA TopGood ==
  ASSUME TypeOK, StackGood, pos[Main] > 0
  PROVE  GoodEntry(Top(Main)) /\ Top(Main) \in Entries
<1>1. pos[Main] \in 0..MaxOp /\ Main \in Threads
  BY MemoryAssumption DEF TypeOK, ThreadType
<1>2. pos[Main] - 1 \in 0..MaxOp /\ pos[Main] - 1 < pos[Main]
  BY <1>1, MemoryAssumption
<1> QED BY <1>1, <1>2, TopTyped DEF StackGood, Top, TypeOK

LEMMA CurrentGood ==
  ASSUME TypeOK, FramesGood, MainThread
  PROVE  /\ GoodFrame(CurrentFrame(Main)) /\ CurrentFrame(Main) \in FrameType
         /\ Len(frames[Main]) \in 1..Len(frames[Main])
<1>1. Len(frames[Main]) \in Nat /\ Len(frames[Main]) > 1
  BY MemoryAssumption, LenProperties DEF TypeOK, ThreadType, MainThread
<1>2. Len(frames[Main]) \in 1..Len(frames[Main]) /\ CurrentFrame(Main) \in FrameType
  BY <1>1, CurrentTyped, MemoryAssumption DEF TypeOK
<1> QED BY <1>2 DEF FramesGood, CurrentFrame

(* Setting a variable or the temporary of the current frame. *)
LEMMA FrameGoodReplaced ==
  ASSUME TypeOK, FramesGood, MainThread, UNCHANGED <<kind, allocated>>,
         NEW f \in FrameType, GoodFrame(f),
         frames' = [frames EXCEPT ![Main] = [@ EXCEPT ![Len(frames[Main])] = f]]
  PROVE  FramesGood' /\ Len(frames'[Main]) > 1
<1> DEFINE n == Len(frames[Main])
<1>1. frames[Main] \in Seq(FrameType) /\ n \in 1..n
  BY MemoryAssumption, CurrentGood DEF TypeOK, ThreadType
<1>2. /\ Len(frames'[Main]) = n
      /\ \A i \in 1..n : frames'[Main][i] = IF i = n THEN f ELSE frames[Main][i]
  <2>1. frames'[Main] = [frames[Main] EXCEPT ![n] = f]
    BY MemoryAssumption DEF TypeOK, ThreadType
  <2> QED BY <1>1, <2>1, ExceptSeq, LenProperties
<1>3. \A i \in 1..n : GoodFrame(frames'[Main][i])
  BY <1>2 DEF FramesGood
<1> QED BY <1>2, <1>3 DEF FramesGood, GoodFrame, Good, GoodEntry, MainThread

LEMMA MoveSafe ==
  ASSUME TypeOK, Control, SingleThreaded, gc = "idle",
         \/ LoadInt(Main) \/ Pop(Main) \/ Reload(Main) \/ Spill(Main)
         \/ \E l \in Locals : LoadLocal(Main, l) \/ StoreLocal(Main, l)
         \/ \E s \in Statics : LoadStatic(Main, s) \/ StoreStatic(Main, s)
  PROVE  SingleThreaded'
<1> USE DEF SingleThreaded, Running
<1>0. pos[Main] \in 0..MaxOp /\ pos \in [Threads -> 0..MaxOp] /\ Len(frames[Main]) > 1
  BY MemoryAssumption DEF TypeOK, ThreadType, MainThread
<1>1. CASE LoadInt(Main)
  <2>1. PICK n \in Ints : Push(Main, Entry(n, FALSE))
    BY <1>1 DEF LoadInt
  <2>2. GoodEntry(Entry(n, FALSE))
    BY DEF GoodEntry, Entry
  <2>3. StackGood'
    BY <1>1, <2>1, <2>2, PushGood DEF LoadInt, heapVars
  <2> QED BY <1>0, <1>1, <2>3, GoodKept, InstructionSafe DEF LoadInt, heapVars
<1>2. CASE Pop(Main)
  <2>1. pos'[Main] = pos[Main] - 1 /\ UNCHANGED <<kind, allocated, op>> /\ pos[Main] > 0
    BY <1>2, <1>0, MemoryAssumption DEF Pop, heapVars
  <2>2. StackGood'
    BY <1>0, <2>1, PopGood, MemoryAssumption
  <2> QED BY <1>0, <1>2, <2>2, GoodKept, InstructionSafe DEF Pop, heapVars
<1>3. CASE Reload(Main)
  <2>1. GoodEntry(CurrentFrame(Main).tmp)
    BY CurrentGood DEF GoodFrame
  <2>2. StackGood'
    BY <1>3, <2>1, PushGood DEF Reload, heapVars
  <2> QED BY <1>0, <1>3, <2>2, GoodKept, InstructionSafe DEF Reload, heapVars
<1>4. CASE Spill(Main)
  <2> DEFINE f == [CurrentFrame(Main) EXCEPT !.tmp = Top(Main)]
  <2>1. /\ CurrentFrame(Main) \in FrameType /\ GoodFrame(CurrentFrame(Main))
        /\ Top(Main) \in Entries /\ GoodEntry(Top(Main))
    BY <1>4, CurrentGood, TopGood DEF Spill
  <2>2. f \in FrameType /\ f.mem = CurrentFrame(Main).mem /\ f.jit /\ f.tmp = Top(Main)
    BY <1>4, <2>1 DEF FrameType, Spill
  <2>3. GoodFrame(f)
    BY <2>1, <2>2 DEF GoodFrame
  <2>4. frames' = [frames EXCEPT ![Main] = [@ EXCEPT ![Len(frames[Main])] = f]]
    BY <1>4 DEF Spill, CurrentFrame
  <2> HIDE DEF f
  <2>5. UNCHANGED <<kind, refs, allocated, unsorted, static, op>>
    BY <1>4 DEF Spill, heapVars
  <2>6. FramesGood' /\ Len(frames'[Main]) > 1
    BY <2>2, <2>3, <2>4, <2>5, FrameGoodReplaced
  <2>7. StackGood'
    BY <1>0, <1>4, <2>5, PopGood, MemoryAssumption DEF Spill
  <2> QED BY <1>4, <2>5, <2>6, <2>7, GoodKept, InstructionSafe DEF Spill
<1>5. ASSUME NEW l \in Locals, LoadLocal(Main, l) PROVE SingleThreaded'
  <2>1. GoodEntry(Entry(CurrentFrame(Main).mem[l], TRUE))
    BY CurrentGood DEF GoodFrame, Entry, GoodEntry, Good
  <2>2. StackGood'
    BY <1>5, <2>1, PushGood DEF LoadLocal, heapVars
  <2> QED BY <1>0, <1>5, <2>2, GoodKept, InstructionSafe DEF LoadLocal, heapVars
<1>6. ASSUME NEW l \in Locals, StoreLocal(Main, l) PROVE SingleThreaded'
  <2> DEFINE f == [CurrentFrame(Main) EXCEPT !.mem[l] = Top(Main).v]
  <2>1. /\ CurrentFrame(Main) \in FrameType /\ GoodFrame(CurrentFrame(Main))
        /\ Top(Main) \in Entries /\ GoodEntry(Top(Main))
    BY <1>6, CurrentGood, TopGood DEF StoreLocal
  <2>2. Good(Top(Main).v, Decl[l])
    BY <1>6, <2>1 DEF StoreLocal, Good, GoodEntry
  <2>3. /\ f \in FrameType /\ f.tmp = CurrentFrame(Main).tmp /\ f.jit = CurrentFrame(Main).jit
        /\ \A k \in Locals : f.mem[k] = IF k = l THEN Top(Main).v ELSE CurrentFrame(Main).mem[k]
    BY <2>1 DEF FrameType, Entries
  <2>4. GoodFrame(f)
    BY <2>1, <2>2, <2>3 DEF GoodFrame
  <2>5. frames' = [frames EXCEPT ![Main] = [@ EXCEPT ![Len(frames[Main])] = f]]
    BY <1>6 DEF StoreLocal, SetLocal, CurrentFrame
  <2> HIDE DEF f
  <2>6. UNCHANGED <<kind, refs, allocated, unsorted, static, op>>
    BY <1>6 DEF StoreLocal, heapVars
  <2>7. FramesGood' /\ Len(frames'[Main]) > 1
    BY <2>3, <2>4, <2>5, <2>6, FrameGoodReplaced
  <2>8. StackGood'
    BY <1>0, <1>6, <2>6, PopGood, MemoryAssumption DEF StoreLocal
  <2> QED BY <1>6, <2>6, <2>7, <2>8, GoodKept, InstructionSafe DEF StoreLocal
<1>7. ASSUME NEW s \in Statics, LoadStatic(Main, s) PROVE SingleThreaded'
  <2>1. GoodEntry(Entry(static[s], TRUE))
    BY DEF StaticsGood, Entry, GoodEntry, Good
  <2>2. StackGood'
    BY <1>7, <2>1, PushGood DEF LoadStatic, heapVars
  <2> QED BY <1>0, <1>7, <2>2, GoodKept, InstructionSafe DEF LoadStatic, heapVars
<1>8. ASSUME NEW s \in Statics, StoreStatic(Main, s) PROVE SingleThreaded'
  <2>1. GoodEntry(Top(Main)) /\ UNCHANGED <<kind, refs, allocated, unsorted, frames, op>>
    BY <1>8, TopGood DEF StoreStatic, heapVars
  <2>2. Good(Top(Main).v, Decl[s])
    BY <1>8, <2>1 DEF StoreStatic, Good, GoodEntry
  <2>3. StaticsGood'
    BY <1>8, <2>1, <2>2 DEF StoreStatic, StaticsGood, Good, TypeOK, HeapType
  <2>4. StackGood'
    BY <1>0, <1>8, <2>1, PopGood, MemoryAssumption DEF StoreStatic
  <2> QED BY <1>0, <1>8, <2>1, <2>3, <2>4, GoodKept, InstructionSafe DEF StoreStatic
<1> QED BY <1>1, <1>2, <1>3, <1>4, <1>5, <1>6, <1>7, <1>8

LEMMA FieldSafe ==
  ASSUME TypeOK, Control, SingleThreaded, gc = "idle", NEW f \in Fields,
         LoadField(Main, f) \/ StoreField(Main, f)
  PROVE  SingleThreaded'
<1> USE DEF SingleThreaded, Running
<1>0. /\ pos[Main] \in 0..MaxOp /\ pos \in [Threads -> 0..MaxOp] /\ Len(frames[Main]) > 1
      /\ op \in [Threads -> [0..MaxOp -> Entries]] /\ op[Main] \in [0..MaxOp -> Entries]
      /\ Main \in Threads
  BY MemoryAssumption DEF TypeOK, ThreadType, MainThread
<1>1. ASSUME Top(Main).ref, Top(Main).v # Null, pos[Main] > 0 PROVE Top(Main).v \in allocated
  BY <1>1, TopGood DEF GoodEntry
<1>2. CASE LoadField(Main, f)
  <2> DEFINE a == Top(Main).v
             e == Entry(refs[a][f], kind[a] # "intary")
  <2>1. a \in allocated /\ kind[a] \notin {"bytes", "free"} /\ kind[a] \in BlockKinds \cup {"free"}
    BY <1>1, <1>2 DEF LoadField, TypeOK, HeapType
  <2>2. GoodEntry(e)
    BY <2>1 DEF BlocksTyped, BlockKinds, Good, GoodEntry, Entry
  <2>3. op' = [op EXCEPT ![Main][pos[Main] - 1] = e] /\ pos' = pos /\ UNCHANGED <<kind, allocated>>
    BY <1>2 DEF LoadField, heapVars
  <2> HIDE DEF e
  <2>4. \A i \in 0..MaxOp : op'[Main][i] = IF i = pos[Main] - 1 THEN e ELSE op[Main][i]
    BY <1>0, <2>3
  <2>5. StackGood'
    BY <2>2, <2>3, <2>4 DEF StackGood, GoodEntry
  <2> QED BY <1>0, <1>2, <2>5, GoodKept, InstructionSafe DEF LoadField, heapVars
<1>3. CASE StoreField(Main, f)
  <2> DEFINE a == Top(Main).v
             e == op[Main][pos[Main] - 2]
  <2>1. a \in allocated /\ Storable(e, a, f)
    BY <1>0, <1>1, <1>3 DEF StoreField
  <2>2. pos[Main] - 2 \in 0..MaxOp /\ pos[Main] - 2 < pos[Main]
    BY <1>0, <1>3, MemoryAssumption DEF StoreField
  <2>3. GoodEntry(e)
    BY <2>2 DEF StackGood
  <2>4. /\ refs' = [refs EXCEPT ![a][f] = e.v]
        /\ UNCHANGED <<kind, allocated, unsorted, static, frames, op>>
    BY <1>3 DEF StoreField
  <2>5. \A b \in allocated, g \in Fields :
          refs'[b][g] = IF b = a /\ g = f THEN e.v ELSE refs[b][g]
    BY <2>1, <2>4 DEF TypeOK, HeapType
  <2> HIDE DEF a, e
  <2>6. BlocksTyped'
    <3> SUFFICES ASSUME NEW b \in allocated, NEW g \in Fields
                 PROVE  /\ kind[b] # "free"
                        /\ kind[b] = "obj" => Good(refs'[b][g], Decl[g])
                        /\ kind[b] = "objary" => Good(refs'[b][g], "OBJ_PARM")
      BY <2>4 DEF BlocksTyped, Good
    <3>1. CASE b = a /\ g = f
      BY <2>1, <2>3, <2>5, <3>1 DEF Storable, BlocksTyped, Good, GoodEntry
    <3>2. CASE ~(b = a /\ g = f)
      BY <2>5, <3>2 DEF BlocksTyped
    <3> QED BY <3>1, <3>2
  <2>7. StackGood'
    BY <1>0, <1>3, <2>2, <2>4, PopGood, MemoryAssumption DEF StoreField
  <2> QED BY <1>0, <1>3, <2>4, <2>6, <2>7, GoodKept, InstructionSafe DEF StoreField
<1> QED BY <1>2, <1>3

LEMMA CallSafe ==
  ASSUME TypeOK, Control, SingleThreaded, gc = "idle",
         (\E isJit \in BOOLEAN : Call(Main, isJit)) \/ Return(Main)
  PROVE  SingleThreaded'
<1> USE DEF SingleThreaded, Running
<1>0. /\ pos[Main] \in 0..MaxOp /\ pos \in [Threads -> 0..MaxOp] /\ Main \in Threads
      /\ frames \in [Threads -> Seq(FrameType)]
      /\ frames[Main] \in Seq(FrameType) /\ Len(frames[Main]) \in Nat /\ Len(frames[Main]) > 1
  BY MemoryAssumption, LenProperties DEF TypeOK, ThreadType, MainThread
<1>1. ASSUME NEW isJit \in BOOLEAN, Call(Main, isJit) PROVE SingleThreaded'
  <2> DEFINE n == Len(frames[Main])
             new == NewFrame(Top(Main).v, isJit)
  <2>1. GoodEntry(Top(Main)) /\ Top(Main) \in Entries
    BY <1>1, TopGood DEF Call
  <2>2. Good(Top(Main).v, "OBJ_PARM")
    BY <1>1, <2>1 DEF Call, Good, GoodEntry, Fits
  <2>3. GoodFrame(new) /\ new \in FrameType
    BY <2>1, <2>2, NewFrameTyped, MemoryAssumption
       DEF NewFrame, GoodFrame, GoodEntry, Entry, Good, Entries
  <2>4. frames'[Main] = Append(frames[Main], new) /\ UNCHANGED <<kind, allocated, op>>
    BY <1>0, <1>1 DEF Call, heapVars
  <2> HIDE DEF new
  <2>5. Len(frames'[Main]) = n + 1
        /\ \A i \in 1..n+1 : frames'[Main][i] = IF i = n + 1 THEN new ELSE frames[Main][i]
    BY <1>0, <2>3, <2>4, AppendProperties
  <2>6. \A i \in 1..n+1 : GoodFrame(frames'[Main][i])
    BY <1>0, <2>3, <2>5 DEF FramesGood
  <2>7. FramesGood' /\ Len(frames'[Main]) > 1
    BY <1>0, <2>4, <2>5, <2>6 DEF FramesGood, GoodFrame, Good, GoodEntry
  <2>8. StackGood'
    BY <1>0, <1>1, <2>4, PopGood, MemoryAssumption DEF Call
  <2> QED BY <1>1, <2>7, <2>8, GoodKept, InstructionSafe DEF Call, heapVars
<1>2. CASE Return(Main)
  <2> DEFINE n == Len(frames[Main]) - 1
  <2>1. Len(frames[Main]) > 2 /\ frames'[Main] = SubSeq(frames[Main], 1, n)
    BY <1>0, <1>2 DEF Return
  <2>2. Len(frames'[Main]) = n /\ \A i \in 1..n : frames'[Main][i] = frames[Main][i]
    BY <1>0, <2>1, SubSeqProperties
  <2>3. UNCHANGED <<kind, allocated>> /\ \A i \in 1..n : GoodFrame(frames'[Main][i])
    BY <1>0, <1>2, <2>2 DEF FramesGood, Return, heapVars
  <2>4. FramesGood' /\ Len(frames'[Main]) > 1
    BY <1>0, <2>1, <2>2, <2>3 DEF FramesGood, GoodFrame, Good, GoodEntry
  <2> QED BY <1>2, <2>4, GoodKept, InstructionSafe DEF Return, heapVars
<1> QED BY <1>1, <1>2

-----------------------------------------------------------------------------
(* Allocation *)

LEMMA AllocationSafe ==
  ASSUME Threads = {Main}, TypeOK, Control, SingleThreaded,
         (\E k \in Kinds : New(Main, k)) \/ Allocate(Main)
  PROVE  SingleThreaded'
<1> USE DEF SingleThreaded
<1>0. /\ Main \in Threads /\ block \in [Threads -> [a : Val, kind : BlockKinds]]
      /\ th \in [Threads -> {"new", "starting", "run", "collecting", "allocating", "done"}]
  BY DEF TypeOK, ThreadType
<1>1. ASSUME NEW k \in Kinds, New(Main, k) PROVE SingleThreaded'
  <2>1. /\ gc = "idle" /\ gc' \in {"idle", "sort"} /\ th'[Main] \in {"allocating", "collecting"}
        /\ block'[Main].a = Null
        /\ UNCHANGED <<heapVars, static, op, pos, frames, holder, flagged, marked, mst,
                       work, cur>>
    BY <1>0, <1>1, Quiet DEF New, Running
  <2>2. StaticsGood' /\ FramesGood' /\ StackGood' /\ BlocksTyped'
    BY <2>1, GoodKept DEF heapVars
  <2>3. MainThread'
    BY <2>1 DEF MainThread
  <2>4. Phases'
    BY <2>1 DEF Phases, heapVars
  <2> QED BY <2>1, <2>2, <2>3, <2>4 DEF Tricolour
<1>2. CASE GetBlock(Main)
  <2>1. PICK a \in Addr \ (allocated \cup InFlight) :
          /\ block' = [block EXCEPT ![Main].a = a]
          /\ kind' = [kind EXCEPT ![a] = block[Main].kind]
          /\ refs' = [refs EXCEPT ![a] = [f \in Fields |-> Null]]
          /\ flagged' \in {flagged, flagged \ {a}}
    BY <1>2 DEF GetBlock
  <2>2. /\ th[Main] = "allocating"
        /\ UNCHANGED <<allocated, unsorted, static, th, op, pos, frames, gc,
                       marked, mst, work, cur>>
    BY <1>2 DEF GetBlock
  <2>3. gc = "idle"
    BY <2>2, Quiet
  <2>4. \A b \in allocated : kind'[b] = kind[b] /\ refs'[b] = refs[b]
    BY <2>1 DEF TypeOK, HeapType
  <2>5. StaticsGood' /\ FramesGood' /\ StackGood'
    BY <2>2, <2>4 DEF StaticsGood, FramesGood, StackGood, Good, GoodEntry, GoodFrame
  <2>6. BlocksTyped'
    BY <2>2, <2>4 DEF BlocksTyped, Good
  <2>7. MainThread'
    <3>1. kind'[a] = block[Main].kind /\ refs'[a] = [f \in Fields |-> Null] /\ block'[Main].a = a
      BY <1>0, <2>1 DEF TypeOK, HeapType
    <3>2. block[Main].kind # "free"
      BY <1>0 DEF BlockKinds
    <3> QED BY <2>2, <3>1, <3>2 DEF MainThread
  <2>8. Phases' /\ Tricolour'
    BY <2>1, <2>2, <2>3 DEF Phases, Tricolour
  <2> QED BY <2>5, <2>6, <2>7, <2>8
<1>3. CASE Record(Main)
  <2> DEFINE a == block[Main].a
  <2>1. /\ th[Main] = "allocating" /\ a # Null
        /\ allocated' = allocated \cup {a} /\ unsorted' = unsorted \cup {a}
        /\ Push(Main, Entry(a, TRUE))
        /\ block'[Main].a = Null /\ th'[Main] = "run"
        /\ UNCHANGED <<kind, refs, static, frames, gcVars>>
    BY <1>0, <1>3 DEF Record, NoBlock
  <2>2. gc = "idle" /\ pos[Main] < MaxOp
    BY <1>0, <2>1, Quiet DEF Control
  <2>3. StaticsGood' /\ FramesGood'
    BY <2>1 DEF StaticsGood, FramesGood, Good, GoodEntry, GoodFrame
  <2>4. BlocksTyped'
    BY <2>1 DEF BlocksTyped, Good, MainThread
  <2> HIDE DEF a
  <2>5. StackGood'
    <3> DEFINE e == Entry(a, TRUE)
    <3>1. allocated \subseteq allocated' /\ e.v \in allocated' /\ Push(Main, e)
      BY <2>1 DEF Entry
    <3> HIDE DEF e
    <3> QED BY <2>2, <3>1, PushRecorded
  <2>6. MainThread'
    BY <2>1 DEF MainThread
  <2>7. Phases' /\ Tricolour'
    BY <2>1, <2>2 DEF Phases, Tricolour, gcVars
  <2> QED BY <2>3, <2>4, <2>5, <2>6, <2>7
<1>4. CASE JoinCollector(Main)
  <2>1. /\ gc = "done" /\ gc' = "idle" /\ th'[Main] = "allocating"
        /\ UNCHANGED <<heapVars, static, op, pos, frames, block, flagged, marked,
                       mst, work, cur>>
    BY <1>0, <1>4 DEF JoinCollector
  <2>2. StaticsGood' /\ FramesGood' /\ StackGood' /\ BlocksTyped'
    BY <2>1, GoodKept DEF heapVars
  <2>3. MainThread'
    BY <2>1 DEF MainThread, heapVars
  <2>4. Phases' /\ Tricolour'
    BY <2>1 DEF Phases, Tricolour, heapVars
  <2> QED BY <2>2, <2>3, <2>4
<1> QED BY <1>1, <1>2, <1>3, <1>4 DEF Allocate

-----------------------------------------------------------------------------
(* What the roots of a collection are *)

(* A word read from a declared variable that holds a good value, or from a  *)
(* row of words, is a good word.                                           *)
LEMMA VariablesGood ==
  ASSUME NEW X \in SUBSET (Statics \cup Locals \cup Fields), NEW mem \in [X -> Val],
         \A v \in X : Good(mem[v], Decl[v])
  PROVE  \A w \in Variables(mem) : GoodWord(w)
BY DEF Variables, NotNull, GoodWord, Good

LEMMA RawGood ==
  ASSUME NEW mem
  PROVE  \A w \in Elements(mem, "raw") : GoodWord(w)
BY DEF Elements, GoodWord

(* Every value of a variable that is not null is among its words. *)
LEMMA VariablesComplete ==
  ASSUME NEW X, NEW mem \in [X -> Val], NEW v \in X, mem[v] # Null
  PROVE  \E w \in Variables(mem) : w.a = mem[v]
<1>1. v \in NotNull(mem)
  BY DEF NotNull
<1>2. [a |-> mem[v], how |-> Decl[v]] \in Variables(mem)
  BY <1>1 DEF Variables
<1> QED BY <1>2

LEMMA ElementsComplete ==
  ASSUME NEW X, NEW mem \in [X -> Val], NEW v \in X, mem[v] # Null, NEW how
  PROVE  \E w \in Elements(mem, how) : w.a = mem[v]
<1>1. v \in NotNull(mem)
  BY DEF NotNull
<1>2. [a |-> mem[v], how |-> how] \in Elements(mem, how)
  BY <1>1 DEF Elements
<1> QED BY <1>2

LEMMA FrameTyped ==
  ASSUME TypeOK, NEW i \in 1..Len(frames[Main])
  PROVE  /\ frames[Main][i].mem \in [Locals -> Val] /\ frames[Main][i].tmp \in Entries
         /\ DOMAIN frames[Main] = 1..Len(frames[Main])
<1>1. frames[Main] \in Seq(FrameType)
  BY MemoryAssumption DEF TypeOK, ThreadType
<1>2. frames[Main][i] \in FrameType /\ DOMAIN frames[Main] = 1..Len(frames[Main])
  BY <1>1, ElementOfSeq, LenProperties
<1> QED BY <1>2 DEF FrameType

LEMMA RootsGood ==
  ASSUME Threads = {Main}, TypeOK, SingleThreaded, NEW m \in Markers
  PROVE  \A w \in Roots(m) : GoodWord(w)
<1>1. CASE m = "static"
  BY <1>1, VariablesGood DEF Roots, SingleThreaded, StaticsGood, TypeOK, HeapType
<1>2. CASE m = "stack"
  BY <1>2, RawGood DEF Roots, StackWords
<1>3. ASSUME NEW i \in DOMAIN frames[Main]
      PROVE  \A w \in Variables(frames[Main][i].mem) : GoodWord(w)
  <2>1. frames[Main] \in Seq(FrameType)
    BY MemoryAssumption DEF TypeOK, ThreadType
  <2>2. i \in 1..Len(frames[Main])
    BY <2>1, LenProperties
  <2>3. \A l \in Locals : Good(frames[Main][i].mem[l], Decl[l])
    BY <2>2 DEF SingleThreaded, FramesGood, GoodFrame
  <2> QED BY <2>2, <2>3, FrameTyped, VariablesGood
<1>4. CASE m = "pda"
  <2>1. Roots(m) = FrameWords(Main, PdaFrames(Main))
    BY <1>4 DEF Roots
  <2> QED BY <1>3, <2>1 DEF FrameWords, PdaFrames
<1>5. CASE m = "jit"
  <2>1. Roots(m) = FrameWords(Main, JitFrames(Main)) \cup TempWords(Main)
    BY <1>5 DEF Roots
  <2>2. \A w \in FrameWords(Main, JitFrames(Main)) : GoodWord(w)
    BY <1>3 DEF FrameWords, JitFrames
  <2>3. \A w \in TempWords(Main) : GoodWord(w)
    BY RawGood DEF TempWords
  <2> QED BY <2>1, <2>2, <2>3
<1> QED BY <1>1, <1>2, <1>4, <1>5 DEF Markers

(* The four mark threads' roots are all the references of a one-threaded    *)
(* program: its frames always have a caller below them, so none is passed   *)
(* over by CheckPdaRoots, and its operand stack is the collecting one.     *)
LEMMA RootsComplete ==
  ASSUME Threads = {Main}, TypeOK, SingleThreaded, owner = Main, NEW a \in ProgramRefs
  PROVE  \E m \in Markers : \E w \in Roots(m) : w.a = a
<1> USE DEF SingleThreaded
<1>0. a # Null /\ Main \in Threads
  <2>1. a \in Addr
    BY DEF ProgramRefs, StaticRefs, LocalRefs, StackRefs, HolderRefs
  <2>2. Null \notin Addr /\ Main \in Threads
    BY MemoryAssumption
  <2> QED BY <2>1, <2>2
<1>1. CASE a \in StaticRefs
  <2>1. PICK v \in Statics : static[v] = a
    BY <1>1 DEF StaticRefs
  <2>2. \E w \in Variables(static) : w.a = a
    BY <1>0, <2>1, VariablesComplete DEF TypeOK, HeapType
  <2> QED BY <2>2 DEF Roots, Markers
<1>2. CASE a \in StackRefs(Main)
  <2>1. PICK i \in 0..MaxOp : i < pos[Main] /\ op[Main][i] = Entry(a, TRUE)
    BY <1>2 DEF StackRefs
  <2>2. pos[Main] \in 0..MaxOp /\ op[Main] \in [0..MaxOp -> Entries]
    BY DEF TypeOK, ThreadType
  <2> DEFINE mem == [j \in 0..pos[Main] |-> op[Main][j].v]
  <2>3. \A j \in 0..pos[Main] : op[Main][j].v \in Val
    BY <2>2, MemoryAssumption DEF Entries
  <2>4. mem \in [0..pos[Main] -> Val] /\ i \in 0..pos[Main] /\ mem[i] = a
    BY <2>1, <2>2, <2>3 DEF Entry
  <2> HIDE DEF mem
  <2>5. \E w \in Elements(mem, "raw") : w.a = a
    BY <1>0, <2>4, ElementsComplete
  <2>6. Roots("stack") = Elements(mem, "raw")
    BY DEF Roots, StackWords, mem
  <2> QED BY <2>5, <2>6 DEF Markers
<1>3. CASE a \in LocalRefs(Main)
  <2>0. frames[Main] \in Seq(FrameType) /\ DOMAIN frames[Main] = 1..Len(frames[Main])
    BY LenProperties DEF TypeOK, ThreadType
  <2>1. PICK i \in 1..Len(frames[Main]) :
          \/ \E l \in Locals : frames[Main][i].mem[l] = a
          \/ frames[Main][i].tmp = Entry(a, TRUE)
    BY <1>3, <2>0 DEF LocalRefs
  <2>2. CASE \E l \in Locals : frames[Main][i].mem[l] = a
    <3>1. \E w \in Variables(frames[Main][i].mem) : w.a = a
      BY <1>0, <2>2, FrameTyped, VariablesComplete
    <3>2. CASE frames[Main][i].jit
      <4>1. \E w \in FrameWords(Main, JitFrames(Main)) : w.a = a
        BY <2>0, <3>1, <3>2 DEF FrameWords, JitFrames
      <4> QED BY <4>1 DEF Roots, Markers
    <3>3. CASE ~frames[Main][i].jit
      <4>1. i \in PdaFrames(Main)
        BY <2>0, <3>3 DEF PdaFrames, MainThread
      <4>2. \E w \in FrameWords(Main, PdaFrames(Main)) : w.a = a
        BY <3>1, <4>1 DEF FrameWords
      <4>3. Roots("pda") = FrameWords(Main, PdaFrames(Main))
        BY DEF Roots
      <4> QED BY <4>2, <4>3 DEF Markers
    <3> QED BY <3>2, <3>3
  <2>3. CASE frames[Main][i].tmp = Entry(a, TRUE)
    <3>1. i \in JitFrames(Main)
      BY <2>0, <2>3 DEF JitFrames, FramesGood, GoodFrame, Entry
    <3> DEFINE mem == [v \in {"tmp"} |-> frames[Main][i].tmp.v]
    <3>2. mem \in [{"tmp"} -> Val] /\ mem["tmp"] = a
      BY <2>3, FrameTyped DEF Entries, Entry
    <3>3. \E w \in Elements(mem, "raw") : w.a = a
      BY <1>0, <3>2, ElementsComplete
    <3>4. \E w \in TempWords(Main) : w.a = a
      BY <3>1, <3>3 DEF TempWords
    <3>5. Roots("jit") = FrameWords(Main, JitFrames(Main)) \cup TempWords(Main)
      BY DEF Roots
    <3> QED BY <3>4, <3>5 DEF Markers
  <2> QED BY <2>1, <2>2, <2>3
<1>4. a \notin HolderRefs(Main)
  BY DEF HolderRefs, MainThread
<1> QED BY <1>1, <1>2, <1>3, <1>4 DEF ProgramRefs

LEMMA RootsKept ==
  ASSUME UNCHANGED <<static, owner, op, pos, frames>>, NEW m \in Markers
  PROVE  Roots(m)' = Roots(m)
BY DEF Roots, Variables, NotNull, Elements, StackWords, FrameWords, TempWords,
       PdaFrames, JitFrames

-----------------------------------------------------------------------------
(* The mark phase *)

(* While no block is appended, a search finds exactly the blocks in use.    *)
LEMMA SearchFinds ==
  ASSUME unsorted = {}, NEW a
  PROVE  Search(a) = IF a \in allocated THEN {TRUE} ELSE {FALSE}
BY DEF Search

(* Contents of a good word that is in use: good words, and all references.  *)
LEMMA ContentsGood ==
  ASSUME TypeOK, SingleThreaded, NEW w \in Words, GoodWord(w), w.a \in allocated
  PROVE  /\ \A c \in Contents(w) : GoodWord(c)
         /\ \A b \in BlockRefs(w.a) : \E c \in Contents(w) : c.a = b
<1> DEFINE mem == refs[w.a]
<1>1. mem \in [Fields -> Val] /\ kind[w.a] \in BlockKinds \cup {"free"}
  BY DEF TypeOK, HeapType, Words
<1>2. ASSUME NEW b \in BlockRefs(w.a)
      PROVE  /\ kind[w.a] \in {"obj", "objary"}
             /\ b # Null /\ \E f \in Fields : mem[f] = b
  BY MemoryAssumption DEF BlockRefs
<1>3. kind[w.a] = "obj" => \A f \in Fields : Good(mem[f], Decl[f])
  BY DEF SingleThreaded, BlocksTyped
<1>4. kind[w.a] = "objary" => \A f \in Fields : Good(mem[f], "OBJ_PARM")
  BY DEF SingleThreaded, BlocksTyped
<1>5. kind[w.a] = "obj" => \A c \in Variables(mem) : GoodWord(c)
  BY <1>1, <1>3, VariablesGood
<1>6. kind[w.a] = "objary" => \A c \in Elements(mem, "OBJ_PARM") : GoodWord(c)
  BY <1>1, <1>4 DEF Elements, NotNull, Good, GoodWord
<1>7. \A c \in Elements(mem, "raw") : GoodWord(c)
  BY RawGood
<1>8. ASSUME NEW b \in BlockRefs(w.a)
      PROVE  /\ \E c \in Variables(mem) : c.a = b
             /\ \E c \in Elements(mem, "OBJ_PARM") : c.a = b
             /\ \E c \in Elements(mem, "raw") : c.a = b
  BY <1>1, <1>2, VariablesComplete, ElementsComplete
<1> HIDE DEF mem
<1>9. CASE w.how = "PRIM_ARY_PARM"
  <2>1. Contents(w) = {} /\ kind[w.a] \in {"intary", "bytes"}
    BY <1>9 DEF Contents, GoodWord, Fits
  <2> QED BY <1>2, <2>1
<1>10. CASE w.how = "OBJ_ARY_PARM"
  <2>1. Contents(w) = Elements(mem, "OBJ_PARM") /\ kind[w.a] = "objary"
    BY <1>10 DEF Contents, GoodWord, Fits, mem
  <2> QED BY <1>6, <1>8, <2>1
<1>11. CASE w.how \in {"OBJ_PARM", "raw"}
  <2>1. kind[w.a] = "obj" => Contents(w) = Variables(mem)
    BY <1>11 DEF Contents, mem
  <2>2. kind[w.a] \in {"bytes", "free"} => Contents(w) = {}
    BY <1>11 DEF Contents
  <2>3. kind[w.a] \notin {"obj", "bytes", "free"} => Contents(w) = Elements(mem, "raw")
    BY <1>11 DEF Contents, mem
  <2> QED BY <1>2, <1>5, <1>7, <1>8, <2>1, <2>2, <2>3
<1> QED BY <1>9, <1>10, <1>11 DEF Words, ParmTypes

(* The parts of the invariant a mark thread leaves alone. *)
LEMMA MarkerKeeps ==
  ASSUME UNCHANGED <<heapVars, static, threadVars, gc, owner>>, SingleThreaded
  PROVE  StaticsGood' /\ FramesGood' /\ StackGood' /\ BlocksTyped' /\ MainThread'
BY GoodKept DEF SingleThreaded, heapVars, threadVars, MainThread

(* Tricolour is kept by a step that keeps every block covered, and adds     *)
(* only good words, roots of a mark thread that has just read them and the  *)
(* references of what it marks.                                            *)
LEMMA TricolourKept ==
  ASSUME Tricolour, UNCHANGED <<heapVars, static, threadVars, gc, owner>>,
         \A m \in Markers : \A w \in Pending(m)' : GoodWord(w),
         \A a \in allocated : Covered(a) => Covered(a)',
         BlocksTyped, flagged \subseteq allocated, \A a \in Addr : a # Null,
         \A m \in Markers : mst'[m] # "ready" /\ mst[m] = "ready" =>
           \A w \in Roots(m) : Covered(w.a)',
         \A a \in flagged' \ flagged : \A b \in BlockRefs(a) : Covered(b)'
  PROVE  Tricolour'
<1> SUFFICES ASSUME gc \in {"mark", "lock", "sweep"}
             PROVE  /\ \A m \in Markers : \A w \in Pending(m)' : GoodWord(w)'
                    /\ \A m \in Markers : mst'[m] # "ready" =>
                         \A w \in Roots(m)' : w.a \in allocated' => Covered(w.a)'
                    /\ \A a \in flagged' : \A b \in BlockRefs(a)' : Covered(b)'
  BY DEF Tricolour
<1>1. \A m \in Markers : \A w \in Pending(m)' : GoodWord(w)'
  BY DEF GoodWord, heapVars
<1>2. ASSUME NEW m \in Markers, mst'[m] # "ready", NEW w \in Roots(m)', w.a \in allocated'
      PROVE  Covered(w.a)'
  <2>1. w \in Roots(m) /\ w.a \in allocated
    BY <1>2, RootsKept DEF heapVars, threadVars
  <2>2. mst[m] # "ready" => Covered(w.a)
    BY <2>1 DEF Tricolour
  <2> QED BY <1>2, <2>1, <2>2
<1>3. ASSUME NEW a \in flagged', NEW b \in BlockRefs(a)' PROVE Covered(b)'
  <2>1. b \in BlockRefs(a)
    BY <1>3 DEF BlockRefs, heapVars
  <2>2. CASE a \in flagged
    <3>1. b \in allocated
      BY <2>1, <2>2 DEF BlockRefs, BlocksTyped, Good
    <3> QED BY <2>1, <2>2, <3>1 DEF Tricolour
  <2> QED BY <1>3, <2>1, <2>2
<1> QED BY <1>1, <1>2, <1>3

(* A step of a mark thread, from the words it has after it. *)
LEMMA MarkerStep ==
  ASSUME TypeOK, SingleThreaded, UNCHANGED <<heapVars, static, threadVars, gc, owner>>,
         Phases',
         \A n \in Markers : \A w \in Pending(n)' : GoodWord(w),
         \A a \in allocated : Covered(a) => Covered(a)',
         \A n \in Markers : mst'[n] # "ready" /\ mst[n] = "ready" =>
           \A w \in Roots(n) : Covered(w.a)',
         \A a \in flagged' \ flagged : \A b \in BlockRefs(a) : Covered(b)'
  PROVE  SingleThreaded'
<1>1. Tricolour'
  BY TricolourKept, MemoryAssumption DEF SingleThreaded, Phases
<1> QED BY <1>1, MarkerKeeps DEF SingleThreaded

LEMMA MarkerSafe ==
  ASSUME Threads = {Main}, TypeOK, Control, SingleThreaded, NEW m \in Markers, Marker(m)
  PROVE  SingleThreaded'
<1> USE DEF SingleThreaded
<1>0. /\ UNCHANGED <<heapVars, static, threadVars, gc, owner>>
      /\ mst \in [Markers -> {"off", "ready", "scan", "mark", "markvalid"}]
      /\ work \in [Markers -> SUBSET Words] /\ cur \in [Markers -> Words \cup {NoWord}]
      /\ \A w \in Words : w.a \in Addr
  BY DEF Marker, ReadRoots, VisitMemory, VisitValidMemory, Mark, MarkDone, TypeOK,
         CollectorType, Words
<1>1. gc = "mark" /\ unsorted = {}
  BY DEF Marker, ReadRoots, VisitMemory, VisitValidMemory, Mark, MarkDone, Control, Phases
<1>2. GoodWord(NoWord) /\ NoWord.a = Null /\ \A a \in Addr : a # Null
  BY MemoryAssumption DEF GoodWord, NoWord
<1>3. \A n \in Markers : \A w \in Pending(n) : GoodWord(w)
  BY <1>1 DEF Tricolour
<1>4. CASE ReadRoots(m)
  <2>1. /\ mst[m] = "ready" /\ mst' = [mst EXCEPT ![m] = "scan"]
        /\ work' = [work EXCEPT ![m] = Roots(m)] /\ work[m] = {}
        /\ UNCHANGED <<flagged, marked, cur>>
    BY <1>4 DEF ReadRoots, Phases
  <2>2. Phases'
    BY <1>0, <2>1 DEF Phases, heapVars
  <2>3. \A n \in Markers : \A w \in Pending(n)' : GoodWord(w)
    BY <1>0, <1>3, <2>1, RootsGood DEF Pending
  <2>4. \A n \in Markers : Pending(n) \subseteq Pending(n)'
    BY <1>0, <2>1 DEF Pending
  <2>5. \A a \in allocated : Covered(a) => Covered(a)'
    BY <2>1, <2>4 DEF Covered
  <2>6. \A n \in Markers : mst'[n] # "ready" /\ mst[n] = "ready" =>
          \A w \in Roots(n) : Covered(w.a)'
    BY <1>0, <2>1 DEF Covered, Pending
  <2> QED BY <1>0, <2>1, <2>2, <2>3, <2>5, <2>6, MarkerStep
<1>5. ASSUME mst[m] = "scan", NEW w \in work[m], NEW stage \in {"mark", "markvalid"},
             work' = [work EXCEPT ![m] = @ \ {w}],
             UNCHANGED <<flagged, marked>>,
             w.a \in allocated => TestFlag(m, w, stage),
             w.a \notin allocated => UNCHANGED <<mst, cur>>
      PROVE  SingleThreaded'
  <2>1. cur[m] = NoWord /\ w \in Words
    BY <1>0, <1>5 DEF Phases
  <2>2. \/ /\ w.a \in allocated /\ w.a \notin flagged
           /\ cur' = [cur EXCEPT ![m] = w] /\ mst' = [mst EXCEPT ![m] = stage]
        \/ /\ w.a \notin allocated \/ w.a \in flagged
           /\ UNCHANGED <<mst, cur>>
    BY <1>5 DEF TestFlag
  <2>3. Phases'
    BY <1>0, <1>5, <2>1, <2>2 DEF Phases, heapVars
  <2>4. \A n \in Markers : \A v \in Pending(n)' : GoodWord(v)
    BY <1>0, <1>3, <1>5, <2>2 DEF Pending
  <2>5. \A n \in Markers : \A v \in Pending(n) :
          v \in Pending(n)' \/ v.a \in flagged \/ v.a \notin allocated
    BY <1>0, <1>2, <1>5, <2>1, <2>2, MemoryAssumption DEF Pending, TypeOK, HeapType
  <2>6. \A a \in allocated : Covered(a) => Covered(a)'
    BY <1>5, <2>5 DEF Covered
  <2>7. \A n \in Markers : mst[n] = "ready" => mst'[n] = "ready"
    BY <1>0, <1>5, <2>2
  <2> QED BY <1>0, <1>5, <2>3, <2>4, <2>6, <2>7, MarkerStep
<1>6. CASE VisitMemory(m)
  <2>1. PICK w \in work[m] :
          /\ w.how = "PRIM_ARY_PARM" \/ (w.how \in {"OBJ_PARM", "raw"} /\ TRUE \in Identified(w))
          /\ TestFlag(m, w, "mark")
          /\ work' = [work EXCEPT ![m] = @ \ {w}]
    BY <1>6 DEF VisitMemory
  <2>2. GoodWord(w)
    BY <1>3 DEF Pending
  <2>3. w.a \in allocated
    <3>1. CASE w.how = "raw"
      BY <1>1, <2>1, <3>1, SearchFinds DEF Identified
    <3>2. CASE w.how # "raw"
      BY <2>2, <3>2 DEF GoodWord
    <3> QED BY <3>1, <3>2
  <2>4. mst[m] = "scan" /\ UNCHANGED <<flagged, marked>>
    BY <1>6 DEF VisitMemory
  <2> QED BY <1>5, <2>1, <2>3, <2>4
<1>7. CASE VisitValidMemory(m)
  <2>1. PICK w \in work[m] :
          /\ \E found \in Search(w.a) :
               IF found THEN TestFlag(m, w, "markvalid") ELSE UNCHANGED <<mst, cur>>
          /\ work' = [work EXCEPT ![m] = @ \ {w}]
    BY <1>7 DEF VisitValidMemory
  <2>2. /\ w.a \in allocated => TestFlag(m, w, "markvalid")
        /\ w.a \notin allocated => UNCHANGED <<mst, cur>>
    <3>1. PICK found \in Search(w.a) :
            IF found THEN TestFlag(m, w, "markvalid") ELSE UNCHANGED <<mst, cur>>
      BY <2>1
    <3>2. Search(w.a) = IF w.a \in allocated THEN {TRUE} ELSE {FALSE}
      BY <1>1, SearchFinds
    <3>3. (w.a \in allocated => found = TRUE) /\ (w.a \notin allocated => found = FALSE)
      BY <3>1, <3>2
    <3> QED BY <3>1, <3>3
  <2>3. mst[m] = "scan" /\ UNCHANGED <<flagged, marked>>
    BY <1>7 DEF VisitValidMemory
  <2> QED BY <1>5, <2>1, <2>2, <2>3
<1>8. CASE Mark(m)
  <2> DEFINE w == cur[m]
  <2>1. /\ mst[m] \in {"mark", "markvalid"}
        /\ flagged' = flagged \cup {w.a} /\ marked' = marked \cup {w.a}
        /\ mst' = [mst EXCEPT ![m] = "scan"] /\ cur' = [cur EXCEPT ![m] = NoWord]
    BY <1>8 DEF Mark
  <2>2. w \in Words /\ w.a \in allocated /\ GoodWord(w)
    BY <1>3, <2>1 DEF Control, Phases, Pending
  <2>3. work' = [work EXCEPT ![m] = @ \cup Contents(w)]
    BY <1>1, <1>8 DEF Mark, Scans
  <2>4. /\ \A c \in Contents(w) : GoodWord(c)
        /\ \A b \in BlockRefs(w.a) : \E c \in Contents(w) : c.a = b
    BY <2>2, ContentsGood
  <2> HIDE DEF w
  <2>5. /\ \A n \in Markers \ {m} : Pending(n)' = Pending(n)
        /\ Pending(m)' = work[m] \cup Contents(w) \cup {NoWord}
    BY <1>0, <2>1, <2>3 DEF Pending
  <2>6. Phases'
    BY <1>0, <1>1, <2>1, <2>2, <2>3 DEF Phases, heapVars
  <2>7. \A n \in Markers : \A v \in Pending(n)' : GoodWord(v)
    BY <1>2, <1>3, <2>4, <2>5 DEF Pending
  <2>8. \A a \in allocated : Covered(a) => Covered(a)'
    <3> SUFFICES ASSUME NEW a \in allocated, Covered(a) PROVE Covered(a)'
      OBVIOUS
    <3>1. CASE a \in flagged
      BY <2>1, <3>1 DEF Covered
    <3>2. CASE \E n \in Markers : \E v \in Pending(n) : v.a = a
      <4>1. PICK n \in Markers : \E v \in Pending(n) : v.a = a
        BY <3>2
      <4>2. PICK v \in Pending(n) : v.a = a
        BY <4>1
      <4>3. v \in Pending(n)' \/ v = w
        BY <2>5 DEF Pending, w
      <4> QED BY <2>1, <4>2, <4>3 DEF Covered
    <3> QED BY <3>1, <3>2 DEF Covered
  <2>9. \A a \in flagged' \ flagged : \A b \in BlockRefs(a) : Covered(b)'
    BY <2>1, <2>4, <2>5 DEF Covered
  <2>10. \A n \in Markers : mst[n] = "ready" => mst'[n] = "ready"
    BY <1>0, <2>1
  <2> QED BY <1>0, <2>6, <2>7, <2>8, <2>9, <2>10, MarkerStep
<1>9. CASE MarkDone(m)
  <2>1. /\ mst[m] = "scan" /\ work[m] = {} /\ mst' = [mst EXCEPT ![m] = "off"]
        /\ UNCHANGED <<flagged, marked, work, cur>>
    BY <1>9 DEF MarkDone
  <2>2. Phases'
    BY <1>0, <2>1 DEF Phases, heapVars
  <2>3. \A n \in Markers : Pending(n)' = Pending(n)
    BY <2>1 DEF Pending
  <2>4. \A a \in allocated : Covered(a) => Covered(a)'
    BY <2>1, <2>3 DEF Covered
  <2>5. \A n \in Markers : mst[n] = "ready" => mst'[n] = "ready"
    BY <1>0, <2>1
  <2> QED BY <1>0, <1>3, <2>1, <2>2, <2>3, <2>4, <2>5, MarkerStep
<1> QED BY <1>4, <1>6, <1>7, <1>8, <1>9 DEF Marker

-----------------------------------------------------------------------------
(* The collection thread *)

(* When all mark threads have exited, the program's references and those of *)
(* a marked block are marked.                                              *)
LEMMA MarkedComplete ==
  ASSUME Threads = {Main}, TypeOK, Control, SingleThreaded, gc \in {"lock", "sweep"}
  PROVE  /\ \A a \in ProgramRefs \cap allocated : a \in marked
         /\ \A a \in marked : BlockRefs(a) \subseteq marked
<1> USE DEF SingleThreaded
<1>1. \A m \in Markers : mst[m] = "off" /\ Pending(m) = {NoWord}
  BY DEF Control, Phases, Pending
<1>2. \A a \in Addr : Covered(a) => a \in marked
  BY <1>1, MemoryAssumption DEF Covered, Phases, NoWord
<1>3. owner = Main
  BY DEF Control
<1>4. ASSUME NEW a \in ProgramRefs, a \in allocated PROVE a \in marked
  <2>1. PICK m \in Markers : \E w \in Roots(m) : w.a = a
    BY <1>3, <1>4, RootsComplete
  <2>2. Covered(a)
    BY <1>1, <1>4, <2>1 DEF Tricolour
  <2> QED BY <1>2, <1>4, <2>2 DEF TypeOK, HeapType
<1>5. ASSUME NEW a \in marked, NEW b \in BlockRefs(a) PROVE b \in marked
  BY <1>2, <1>5 DEF Tricolour, Phases, BlockRefs
<1> QED BY <1>4, <1>5

(* Every reference of the program is to a block in use. *)
LEMMA NoneDangling ==
  ASSUME Threads = {Main}, TypeOK, SingleThreaded
  PROVE  NoDangling
<1> USE DEF SingleThreaded
<1>1. StaticRefs \subseteq allocated
  BY MemoryAssumption DEF StaticRefs, StaticsGood, Good
<1>2. StackRefs(Main) \subseteq allocated
  BY MemoryAssumption DEF StackRefs, StackGood, GoodEntry, Entry
<1>3. LocalRefs(Main) \subseteq allocated
  <2>1. DOMAIN frames[Main] = 1..Len(frames[Main])
    BY MemoryAssumption, LenProperties DEF TypeOK, ThreadType
  <2> QED BY <2>1, MemoryAssumption DEF LocalRefs, FramesGood, GoodFrame, GoodEntry, Good, Entry
<1>4. HolderRefs(Main) = {}
  BY DEF HolderRefs, MainThread
<1>5. \A a \in allocated : BlockRefs(a) \subseteq allocated
  BY MemoryAssumption DEF BlockRefs, BlocksTyped, Good
<1> QED BY <1>1, <1>2, <1>3, <1>4, <1>5 DEF NoDangling, ProgramRefs

LEMMA CollectorSafe ==
  ASSUME Threads = {Main}, TypeOK, Control, SingleThreaded, Collector
  PROVE  SingleThreaded'
<1> USE DEF SingleThreaded
<1>0. gc # "idle" /\ UNCHANGED <<static, threadVars, owner>>
  BY DEF Collector, Sort, JoinMarkers, LockAllocated, Sweep
<1>1. owner = Main /\ th[Main] = "collecting" /\ block[Main].a = Null
  BY <1>0 DEF Control
<1>2. CASE Sort
  <2>1. /\ gc = "sort" /\ gc' = "mark" /\ unsorted' = {}
        /\ mst' = [n \in Markers |-> "ready"]
        /\ UNCHANGED <<kind, refs, allocated, flagged, marked, work, cur>>
    BY <1>2 DEF Sort
  <2>2. StaticsGood' /\ FramesGood' /\ StackGood' /\ BlocksTyped' /\ MainThread'
    BY <1>0, <2>1, GoodKept DEF threadVars, MainThread
  <2>3. \A n \in Markers : mst[n] = "off" /\ cur[n] = NoWord /\ work[n] = {}
    BY <2>1 DEF Control, Phases
  <2>4. Phases'
    BY <2>1, <2>3 DEF Phases
  <2>5. Tricolour'
    BY <2>1, <2>3 DEF Tricolour, Pending, GoodWord, NoWord, Phases
  <2> QED BY <2>2, <2>4, <2>5
<1>3. CASE JoinMarkers \/ LockAllocated
  <2>1. /\ gc \in {"mark", "lock"} /\ gc' \in {"lock", "sweep"}
        /\ UNCHANGED <<heapVars, flagged, marked, mst, work, cur>>
    BY <1>3 DEF JoinMarkers, LockAllocated
  <2>2. StaticsGood' /\ FramesGood' /\ StackGood' /\ BlocksTyped' /\ MainThread'
    BY <1>0, <2>1, GoodKept DEF threadVars, heapVars, MainThread
  <2>3. Phases'
    BY <2>1 DEF Phases, heapVars
  <2>4. \A n \in Markers : Roots(n)' = Roots(n)
    BY <1>0, RootsKept DEF threadVars
  <2>5. Tricolour'
    BY <2>1, <2>4 DEF Tricolour, Pending, GoodWord, Covered, BlockRefs, heapVars
  <2> QED BY <2>2, <2>3, <2>5
<1>4. CASE Sweep
  <2>1. /\ gc = "sweep" /\ gc' = "done"
        /\ allocated' = allocated \cap marked /\ unsorted' = unsorted \cap marked
        /\ flagged' = flagged \ allocated /\ marked' = {}
        /\ UNCHANGED <<mst, work, cur>>
    BY <1>4 DEF Sweep, SweptFlags, SweptMarks
  <2>2. \A a \in allocated \cap marked : kind'[a] = kind[a] /\ refs'[a] = refs[a]
    BY <1>4 DEF Sweep, TypeOK, HeapType
  <2>3. /\ \A a \in ProgramRefs : a \in allocated \cap marked
        /\ \A a \in allocated \cap marked : BlockRefs(a) \subseteq allocated \cap marked
    BY <2>1, MarkedComplete, NoneDangling DEF NoDangling
  <2>4. StaticsGood'
    <3> SUFFICES ASSUME NEW s \in Statics, static[s] # Null
                 PROVE  static[s] \in allocated' /\ Fits(Decl[s], kind'[static[s]])
      BY <1>0 DEF StaticsGood, Good
    <3>1. static[s] \in ProgramRefs
      BY DEF TypeOK, HeapType, Val, ProgramRefs, StaticRefs
    <3> QED BY <2>1, <2>2, <2>3, <3>1 DEF StaticsGood, Good
  <2>5. FramesGood'
    <3> SUFFICES ASSUME NEW i \in 1..Len(frames[Main])
                 PROVE  GoodFrame(frames[Main][i])'
      BY <1>0 DEF FramesGood, threadVars
    <3> DEFINE f == frames[Main][i]
    <3>1. GoodFrame(f) /\ f.mem \in [Locals -> Val] /\ f.tmp \in Entries
      BY FrameTyped DEF FramesGood
    <3>2. DOMAIN frames[Main] = 1..Len(frames[Main])
      BY FrameTyped
    <3>3. ASSUME NEW l \in Locals, f.mem[l] # Null PROVE f.mem[l] \in ProgramRefs
      <4>1. f.mem[l] \in Addr
        BY <3>1, <3>3 DEF Val
      <4>2. f.mem[l] \in LocalRefs(Main)
        BY <3>2, <4>1 DEF LocalRefs
      <4> QED BY <4>2 DEF ProgramRefs
    <3>4. ASSUME f.tmp.ref, f.tmp.v # Null PROVE f.tmp.v \in ProgramRefs
      <4>1. f.tmp = Entry(f.tmp.v, TRUE) /\ f.tmp.v \in Addr
        BY <3>1, <3>4 DEF Entry, Entries, Val
      <4>2. f.tmp.v \in LocalRefs(Main)
        BY <3>2, <4>1 DEF LocalRefs
      <4> QED BY <4>2 DEF ProgramRefs
    <3>5. frames' = frames
      BY <1>0 DEF threadVars
    <3>6. \A l \in Locals : Good(f.mem[l], Decl[l])'
      BY <2>1, <2>2, <2>3, <3>1, <3>3, <3>5 DEF Good, GoodFrame
    <3>7. GoodEntry(f.tmp)'
      BY <2>1, <2>3, <3>4, <3>5 DEF GoodEntry
    <3> QED BY <3>1, <3>5, <3>6, <3>7 DEF GoodFrame
  <2>6. StackGood'
    <3> SUFFICES ASSUME NEW i \in 0..MaxOp, i < pos[Main], op[Main][i].ref,
                        op[Main][i].v # Null
                 PROVE  op[Main][i].v \in allocated'
      BY <1>0 DEF StackGood, GoodEntry, threadVars
    <3>1. op[Main] \in [0..MaxOp -> Entries]
      BY DEF TypeOK, ThreadType
    <3>2. op[Main][i] \in Entries
      BY <3>1
    <3>3. op[Main][i] = Entry(op[Main][i].v, TRUE) /\ op[Main][i].v \in Addr
      BY <3>2 DEF Entry, Entries, Val
    <3>4. op[Main][i].v \in StackRefs(Main)
      BY <3>3 DEF StackRefs
    <3> QED BY <2>1, <2>3, <3>4 DEF ProgramRefs
  <2>7. BlocksTyped'
    <3> SUFFICES ASSUME NEW a \in allocated \cap marked, NEW f \in Fields
                 PROVE  /\ kind[a] # "free"
                        /\ kind[a] = "obj" => Good(refs[a][f], Decl[f])'
                        /\ kind[a] = "objary" => Good(refs[a][f], "OBJ_PARM")'
      BY <2>1, <2>2 DEF BlocksTyped, Good
    <3>1. ASSUME kind[a] \in {"obj", "objary"}, refs[a][f] # Null
          PROVE  refs[a][f] \in allocated \cap marked
      <4>1. refs[a][f] \in BlockRefs(a)
        BY <3>1 DEF BlockRefs, TypeOK, HeapType, Val
      <4> QED BY <2>3, <4>1
    <3> QED BY <2>1, <2>2, <3>1 DEF BlocksTyped, Good
  <2>8. MainThread'
    BY <1>0, <1>1 DEF MainThread, threadVars
  <2>9. \A n \in Markers : mst[n] = "off"
    BY <2>1 DEF Control
  <2>10. Phases' /\ Tricolour'
    BY <2>1, <2>9 DEF Phases, Tricolour
  <2> QED BY <2>4, <2>5, <2>6, <2>7, <2>8, <2>10
<1> QED BY <1>2, <1>3, <1>4 DEF Collector

-----------------------------------------------------------------------------
LEMMA StepSafe ==
  ASSUME Threads = {Main}, TypeOK, Control, SingleThreaded, [Next]_vars
  PROVE  SingleThreaded'
<1>0. MainThread
  BY DEF SingleThreaded
<1>1. CASE Instruction(Main)
  <2>1. CASE \E k \in Kinds : New(Main, k)
    BY <2>1, AllocationSafe
  <2>2. CASE ~ \E k \in Kinds : New(Main, k)
    <3>1. th[Main] = "run" /\ ~ExitThread(Main)
          /\ ~ \E u \in Threads : ProcessAsyncMethodCall(Main, u)
      BY <1>1, <2>2 DEF Instruction, LoadInt, LoadLocal, LoadStatic, StoreLocal, StoreStatic,
         LoadField, StoreField, Pop, Call, Spill, Reload, Return, ProcessAsyncMethodCall,
         ExitThread, Running
    <3>2. gc = "idle"
      BY <1>0, <3>1, Quiet
    <3> QED BY <1>1, <2>2, <3>1, <3>2, MoveSafe, FieldSafe, CallSafe DEF Instruction
  <2> QED BY <2>1, <2>2
<1>2. CASE Allocate(Main)
  BY <1>2, AllocationSafe
<1>3. ~AsyncMethodCall(Main)
  BY <1>0 DEF MainThread, AsyncMethodCall
<1>4. CASE UNCHANGED vars
  <2>1. StaticsGood' /\ FramesGood' /\ StackGood' /\ BlocksTyped' /\ MainThread' /\ Phases'
    BY <1>4, GoodKept
       DEF vars, heapVars, threadVars, gcVars, SingleThreaded, MainThread, Phases
  <2>2. \A n \in Markers : Roots(n)' = Roots(n)
    BY <1>4, RootsKept DEF vars, threadVars, gcVars
  <2>3. Tricolour'
    BY <1>4, <2>2 DEF vars, heapVars, gcVars, SingleThreaded, Tricolour, Pending, GoodWord,
                      Covered, BlockRefs
  <2> QED BY <2>1, <2>3 DEF SingleThreaded
<1> QED BY <1>1, <1>2, <1>3, <1>4, CollectorSafe, MarkerSafe DEF Next

LEMMA Invariant == ASSUME Threads = {Main} PROVE Spec => [](TypeOK /\ Control /\ SingleThreaded)
<1>1. Init => SingleThreaded
  BY InitSafe
<1>2. TypeOK /\ Control /\ SingleThreaded /\ [Next]_vars => SingleThreaded'
  BY StepSafe
<1> QED BY <1>1, <1>2, Typed, PTL DEF Spec

(* While the four mark threads run, and between collections: nothing the     *)
(* program can reach is outside what is marked, being visited or still to be *)
(* found, for any heap and any program of one thread.                       *)
THEOREM MarkingLosesNothing == ASSUME Threads = {Main} PROVE Spec => []SingleThreaded
BY Invariant, PTL

(* In a program of one thread no reference the program holds, or can load   *)
(* from what it holds, is ever to a block that CollectMemory took back:     *)
(* what the sweep frees is out of reach.                                   *)
THEOREM NoUseAfterFree == ASSUME Threads = {Main} PROVE Spec => []NoDangling
<1>1. TypeOK /\ SingleThreaded => NoDangling
  BY NoneDangling
<1> QED BY <1>1, Invariant, PTL

(* Between collections no MARKED_FLAG is left set and marked_memory and the  *)
(* mark threads' work are empty, so the next collection starts from nothing. *)
THEOREM FlagsCleared == ASSUME Threads = {Main} PROVE Spec => []CleanBetween
<1>1. Control /\ SingleThreaded => CleanBetween
  BY DEF Control, SingleThreaded, Phases, CleanBetween
<1> QED BY <1>1, Invariant, PTL

-----------------------------------------------------------------------------
(***************************************************************************)
(* For a program of one thread MemoryManager implements AbstractHeap: every *)
(* instruction moves references the program can reach, every allocation     *)
(* adds an empty block, and the sweep takes back blocks out of reach only.  *)
(* And it takes back all of them that no word reaches.                     *)
(***************************************************************************)
(* What the abstract heap is of a state of MemoryManager. *)
Edges == [a \in Addr |-> IF a \in allocated THEN BlockRefs(a) ELSE {}]
Reach == Heap!Reachable

LEMMA RootsAreAddresses == ProgramRefs \subseteq Addr
BY DEF ProgramRefs, StaticRefs, LocalRefs, StackRefs, HolderRefs

(* Reachable blocks: the references of the program, and what they hold. *)
LEMMA ReachRoots == ProgramRefs \subseteq Reach
BY RootsAreAddresses DEF Reach, Heap!Reachable, Heap!Closed

LEMMA ReachEdges ==
  ASSUME NEW a \in Reach, a \in allocated
  PROVE  BlockRefs(a) \subseteq Reach
<1> SUFFICES ASSUME NEW b \in BlockRefs(a), NEW S \in SUBSET Addr, Heap!Closed(S)
             PROVE  b \in S
  BY DEF Reach, Heap!Reachable, BlockRefs
<1>1. a \in S
  BY DEF Reach, Heap!Reachable
<1> QED BY <1>1 DEF Heap!Closed

(* A step that moves references the program can reach is a Mutate. *)
LEMMA Moves ==
  ASSUME allocated' = allocated, ProgramRefs' \subseteq Reach,
         \A a \in Addr : BlockRefs(a)' \subseteq Addr,
         \A a \in allocated : BlockRefs(a)' # BlockRefs(a) =>
           a \in Reach /\ BlockRefs(a)' \subseteq Reach
  PROVE  Heap!Mutate
BY DEF Heap!Mutate, Reach

(* So is one that leaves the blocks as they are. *)
LEMMA MovesRoots ==
  ASSUME UNCHANGED heapVars, ProgramRefs' \subseteq Reach
  PROVE  Heap!Mutate
BY Moves DEF heapVars, BlockRefs

-----------------------------------------------------------------------------
(* Instructions *)

LEMMA MaxOpNatural == MaxOp \in Nat /\ Main \in Threads
BY MemoryAssumption

(* The roots of a program of one thread. *)
LEMMA RootsOf ==
  ASSUME Threads = {Main}, MainThread
  PROVE  ProgramRefs = StaticRefs \cup LocalRefs(Main) \cup StackRefs(Main)
BY DEF ProgramRefs, HolderRefs, MainThread

LEMMA RootsOfNext ==
  ASSUME Threads = {Main}, MainThread'
  PROVE  ProgramRefs' = StaticRefs' \cup LocalRefs(Main)' \cup StackRefs(Main)'
BY DEF ProgramRefs, HolderRefs, MainThread

LEMMA PushedRefs ==
  ASSUME TypeOK, pos[Main] < MaxOp, NEW e, Push(Main, e)
  PROVE  StackRefs(Main)' \subseteq StackRefs(Main) \cup {a \in Addr : e = Entry(a, TRUE)}
<1>1. op[Main] \in [0..MaxOp -> Entries] /\ pos[Main] \in 0..MaxOp /\ Main \in Threads
  BY MemoryAssumption DEF TypeOK, ThreadType
<1>2. op'[Main] = [op[Main] EXCEPT ![pos[Main]] = e] /\ pos'[Main] = pos[Main] + 1
  BY <1>1 DEF Push, TypeOK, ThreadType
<1> SUFFICES ASSUME NEW a \in Addr, NEW i \in 0..MaxOp, i < pos'[Main], op'[Main][i] = Entry(a, TRUE)
             PROVE  a \in StackRefs(Main) \/ e = Entry(a, TRUE)
  BY DEF StackRefs
<1>3. CASE i = pos[Main]
  BY <1>1, <1>2, <1>3
<1>4. CASE i # pos[Main]
  <2>1. i \in Nat /\ pos[Main] \in Nat
    BY <1>1, MaxOpNatural
  <2>2. i < pos[Main]
    BY <1>2, <1>4, <2>1
  <2>3. op'[Main][i] = op[Main][i]
    BY <1>1, <1>2, <1>4
  <2> QED BY <2>2, <2>3 DEF StackRefs
<1> QED BY <1>3, <1>4

LEMMA PoppedRefs ==
  ASSUME TypeOK, UNCHANGED op, pos'[Main] \in Nat, pos'[Main] <= pos[Main]
  PROVE  StackRefs(Main)' \subseteq StackRefs(Main)
<1>1. pos[Main] \in Nat
  BY MemoryAssumption DEF TypeOK, ThreadType
<1>2. \A i \in 0..MaxOp : i < pos'[Main] => i < pos[Main]
  BY <1>1, MaxOpNatural
<1> QED BY <1>2 DEF StackRefs

(* The reference on top of the stack is one of the program. *)
LEMMA TopReached ==
  ASSUME Threads = {Main}, TypeOK, MainThread, pos[Main] > 0, Top(Main).ref, Top(Main).v # Null
  PROVE  Top(Main).v \in Reach /\ Top(Main).v \in Addr
<1>0. op[Main] \in [0..MaxOp -> Entries] /\ pos[Main] \in 0..MaxOp
  BY MemoryAssumption DEF TypeOK, ThreadType
<1>1. pos[Main] - 1 \in 0..MaxOp /\ pos[Main] - 1 < pos[Main]
  BY <1>0, MaxOpNatural
<1>2. Top(Main) = Entry(Top(Main).v, TRUE) /\ Top(Main).v \in Addr
  BY <1>0, <1>1 DEF Top, Entries, Entry, Val
<1>3. Top(Main).v \in StackRefs(Main)
  BY <1>1, <1>2 DEF StackRefs, Top
<1> QED BY <1>2, <1>3, RootsOf, ReachRoots

(* So are the variables of the current frame. *)
LEMMA CurrentReached ==
  ASSUME Threads = {Main}, TypeOK, MainThread
  PROVE  /\ \A l \in Locals : CurrentFrame(Main).mem[l] \in Addr => CurrentFrame(Main).mem[l] \in Reach
         /\ \A a \in Addr : CurrentFrame(Main).tmp = Entry(a, TRUE) => a \in Reach
<1>1. frames[Main] \in Seq(FrameType) /\ Len(frames[Main]) > 1
  BY MemoryAssumption DEF TypeOK, ThreadType, MainThread
<1>2. Len(frames[Main]) \in DOMAIN frames[Main]
  BY <1>1, LenProperties
<1> QED BY <1>2, RootsOf, ReachRoots DEF LocalRefs, CurrentFrame

(* A frame of the call stack is replaced by one whose references are reached. *)
LEMMA ReplacedRefs ==
  ASSUME Threads = {Main}, TypeOK, MainThread, NEW f,
         frames' = [frames EXCEPT ![Main] = [@ EXCEPT ![Len(frames[Main])] = f]],
         \A a \in Addr : (\E l \in Locals : f.mem[l] = a) \/ f.tmp = Entry(a, TRUE) => a \in Reach
  PROVE  LocalRefs(Main)' \subseteq Reach
<1>1. frames[Main] \in Seq(FrameType) /\ frames'[Main] = [frames[Main] EXCEPT ![Len(frames[Main])] = f]
  BY MemoryAssumption DEF TypeOK, ThreadType
<1>2. DOMAIN frames'[Main] = DOMAIN frames[Main]
  BY <1>1
<1> SUFFICES ASSUME NEW a \in Addr, NEW i \in DOMAIN frames[Main],
                    (\E l \in Locals : frames'[Main][i].mem[l] = a) \/ frames'[Main][i].tmp = Entry(a, TRUE)
             PROVE  a \in Reach
  BY <1>2 DEF LocalRefs
<1>3. CASE i = Len(frames[Main])
  BY <1>1, <1>3
<1>4. CASE i # Len(frames[Main])
  <2>1. frames'[Main][i] = frames[Main][i]
    BY <1>1, <1>4
  <2>2. a \in LocalRefs(Main)
    BY <2>1 DEF LocalRefs
  <2> QED BY <2>2, RootsOf, ReachRoots
<1> QED BY <1>3, <1>4

(* The steps that move values between operand stack, frame and class memory. *)
LEMMA MoveMutates ==
  ASSUME Threads = {Main}, TypeOK, MainThread, MainThread',
         \/ LoadInt(Main) \/ Pop(Main) \/ Reload(Main) \/ Spill(Main)
         \/ \E l \in Locals : LoadLocal(Main, l) \/ StoreLocal(Main, l)
         \/ \E s \in Statics : LoadStatic(Main, s) \/ StoreStatic(Main, s)
  PROVE  Heap!Mutate
<1>0. /\ pos \in [Threads -> 0..MaxOp] /\ pos[Main] \in 0..MaxOp
      /\ frames \in [Threads -> Seq(FrameType)] /\ static \in [Statics -> Val]
      /\ CurrentFrame(Main) \in FrameType /\ Main \in Threads
  BY MaxOpNatural, CurrentTyped, LenProperties DEF TypeOK, ThreadType, HeapType, MainThread
<1>1. UNCHANGED heapVars
  BY DEF LoadInt, Pop, Reload, Spill, LoadLocal, StoreLocal, LoadStatic, StoreStatic
<1>2. SUFFICES StaticRefs' \subseteq Reach /\ LocalRefs(Main)' \subseteq Reach
               /\ StackRefs(Main)' \subseteq Reach
  BY <1>1, MovesRoots, RootsOfNext
<1>3. UNCHANGED static => StaticRefs' \subseteq Reach
  BY RootsOf, ReachRoots DEF StaticRefs
<1>4. UNCHANGED frames => LocalRefs(Main)' \subseteq Reach
  BY RootsOf, ReachRoots DEF LocalRefs
<1>5. ASSUME NEW e, Push(Main, e), pos[Main] < MaxOp,
             \A a \in Addr : e = Entry(a, TRUE) => a \in Reach
      PROVE  StackRefs(Main)' \subseteq Reach
  BY <1>5, PushedRefs, RootsOf, ReachRoots
<1>6. ASSUME UNCHANGED op, pos' = [pos EXCEPT ![Main] = @ - 1], pos[Main] > 0
      PROVE  StackRefs(Main)' \subseteq Reach
  <2>1. pos'[Main] \in Nat /\ pos'[Main] <= pos[Main]
    BY <1>0, <1>6, MaxOpNatural
  <2> QED BY <1>6, <2>1, PoppedRefs, RootsOf, ReachRoots
<1>7. \A a \in Addr : pos[Main] > 0 /\ Top(Main) = Entry(a, TRUE) => a \in Reach
  BY TopReached, MemoryAssumption DEF Entry
<1>8. CASE LoadInt(Main)
  BY <1>3, <1>4, <1>5, <1>8 DEF LoadInt, Entry
<1>9. CASE Pop(Main)
  BY <1>3, <1>4, <1>6, <1>9 DEF Pop
<1>10. CASE Reload(Main)
  BY <1>3, <1>4, <1>5, <1>10, CurrentReached DEF Reload
<1>11. CASE Spill(Main)
  <2> DEFINE f == [CurrentFrame(Main) EXCEPT !.tmp = Top(Main)]
  <2>1. frames' = [frames EXCEPT ![Main] = [@ EXCEPT ![Len(frames[Main])] = f]]
    BY <1>11 DEF Spill, CurrentFrame
  <2>2. f.mem = CurrentFrame(Main).mem /\ f.tmp = Top(Main)
    BY <1>0 DEF FrameType
  <2> HIDE DEF f
  <2>3. \A a \in Addr : (\E l \in Locals : f.mem[l] = a) \/ f.tmp = Entry(a, TRUE) => a \in Reach
    BY <1>7, <1>11, <2>2, CurrentReached DEF Spill
  <2>4. LocalRefs(Main)' \subseteq Reach
    BY <2>1, <2>3, ReplacedRefs
  <2> QED BY <1>3, <1>6, <1>11, <2>4 DEF Spill
<1>12. ASSUME NEW l \in Locals, LoadLocal(Main, l)
       PROVE  StaticRefs' \subseteq Reach /\ LocalRefs(Main)' \subseteq Reach
              /\ StackRefs(Main)' \subseteq Reach
  BY <1>3, <1>4, <1>5, <1>12, CurrentReached DEF LoadLocal, Entry
<1>13. ASSUME NEW l \in Locals, StoreLocal(Main, l)
       PROVE  StaticRefs' \subseteq Reach /\ LocalRefs(Main)' \subseteq Reach
              /\ StackRefs(Main)' \subseteq Reach
  <2> DEFINE f == [CurrentFrame(Main) EXCEPT !.mem[l] = Top(Main).v]
  <2>1. frames' = [frames EXCEPT ![Main] = [@ EXCEPT ![Len(frames[Main])] = f]]
    BY <1>13 DEF StoreLocal, SetLocal, CurrentFrame
  <2>2. f.tmp = CurrentFrame(Main).tmp /\ f.mem = [CurrentFrame(Main).mem EXCEPT ![l] = Top(Main).v]
        /\ CurrentFrame(Main).mem \in [Locals -> Val]
    BY <1>0 DEF FrameType
  <2>3. Top(Main).v \in Addr => Top(Main).v \in Reach
    BY <1>13, TopReached, MemoryAssumption DEF StoreLocal
  <2>4. \A k \in Locals : f.mem[k] = IF k = l THEN Top(Main).v ELSE CurrentFrame(Main).mem[k]
    BY <2>2
  <2> HIDE DEF f
  <2>5. \A a \in Addr : (\E k \in Locals : f.mem[k] = a) \/ f.tmp = Entry(a, TRUE) => a \in Reach
    BY <2>2, <2>3, <2>4, CurrentReached
  <2>6. LocalRefs(Main)' \subseteq Reach
    BY <2>1, <2>5, ReplacedRefs
  <2> QED BY <1>3, <1>6, <1>13, <2>6 DEF StoreLocal
<1>14. ASSUME NEW s \in Statics, LoadStatic(Main, s)
       PROVE  StaticRefs' \subseteq Reach /\ LocalRefs(Main)' \subseteq Reach
              /\ StackRefs(Main)' \subseteq Reach
  <2>1. \A a \in Addr : static[s] = a => a \in Reach
    BY RootsOf, ReachRoots DEF StaticRefs
  <2> QED BY <1>3, <1>4, <1>5, <1>14, <2>1 DEF LoadStatic, Entry
<1>15. ASSUME NEW s \in Statics, StoreStatic(Main, s)
       PROVE  StaticRefs' \subseteq Reach /\ LocalRefs(Main)' \subseteq Reach
              /\ StackRefs(Main)' \subseteq Reach
  <2>1. Top(Main).v \in Addr => Top(Main).v \in Reach
    BY <1>15, TopReached, MemoryAssumption DEF StoreStatic
  <2>2. \A k \in Statics : static'[k] = IF k = s THEN Top(Main).v ELSE static[k]
    BY <1>0, <1>15 DEF StoreStatic
  <2>3. StaticRefs' \subseteq Reach
    BY <2>1, <2>2, RootsOf, ReachRoots DEF StaticRefs
  <2> QED BY <1>4, <1>6, <1>15, <2>3 DEF StoreStatic
<1> QED BY <1>8, <1>9, <1>10, <1>11, <1>12, <1>13, <1>14, <1>15

(* Loading a reference from a block follows it; storing one changes a block *)
(* the program can reach.                                                  *)
LEMMA FieldMutates ==
  ASSUME Threads = {Main}, TypeOK, MainThread, MainThread', NoDangling, NEW f \in Fields,
         LoadField(Main, f) \/ StoreField(Main, f)
  PROVE  Heap!Mutate
<1>b. pos[Main] > 0 /\ Top(Main).ref /\ Top(Main).v # Null
  <2>1. pos[Main] \in Nat /\ (pos[Main] > 0 \/ pos[Main] > 1)
    BY MaxOpNatural DEF TypeOK, ThreadType, LoadField, StoreField
  <2> QED BY <2>1 DEF LoadField, StoreField
<1>a. PICK a \in Addr : a = Top(Main).v
  BY <1>b, TopReached
<1>0. /\ pos[Main] > 0 /\ a \in Reach /\ a \in Addr /\ kind[a] \notin {"bytes", "free"}
      /\ UNCHANGED <<kind, allocated, static, frames>>
  BY <1>a, <1>b, TopReached DEF LoadField, StoreField, heapVars
<1>1. /\ op \in [Threads -> [0..MaxOp -> Entries]] /\ pos \in [Threads -> 0..MaxOp]
      /\ refs \in [Addr -> [Fields -> Val]] /\ kind[a] \in BlockKinds \cup {"free"}
  BY <1>0 DEF TypeOK, ThreadType, HeapType
<1>2. a \in allocated
  <2>1. a \in ProgramRefs
    <3>1. op[Main] \in [0..MaxOp -> Entries] /\ pos[Main] \in 0..MaxOp
      BY <1>1, MaxOpNatural
    <3>2. pos[Main] - 1 \in 0..MaxOp /\ pos[Main] - 1 < pos[Main]
      BY <1>0, <3>1, MaxOpNatural
    <3>3. Top(Main) = Entry(a, TRUE)
      <4>1. Top(Main) \in Entries
        BY <3>1, <3>2 DEF Top
      <4>2. Top(Main).ref
        BY DEF LoadField, StoreField
      <4> QED BY <1>a, <4>1, <4>2 DEF Entries, Entry
    <3>4. a \in StackRefs(Main)
      BY <1>0, <3>2, <3>3 DEF StackRefs, Top
    <3> QED BY <3>4, RootsOf
  <2> QED BY <2>1 DEF NoDangling
<1>3. StaticRefs' \subseteq Reach /\ LocalRefs(Main)' \subseteq Reach
  BY <1>0, RootsOf, ReachRoots DEF StaticRefs, LocalRefs
<1>4. CASE LoadField(Main, f)
  <2>1. kind[a] # "intary" /\ refs[a][f] \in Addr => refs[a][f] \in Reach
    <3>1. ASSUME kind[a] # "intary", refs[a][f] \in Addr PROVE refs[a][f] \in BlockRefs(a)
      BY <1>0, <1>1, <3>1 DEF BlockRefs, BlockKinds
    <3> QED BY <1>0, <1>2, <3>1, ReachEdges
  <2>2. StackRefs(Main)' \subseteq Reach
    <3>1. op'[Main] = [op[Main] EXCEPT ![pos[Main] - 1] = Entry(refs[a][f], kind[a] # "intary")]
          /\ UNCHANGED pos
      BY <1>a, <1>1, <1>4, MaxOpNatural DEF LoadField
    <3>2. op[Main] \in [0..MaxOp -> Entries] /\ pos[Main] - 1 \in 0..MaxOp
      BY <1>0, <1>1, MaxOpNatural
    <3> SUFFICES ASSUME NEW b \in Addr, NEW i \in 0..MaxOp, i < pos[Main], op'[Main][i] = Entry(b, TRUE)
                 PROVE  b \in Reach
      BY <3>1 DEF StackRefs
    <3>3. CASE i = pos[Main] - 1
      <4>1. op'[Main][i] = Entry(refs[a][f], kind[a] # "intary")
        BY <3>1, <3>2, <3>3
      <4>2. Entry(refs[a][f], kind[a] # "intary") = Entry(b, TRUE)
        BY <4>1
      <4>3. refs[a][f] = b
        BY <4>2 DEF Entry
      <4>4. kind[a] # "intary"
        BY <4>2 DEF Entry
      <4> QED BY <2>1, <4>3, <4>4
    <3>4. CASE i # pos[Main] - 1
      <4>1. op'[Main][i] = op[Main][i]
        BY <3>1, <3>2, <3>4
      <4>2. b \in StackRefs(Main)
        BY <4>1 DEF StackRefs
      <4> QED BY <4>2, RootsOf, ReachRoots
    <3> QED BY <3>3, <3>4
  <2>3. UNCHANGED heapVars
    BY <1>4 DEF LoadField
  <2> QED BY <1>3, <2>2, <2>3, MovesRoots, RootsOfNext
<1>5. CASE StoreField(Main, f)
  <2>e. PICK e : e = op[Main][pos[Main] - 2]
    OBVIOUS
  <2>0. pos[Main] > 1 /\ pos' = [pos EXCEPT ![Main] = @ - 2] /\ UNCHANGED op
        /\ refs' = [refs EXCEPT ![a][f] = e.v] /\ Storable(e, a, f)
    BY <1>a, <1>5, <2>e DEF StoreField
  <2>1. pos[Main] \in 0..MaxOp /\ pos[Main] - 2 \in 0..MaxOp /\ pos[Main] - 2 < pos[Main]
        /\ pos'[Main] = pos[Main] - 2 /\ e \in Entries
    BY <1>1, <2>e, <2>0, MaxOpNatural
  <2>2. StackRefs(Main)' \subseteq Reach
    BY <2>0, <2>1, PoppedRefs, RootsOf, ReachRoots
  <2>3. e.ref /\ e.v \in Addr => e.v \in Reach
    <3>1. ASSUME e.ref, e.v \in Addr PROVE e.v \in StackRefs(Main)
      <4>1. e = Entry(e.v, TRUE)
        BY <2>1, <3>1 DEF Entries, Entry
      <4> QED BY <2>e, <2>1, <3>1, <4>1 DEF StackRefs
    <3> QED BY <3>1, RootsOf, ReachRoots
  <2>4. \A b \in Addr : refs'[b] = IF b = a THEN [refs[a] EXCEPT ![f] = e.v] ELSE refs[b]
    BY <1>0, <1>1, <2>0
  <2>5. ASSUME NEW b \in allocated, BlockRefs(b)' # BlockRefs(b)
        PROVE  b \in Reach /\ BlockRefs(b)' \subseteq Reach
    <3>1. b = a /\ kind[a] # "intary"
      BY <1>0, <2>4, <2>5 DEF BlockRefs, TypeOK, HeapType
    <3>2. e.ref
      BY <2>0, <3>1 DEF Storable
    <3>3. /\ \A g \in Fields : refs'[a][g] = IF g = f THEN e.v ELSE refs[a][g]
          /\ kind'[a] = kind[a]
      BY <1>0, <1>1, <2>4
    <3>4. BlockRefs(a) \subseteq Reach
      BY <1>0, <1>2, ReachEdges
    <3>5. ASSUME NEW c \in BlockRefs(a)' PROVE c \in Reach
      <4>1. c \in Addr /\ kind[a] \in {"obj", "objary"}
        BY <3>3, <3>5 DEF BlockRefs
      <4>2. PICK g \in Fields : refs'[a][g] = c
        BY <3>5 DEF BlockRefs
      <4>3. CASE g = f
        BY <2>3, <3>2, <3>3, <4>1, <4>2, <4>3
      <4>4. CASE g # f
        <5>1. c \in BlockRefs(a)
          BY <3>3, <4>1, <4>2, <4>4 DEF BlockRefs
        <5> QED BY <3>4, <5>1
      <4> QED BY <4>3, <4>4
    <3> QED BY <1>0, <3>1, <3>5
  <2>6. \A b \in Addr : BlockRefs(b)' \subseteq Addr
    BY DEF BlockRefs
  <2> QED BY <1>0, <1>3, <2>2, <2>5, <2>6, Moves, RootsOfNext
<1> QED BY <1>4, <1>5

LEMMA CallMutates ==
  ASSUME Threads = {Main}, TypeOK, MainThread, MainThread',
         (\E isJit \in BOOLEAN : Call(Main, isJit)) \/ Return(Main)
  PROVE  Heap!Mutate
<1>0. frames[Main] \in Seq(FrameType) /\ Len(frames[Main]) \in Nat /\ Len(frames[Main]) > 1
  BY MemoryAssumption, LenProperties DEF TypeOK, ThreadType, MainThread
<1>1. UNCHANGED heapVars /\ UNCHANGED <<static, op>>
  BY DEF Call, Return
<1>2. StaticRefs' \subseteq Reach
  BY <1>1, RootsOf, ReachRoots DEF StaticRefs
<1>3. LocalRefs(Main) \subseteq Reach /\ StackRefs(Main) \subseteq Reach
  BY RootsOf, ReachRoots
<1>4. ASSUME NEW isJit \in BOOLEAN, Call(Main, isJit) PROVE Heap!Mutate
  <2>1. pos[Main] \in Nat /\ pos[Main] > 0 /\ pos'[Main] = pos[Main] - 1
    BY <1>4, MaxOpNatural DEF Call, TypeOK, ThreadType
  <2>2. StackRefs(Main)' \subseteq Reach
    BY <1>1, <1>3, <2>1, PoppedRefs
  <2>3. PICK n : n = NewFrame(Top(Main).v, isJit)
    OBVIOUS
  <2>4. frames'[Main] = Append(frames[Main], n)
    BY <1>4, <2>3, MaxOpNatural DEF Call, TypeOK, ThreadType
  <2>5. \A a \in Addr : (\E l \in Locals : n.mem[l] = a) \/ n.tmp = Entry(a, TRUE) => a \in Reach
    <3>1. n.tmp = Entry(Null, FALSE)
          /\ \A l \in Locals : n.mem[l] \in {Top(Main).v, Null}
      BY <2>3 DEF NewFrame
    <3>2. Null \notin Addr
      BY MemoryAssumption
    <3>3. Top(Main).v # Null => Top(Main).v \in Reach
      BY <1>4, <2>1, TopReached DEF Call
    <3> QED BY <3>1, <3>2, <3>3 DEF Entry
  <2>6. LocalRefs(Main)' \subseteq Reach
    <3> SUFFICES ASSUME NEW a \in Addr, NEW i \in DOMAIN frames'[Main],
                        (\E l \in Locals : frames'[Main][i].mem[l] = a)
                          \/ frames'[Main][i].tmp = Entry(a, TRUE)
                 PROVE  a \in Reach
      BY DEF LocalRefs
    <3>1. DOMAIN frames'[Main] = 1..(Len(frames[Main]) + 1)
          /\ \A j \in 1..(Len(frames[Main]) + 1) :
               frames'[Main][j] = IF j = Len(frames[Main]) + 1 THEN n ELSE frames[Main][j]
      BY <1>0, <2>4
    <3>2. CASE i = Len(frames[Main]) + 1
      BY <2>5, <3>1, <3>2
    <3>3. CASE i # Len(frames[Main]) + 1
      <4>1. i \in DOMAIN frames[Main] /\ frames'[Main][i] = frames[Main][i]
        BY <1>0, <3>1, <3>3
      <4>2. a \in LocalRefs(Main)
        BY <4>1 DEF LocalRefs
      <4> QED BY <1>3, <4>2
    <3> QED BY <3>2, <3>3
  <2> QED BY <1>1, <1>2, <2>2, <2>6, MovesRoots, RootsOfNext
<1>5. CASE Return(Main)
  <2>1. frames'[Main] = SubSeq(frames[Main], 1, Len(frames[Main]) - 1) /\ UNCHANGED pos
    BY <1>5, MaxOpNatural DEF Return, TypeOK, ThreadType
  <2>2. \A i \in DOMAIN frames'[Main] :
          i \in DOMAIN frames[Main] /\ frames'[Main][i] = frames[Main][i]
    BY <1>0, <2>1
  <2>3. LocalRefs(Main)' \subseteq LocalRefs(Main)
    BY <2>2 DEF LocalRefs
  <2>4. StackRefs(Main)' = StackRefs(Main)
    BY <1>1, <2>1 DEF StackRefs
  <2> QED BY <1>1, <1>2, <1>3, <2>3, <2>4, MovesRoots, RootsOfNext
<1> QED BY <1>4, <1>5

-----------------------------------------------------------------------------
(* Allocation *)

LEMMA RootsStay ==
  ASSUME Threads = {Main}, MainThread, MainThread', UNCHANGED <<static, op, pos, frames>>
  PROVE  ProgramRefs' = ProgramRefs
<1>1. StaticRefs' = StaticRefs
  BY DEF StaticRefs
<1>2. LocalRefs(Main)' = LocalRefs(Main)
  BY DEF LocalRefs
<1>3. StackRefs(Main)' = StackRefs(Main)
  BY DEF StackRefs
<1> QED BY <1>1, <1>2, <1>3, RootsOf, RootsOfNext

(* Nothing of the abstract heap changes while the program's references and  *)
(* the blocks recorded stay as they are.                                   *)
LEMMA Stutters ==
  ASSUME Threads = {Main}, MainThread, MainThread',
         UNCHANGED <<allocated, static, op, pos, frames>>,
         \A a \in allocated : BlockRefs(a)' = BlockRefs(a)
  PROVE  UNCHANGED Heap!vars
<1>1. ProgramRefs' = ProgramRefs
  BY RootsStay
<1> QED BY <1>1 DEF Heap!vars

LEMMA PushedRefsKept ==
  ASSUME TypeOK, pos[Main] < MaxOp, NEW a \in Addr, Push(Main, Entry(a, TRUE))
  PROVE  StackRefs(Main) \cup {a} \subseteq StackRefs(Main)'
<1>1. op[Main] \in [0..MaxOp -> Entries] /\ pos[Main] \in 0..MaxOp /\ pos[Main] \in Nat
  BY MaxOpNatural DEF TypeOK, ThreadType
<1>2. op'[Main] = [op[Main] EXCEPT ![pos[Main]] = Entry(a, TRUE)] /\ pos'[Main] = pos[Main] + 1
  BY <1>1, MaxOpNatural DEF Push, TypeOK, ThreadType
<1>3. a \in StackRefs(Main)'
  <2>1. op'[Main][pos[Main]] = Entry(a, TRUE)
    BY <1>1, <1>2
  <2>2. pos[Main] < pos'[Main]
    BY <1>1, <1>2
  <2> QED BY <1>1, <2>1, <2>2 DEF StackRefs
<1>4. ASSUME NEW b \in StackRefs(Main) PROVE b \in StackRefs(Main)'
  <2>1. PICK i \in 0..MaxOp : i < pos[Main] /\ op[Main][i] = Entry(b, TRUE)
    BY <1>4 DEF StackRefs
  <2>2. i \in Nat /\ i < pos'[Main] /\ i # pos[Main]
    BY <1>1, <1>2, <2>1, MaxOpNatural
  <2>3. op'[Main][i] = op[Main][i]
    BY <1>1, <1>2, <2>2
  <2> QED BY <2>1, <2>2, <2>3, <1>4 DEF StackRefs
<1> QED BY <1>3, <1>4

LEMMA AllocationMaps ==
  ASSUME Threads = {Main}, TypeOK, Control, MainThread, MainThread',
         (\E k \in Kinds : New(Main, k)) \/ Allocate(Main)
  PROVE  Heap!Allocate \/ UNCHANGED Heap!vars
<1>1. ASSUME NEW k \in Kinds, New(Main, k) PROVE UNCHANGED Heap!vars
  BY <1>1, Stutters DEF New, heapVars, BlockRefs
<1>2. CASE GetBlock(Main)
  <2>1. PICK b \in Addr \ (allocated \cup InFlight) :
          /\ kind' = [kind EXCEPT ![b] = block[Main].kind]
          /\ refs' = [refs EXCEPT ![b] = [f \in Fields |-> Null]]
    BY <1>2 DEF GetBlock
  <2>2. \A a \in allocated : kind'[a] = kind[a] /\ refs'[a] = refs[a]
    BY <2>1 DEF TypeOK, HeapType
  <2>3. \A a \in allocated : BlockRefs(a)' = BlockRefs(a)
    BY <2>2 DEF BlockRefs
  <2> QED BY <1>2, <2>3, Stutters DEF GetBlock
<1>3. CASE Record(Main)
  <2>1. PICK b : b = block[Main].a
    OBVIOUS
  <2>2. /\ th[Main] = "allocating" /\ b # Null /\ allocated' = allocated \cup {b}
        /\ Push(Main, Entry(b, TRUE)) /\ UNCHANGED <<kind, refs, static, frames>>
    BY <1>3, <2>1 DEF Record
  <2>3. b \in Addr /\ b \notin allocated /\ \A f \in Fields : refs[b][f] = Null
    BY <2>1, <2>2, MaxOpNatural DEF MainThread, TypeOK, ThreadType, Val
  <2>4. pos[Main] < MaxOp
    BY <2>2, MaxOpNatural DEF Control
  <2>5. StackRefs(Main)' = StackRefs(Main) \cup {b}
    <3>1. \A a \in Addr : Entry(b, TRUE) = Entry(a, TRUE) => a = b
      BY DEF Entry
    <3> QED BY <2>2, <2>3, <2>4, <3>1, PushedRefs, PushedRefsKept
  <2>6. ProgramRefs' = ProgramRefs \cup {b}
    BY <2>2, <2>5, RootsOf, RootsOfNext DEF StaticRefs, LocalRefs
  <2>7. BlockRefs(b)' = {} /\ \A a \in Addr : BlockRefs(a)' = BlockRefs(a)
    BY <2>2, <2>3, MemoryAssumption DEF BlockRefs
  <2> QED BY <2>2, <2>3, <2>6, <2>7 DEF Heap!Allocate
<1>4. CASE JoinCollector(Main)
  BY <1>4, Stutters DEF JoinCollector, heapVars, BlockRefs
<1> QED BY <1>1, <1>2, <1>3, <1>4 DEF Allocate

-----------------------------------------------------------------------------
(* Collection *)

(* The marked blocks hold all the program can reach: what the sweep takes    *)
(* back is out of reach.                                                   *)
LEMMA SweepReclaims ==
  ASSUME Threads = {Main}, TypeOK, Control, SingleThreaded, Sweep, MainThread'
  PROVE  Heap!Reclaim
<1>0. gc = "sweep" /\ MainThread /\ allocated' = allocated \cap marked
      /\ UNCHANGED <<static, op, pos, frames>>
  BY DEF Sweep, threadVars, SingleThreaded
<1>1. ProgramRefs' = ProgramRefs
  BY <1>0, RootsStay
<1>2. ProgramRefs \subseteq marked /\ \A a \in marked : BlockRefs(a) \subseteq marked
  BY <1>0, MarkedComplete, NoneDangling DEF NoDangling
<1>3. marked \in SUBSET Addr
  BY DEF TypeOK, CollectorType
<1>4. Heap!Closed(marked)
  BY <1>2, <1>3 DEF Heap!Closed
<1>5. Heap!Reachable \subseteq marked
  BY <1>3, <1>4 DEF Heap!Reachable
<1>6. \A a \in allocated' : kind'[a] = kind[a] /\ refs'[a] = refs[a]
  BY <1>0 DEF Sweep, TypeOK, HeapType
<1>7. \A a \in allocated' : BlockRefs(a)' = BlockRefs(a)
  BY <1>6 DEF BlockRefs
<1>8. allocated \subseteq Addr
  BY DEF TypeOK, HeapType
<1> QED BY <1>0, <1>1, <1>5, <1>7, <1>8 DEF Heap!Reclaim

LEMMA CollectorMaps ==
  ASSUME Threads = {Main}, TypeOK, Control, SingleThreaded, MainThread',
         Collector \/ \E m \in Markers : Marker(m)
  PROVE  Heap!Reclaim \/ UNCHANGED Heap!vars
<1>0. MainThread
  BY DEF SingleThreaded
<1>1. CASE Sweep
  BY <1>1, SweepReclaims
<1>2. CASE Sort \/ JoinMarkers \/ LockAllocated
  BY <1>0, <1>2, Stutters DEF Sort, JoinMarkers, LockAllocated, threadVars, heapVars, BlockRefs
<1>3. ASSUME NEW m \in Markers, Marker(m) PROVE UNCHANGED Heap!vars
  <2>1. UNCHANGED <<heapVars, static, threadVars>>
    BY <1>3 DEF Marker, ReadRoots, VisitMemory, VisitValidMemory, Mark, MarkDone
  <2> QED BY <1>0, <2>1, Stutters DEF threadVars, heapVars, BlockRefs
<1> QED BY <1>1, <1>2, <1>3 DEF Collector

-----------------------------------------------------------------------------
LEMMA StepMaps ==
  ASSUME Threads = {Main}, TypeOK, Control, SingleThreaded, SingleThreaded', [Next]_vars
  PROVE  [Heap!Next]_Heap!vars
<1>0. MainThread /\ MainThread' /\ NoDangling
  BY NoneDangling DEF SingleThreaded
<1>1. CASE Instruction(Main)
  <2>1. CASE \E k \in Kinds : New(Main, k)
    BY <1>0, <2>1, AllocationMaps DEF Heap!Next
  <2>2. CASE ~ \E k \in Kinds : New(Main, k)
    <3>1. ~ExitThread(Main) /\ ~ \E u \in Threads : ProcessAsyncMethodCall(Main, u)
      BY <1>0, <2>2 DEF ExitThread, ProcessAsyncMethodCall, Running
    <3>2. Heap!Mutate
      BY <1>0, <1>1, <2>2, <3>1, MoveMutates, FieldMutates, CallMutates DEF Instruction
    <3> QED BY <3>2 DEF Heap!Next
  <2> QED BY <2>1, <2>2
<1>2. CASE Allocate(Main)
  BY <1>0, <1>2, AllocationMaps DEF Heap!Next
<1>3. ~AsyncMethodCall(Main)
  BY <1>0 DEF MainThread, AsyncMethodCall
<1>4. CASE Collector \/ \E m \in Markers : Marker(m)
  BY <1>0, <1>4, CollectorMaps DEF Heap!Next
<1>5. CASE UNCHANGED vars
  BY <1>0, <1>5, Stutters DEF vars, heapVars, threadVars, BlockRefs
<1> QED BY <1>1, <1>2, <1>3, <1>4, <1>5 DEF Next

LEMMA InitMaps == ASSUME Threads = {Main}, Init PROVE Heap!Init
<1>1. MainThread
  BY InitSafe DEF SingleThreaded
<1>2. StaticRefs = {} /\ StackRefs(Main) = {}
  <2>1. Null \notin Addr /\ pos[Main] = 0 /\ \A s \in Statics : static[s] = Null
    BY MemoryAssumption DEF Init
  <2>2. \A i \in 0..MaxOp : ~ (i < 0)
    BY MaxOpNatural
  <2> QED BY <2>1, <2>2 DEF StaticRefs, StackRefs
<1>3. LocalRefs(Main) = {}
  <2>1. frames[Main] = <<NewFrame(Null, FALSE), NewFrame(Null, FALSE)>>
    BY MemoryAssumption DEF Init
  <2>2. \A i \in DOMAIN frames[Main] : frames[Main][i] = NewFrame(Null, FALSE)
    <3>1. PICK f : f = NewFrame(Null, FALSE)
      OBVIOUS
    <3>2. \A i \in DOMAIN <<f, f>> : <<f, f>>[i] = f
      OBVIOUS
    <3> QED BY <2>1, <3>1, <3>2
  <2> QED BY <2>2, MemoryAssumption DEF LocalRefs, NewFrame, Entry
<1> QED BY <1>1, <1>2, <1>3, RootsOf DEF Heap!Init, Init

(* In a program of one thread the collector is a heap that keeps what the    *)
(* program can reach: instructions change only what it reaches, a new block  *)
(* was not in use and refers to nothing, CollectMemory takes back nothing    *)
(* within reach and changes no block it keeps.                              *)
THEOREM HeapImplemented == ASSUME Threads = {Main} PROVE Spec => HeapSpec
<1>1. Init => Heap!Init
  BY InitMaps
<1>2. TypeOK /\ Control /\ SingleThreaded /\ SingleThreaded' /\ [Next]_vars
        => [Heap!Next]_Heap!vars
  BY StepMaps
<1> QED BY <1>1, <1>2, Invariant, PTL DEF Spec, HeapSpec, Heap!Spec

-----------------------------------------------------------------------------
(* The blocks a collection keeps *)

(* Closure holds what it starts from and is closed under every word of its  *)
(* blocks.                                                                 *)
LEMMA ClosureHolds ==
  ASSUME NEW S, allocated \subseteq Addr
  PROVE  /\ S \cap allocated \subseteq Closure(S)
         /\ \A a \in Closure(S) : \A f \in Fields :
              refs[a][f] \in allocated => refs[a][f] \in Closure(S)
<1>1. S \cap allocated \subseteq Closure(S)
  BY DEF Closure
<1>2. ASSUME NEW a \in Closure(S), NEW f \in Fields, refs[a][f] \in allocated
      PROVE  refs[a][f] \in Closure(S)
  <2> SUFFICES ASSUME NEW T \in SUBSET allocated,
                      \A b \in T : {refs[b][g] : g \in Fields} \cap allocated \subseteq T,
                      S \cap allocated \subseteq T
               PROVE  refs[a][f] \in T
    BY <1>2 DEF Closure
  <2>1. a \in T
    BY DEF Closure
  <2> QED BY <1>2, <2>1
<1> QED BY <1>1, <1>2

(* The words a mark thread starts from are root words. *)
LEMMA RootsBounded ==
  ASSUME Threads = {Main}, TypeOK, owner = Main, NEW m \in Markers, NEW w \in Roots(m),
         w.a \in allocated
  PROVE  w.a \in RootWords
<1>0. w.a \in Addr
  BY DEF TypeOK, HeapType
<1>1. \A mem : \A v \in Variables(mem) : \E x \in DOMAIN mem : v.a = mem[x]
  BY DEF Variables, NotNull
<1>2. \A mem, how : \A v \in Elements(mem, how) : \E x \in DOMAIN mem : v.a = mem[x]
  BY DEF Elements, NotNull
<1>3. ASSUME NEW i \in DOMAIN frames[Main], w \in Variables(frames[Main][i].mem)
      PROVE  w.a \in RootWords
  <2>1. DOMAIN frames[Main][i].mem = Locals
    <3>1. DOMAIN frames[Main] = 1..Len(frames[Main])
      BY MaxOpNatural, LenProperties DEF TypeOK, ThreadType
    <3> QED BY <1>3, <3>1, FrameTyped
  <2>2. PICK l \in Locals : w.a = frames[Main][i].mem[l]
    BY <1>1, <1>3, <2>1
  <2> QED BY <1>0, <2>2 DEF RootWords
<1>4. CASE m = "static"
  <2>1. PICK s \in Statics : w.a = static[s]
    BY <1>1, <1>4 DEF Roots, TypeOK, HeapType
  <2> QED BY <1>0, <2>1 DEF RootWords, StaticRefs
<1>5. CASE m = "stack"
  <2>1. PICK mem : mem = [j \in 0..pos[Main] |-> op[Main][j].v]
    OBVIOUS
  <2>2. w \in Elements(mem, "raw")
    BY <1>5, <2>1 DEF Roots, StackWords
  <2>3. PICK i \in DOMAIN mem : w.a = mem[i]
    BY <1>2, <2>2
  <2>4. i \in 0..pos[Main] /\ w.a = op[Main][i].v
    BY <2>1, <2>3
  <2> QED BY <1>0, <2>4 DEF RootWords
<1>6. CASE m = "pda"
  <2>1. PICK i \in PdaFrames(Main) : w \in Variables(frames[Main][i].mem)
    BY <1>6 DEF Roots, FrameWords
  <2> QED BY <1>3, <2>1 DEF PdaFrames
<1>7. CASE m = "jit"
  <2>1. w \in FrameWords(Main, JitFrames(Main)) \/ w \in TempWords(Main)
    BY <1>7 DEF Roots
  <2>2. CASE w \in FrameWords(Main, JitFrames(Main))
    <3>1. PICK i \in JitFrames(Main) : w \in Variables(frames[Main][i].mem)
      BY <2>2 DEF FrameWords
    <3> QED BY <1>3, <3>1 DEF JitFrames
  <2>3. CASE w \in TempWords(Main)
    <3>1. PICK i \in JitFrames(Main) :
            w \in Elements([v \in {"tmp"} |-> frames[Main][i].tmp.v], "raw")
      BY <2>3 DEF TempWords
    <3>2. w.a = frames[Main][i].tmp.v /\ i \in DOMAIN frames[Main]
      BY <1>2, <3>1 DEF JitFrames
    <3> QED BY <1>0, <3>2 DEF RootWords
  <2> QED BY <2>1, <2>2, <2>3
<1> QED BY <1>4, <1>5, <1>6, <1>7 DEF Markers

(* What a marked block adds to the visit are words it holds. *)
LEMMA ContentsBounded ==
  ASSUME TypeOK, NEW w \in Words, NEW c \in Contents(w)
  PROVE  \E f \in Fields : c.a = refs[w.a][f]
<1>1. DOMAIN refs[w.a] = Fields
  BY DEF TypeOK, HeapType, Words
<1>2. c \in Variables(refs[w.a]) \/ \E how : c \in Elements(refs[w.a], how)
  BY DEF Contents
<1>3. CASE c \in Variables(refs[w.a])
  BY <1>1, <1>3 DEF Variables, NotNull
<1>4. CASE \E how : c \in Elements(refs[w.a], how)
  BY <1>1, <1>4 DEF Elements, NotNull
<1> QED BY <1>2, <1>3, <1>4

(* During a collection neither the blocks nor the roots change. *)
LEMMA ConservativeKept ==
  ASSUME UNCHANGED <<heapVars, static, threadVars, owner>>
  PROVE  Conservative' = Conservative
<1>1. RootWords' = RootWords
  BY DEF threadVars, RootWords, StaticRefs
<1> QED BY <1>1 DEF heapVars, Conservative, Closure

LEMMA MarkerBounded ==
  ASSUME Threads = {Main}, TypeOK, Control, SingleThreaded, OnlyReached, NEW m \in Markers, Marker(m)
  PROVE  OnlyReached'
<1>0. /\ mst[m] # "off" /\ gc = "mark" /\ owner = Main /\ unsorted = {} /\ allocated \subseteq Addr
      /\ work \in [Markers -> SUBSET Words] /\ cur \in [Markers -> Words \cup {NoWord}]
  BY DEF Marker, ReadRoots, VisitMemory, VisitValidMemory, Mark, MarkDone, Control,
         SingleThreaded, Phases, TypeOK, HeapType, CollectorType
<1>1. UNCHANGED <<heapVars, static, threadVars, gc, owner>>
  BY DEF Marker, ReadRoots, VisitMemory, VisitValidMemory, Mark, MarkDone
<1>2. Conservative' = Conservative /\ allocated' = allocated /\ gc' = "mark"
  BY <1>0, <1>1, ConservativeKept DEF heapVars
<1>3. flagged \subseteq Conservative
      /\ \A n \in Markers : \A w \in Pending(n) : w.a \in allocated => w.a \in Conservative
  BY <1>0 DEF OnlyReached
<1>4. NoWord.a \notin allocated
  BY <1>0, MemoryAssumption DEF NoWord
<1>5. ASSUME flagged' \subseteq Conservative,
             \A n \in Markers : \A w \in Pending(n)' :
               w.a \in allocated => w.a \in Conservative
      PROVE  OnlyReached'
  BY <1>2, <1>5 DEF OnlyReached
<1>6. CASE ReadRoots(m)
  <2>1. work' = [work EXCEPT ![m] = Roots(m)] /\ UNCHANGED <<flagged, cur>>
    BY <1>6 DEF ReadRoots
  <2>2. \A w \in Roots(m) : w.a \in allocated => w.a \in Conservative
    BY <1>0, RootsBounded, ClosureHolds DEF Conservative
  <2>3. \A n \in Markers : Pending(n)' \subseteq Pending(n) \cup Roots(m)
    BY <1>0, <2>1 DEF Pending
  <2> QED BY <1>3, <1>5, <2>1, <2>2, <2>3
<1>7. CASE VisitMemory(m) \/ VisitValidMemory(m)
  <2>1. PICK w \in work[m] : /\ cur' \in {cur, [cur EXCEPT ![m] = w]}
                             /\ work' = [work EXCEPT ![m] = @ \ {w}]
                             /\ flagged' = flagged
    BY <1>7 DEF VisitMemory, VisitValidMemory, TestFlag
  <2>2. \A n \in Markers : Pending(n)' \subseteq Pending(n)
    BY <1>0, <2>1 DEF Pending
  <2> QED BY <1>3, <1>5, <2>1, <2>2
<1>8. CASE Mark(m)
  <2>1. PICK w : w = cur[m]
    OBVIOUS
  <2>2. /\ mst[m] \in {"mark", "markvalid"} /\ flagged' = flagged \cup {w.a}
        /\ cur' = [cur EXCEPT ![m] = NoWord]
        /\ work' = [work EXCEPT ![m] = @ \cup Contents(w)]
    BY <1>0, <1>8, <2>1 DEF Mark, Scans
  <2>3. w \in Words /\ w.a \in allocated /\ w \in Pending(m)
    BY <2>1, <2>2 DEF Control, SingleThreaded, Phases, Pending
  <2>4. w.a \in Conservative
    BY <1>3, <2>3
  <2>5. ASSUME NEW c \in Contents(w), c.a \in allocated PROVE c.a \in Conservative
    <3>1. PICK f \in Fields : c.a = refs[w.a][f]
      BY <2>3, ContentsBounded
    <3> QED BY <1>0, <2>4, <2>5, <3>1, ClosureHolds DEF Conservative
  <2>6. \A n \in Markers : Pending(n)' \subseteq Pending(n) \cup Contents(w) \cup {NoWord}
    BY <1>0, <2>2 DEF Pending
  <2> QED BY <1>3, <1>4, <1>5, <2>2, <2>4, <2>5, <2>6
<1>9. CASE MarkDone(m)
  BY <1>3, <1>5, <1>9 DEF MarkDone, Pending
<1> QED BY <1>6, <1>7, <1>8, <1>9 DEF Marker

LEMMA StepBounded ==
  ASSUME Threads = {Main}, TypeOK, Control, SingleThreaded, OnlyReached, [Next]_vars
  PROVE  OnlyReached'
<1>1. ASSUME gc' \notin {"mark", "lock", "sweep"} PROVE OnlyReached'
  BY <1>1 DEF OnlyReached
<1>2. CASE Instruction(Main) \/ Allocate(Main)
  <2>1. gc \in {"idle", "done"}
    BY <1>2 DEF Instruction, LoadInt, LoadLocal, LoadStatic, StoreLocal, StoreStatic,
         LoadField, StoreField, Pop, Call, Spill, Reload, Return, ProcessAsyncMethodCall,
         ExitThread, New, Allocate, GetBlock, Record, JoinCollector, Running, Control
  <2>2. gc' \in {gc, "sort", "idle"}
    BY <1>2 DEF Instruction, LoadInt, LoadLocal, LoadStatic, StoreLocal, StoreStatic,
         LoadField, StoreField, Pop, Call, Spill, Reload, Return, ProcessAsyncMethodCall,
         ExitThread, New, Allocate, GetBlock, Record, JoinCollector, gcVars
  <2> QED BY <1>1, <2>1, <2>2
<1>3. ~AsyncMethodCall(Main)
  BY DEF SingleThreaded, MainThread, AsyncMethodCall
<1>4. CASE Sort
  <2>1. flagged' = {} /\ \A m \in Markers : Pending(m)' = {NoWord}
    BY <1>4 DEF Sort, Control, SingleThreaded, Phases, Pending
  <2>2. NoWord.a \notin allocated'
    BY <1>4, MemoryAssumption DEF Sort, NoWord, TypeOK, HeapType
  <2> QED BY <2>1, <2>2 DEF OnlyReached
<1>5. CASE JoinMarkers \/ LockAllocated
  <2>1. gc \in {"mark", "lock"} /\ UNCHANGED <<heapVars, static, threadVars, owner, flagged, work, cur>>
    BY <1>5 DEF JoinMarkers, LockAllocated
  <2>2. Conservative' = Conservative
    BY <2>1, ConservativeKept
  <2> QED BY <2>1, <2>2 DEF OnlyReached, Pending, heapVars
<1>6. CASE Sweep
  BY <1>1, <1>6 DEF Sweep
<1>7. ASSUME NEW m \in Markers, Marker(m) PROVE OnlyReached'
  BY <1>7, MarkerBounded
<1>8. CASE UNCHANGED vars
  <2>1. Conservative' = Conservative
    BY <1>8, ConservativeKept DEF vars, gcVars
  <2> QED BY <1>8, <2>1 DEF OnlyReached, Pending, vars, heapVars, gcVars
<1> QED BY <1>2, <1>3, <1>4, <1>5, <1>6, <1>7, <1>8 DEF Next, Collector

(* A collection of CollectMemory gives back every block that no word from    *)
(* the roots leads to: what it keeps was met by the conservative scan, in    *)
(* whatever order the four mark threads ran.                               *)
THEOREM CollectionComplete == ASSUME Threads = {Main} PROVE Spec => GarbageReclaimed
<1>1. Init => OnlyReached
  BY DEF Init, OnlyReached
<1>2. TypeOK /\ Control /\ SingleThreaded /\ OnlyReached /\ [Next]_vars => OnlyReached'
  BY StepBounded
<1>3. ASSUME SingleThreaded, OnlyReached, [Next]_vars
      PROVE  [gc = "sweep" /\ gc' = "done" => allocated' \subseteq Conservative]_vars
  <2> SUFFICES ASSUME gc = "sweep", gc' = "done", Next PROVE allocated' \subseteq Conservative
    BY <1>3
  <2>1. Sweep
    BY DEF Next, Instruction, LoadInt, LoadLocal, LoadStatic, StoreLocal, StoreStatic,
         LoadField, StoreField, Pop, Call, Spill, Reload, Return, ProcessAsyncMethodCall,
         ExitThread, New, Allocate, GetBlock, Record, JoinCollector, AsyncMethodCall, gcVars,
         Collector, Sort, JoinMarkers, LockAllocated,
         Marker, ReadRoots, VisitMemory, VisitValidMemory, Mark, MarkDone
  <2>2. allocated' \subseteq flagged
    BY <1>3, <2>1 DEF Sweep, SingleThreaded, Phases
  <2> QED BY <1>3, <2>2 DEF OnlyReached
<1> QED BY <1>1, <1>2, <1>3, Invariant, PTL DEF Spec, GarbageReclaimed
=============================================================================
