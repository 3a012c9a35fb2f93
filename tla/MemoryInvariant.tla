-------------------------- MODULE MemoryInvariant --------------------------
(***************************************************************************)
(* The inductive invariants behind the safety of MemoryManager: how the     *)
(* stages of the collection thread, the mark threads and the two mutexes    *)
(* go together for any number of program threads, and the tri-colour        *)
(* invariant of the mark phase for a program of one thread.                *)
(***************************************************************************)
EXTENDS MemoryManager

(* Where a thread and the collector stand, as far as the types need it.     *)
Control ==
  /\ \A t \in Threads :
       /\ th[t] \in {"run", "collecting", "allocating"} => Len(frames[t]) > 0
       /\ th[t] \in {"collecting", "allocating"} => pos[t] < MaxOp
       /\ th[t] = "collecting" => block[t].a = Null /\ owner = t
  /\ \A m \in Markers :
       /\ mst[m] \in {"mark", "markvalid"} => cur[m] \in Words
       /\ mst[m] # "off" => gc = "mark"
  /\ gc # "idle" => owner \in Threads /\ th[owner] = "collecting"

(* A mark thread holds allocated_mutex only while it marks what              *)
(* MarkValidMemory found; the sweep holds marked_mutex from before it asks   *)
(* for allocated_mutex.                                                    *)
Locks ==
  /\ \A m \in Markers : allocated_mutex = m => mst[m] = "markvalid"
  /\ marked_mutex = "gc" => gc \in {"lock", "sweep"}

-----------------------------------------------------------------------------
(* One thread *)

(* A value of a declared type is null or a block in use of that type.       *)
Good(v, type) == v # Null => v \in allocated /\ Fits(type, kind[v])
GoodEntry(e) == e.ref /\ e.v # Null => e.v \in allocated

GoodFrame(f) ==
  /\ \A l \in Locals : Good(f.mem[l], Decl[l])
  /\ GoodEntry(f.tmp)
  /\ f.jit \/ ~f.tmp.ref

(* The program is well typed and its one thread never holds a dangling      *)
(* reference.                                                              *)
StaticsGood == \A s \in Statics : Good(static[s], Decl[s])
FramesGood == \A i \in 1..Len(frames[Main]) : GoodFrame(frames[Main][i])
StackGood == \A i \in 0..MaxOp : i < pos[Main] => GoodEntry(op[Main][i])

BlocksTyped ==
  \A a \in allocated :
    /\ kind[a] # "free"
    /\ \A f \in Fields :
         /\ kind[a] = "obj" => Good(refs[a][f], Decl[f])
         /\ kind[a] = "objary" => Good(refs[a][f], "OBJ_PARM")

(* The one thread runs, collects or allocates; a block it has obtained and  *)
(* not recorded is new and empty; it always has a caller below its current  *)
(* frame.                                                                  *)
MainThread ==
  /\ th[Main] \in {"run", "collecting", "allocating"}
  /\ Len(frames[Main]) > 1
  /\ block[Main].a # Null =>
       /\ th[Main] = "allocating"
       /\ block[Main].a \notin allocated
       /\ kind[block[Main].a] # "free"
       /\ \A f \in Fields : refs[block[Main].a][f] = Null

Phases ==
  /\ flagged = marked /\ flagged \subseteq allocated
  /\ gc \notin {"idle", "sort"} => unsorted = {}
  /\ gc \in {"idle", "sort", "done"} => flagged = {}
  /\ \A m \in Markers :
       /\ mst[m] \in {"off", "ready"} => work[m] = {}
       /\ mst[m] \notin {"mark", "markvalid"} => cur[m] = NoWord
       /\ mst[m] \in {"mark", "markvalid"} => cur[m].a \in allocated

(* What a mark thread has still to visit or to mark. *)
Pending(m) == work[m] \cup {cur[m]}
Covered(a) == a \in flagged \/ \E m \in Markers : \E w \in Pending(m) : w.a = a
GoodWord(w) == w.how = "raw" \/ (w.a \in allocated /\ Fits(w.how, kind[w.a]))

(* Roots that have been read, and what a marked block refers to, are marked  *)
(* or pending in some mark thread; a declared word is of its declared type.  *)
Tricolour ==
  gc \in {"mark", "lock", "sweep"} =>
    /\ \A m \in Markers : \A w \in Pending(m) : GoodWord(w)
    /\ \A m \in Markers : mst[m] # "ready" =>
         \A w \in Roots(m) : w.a \in allocated => Covered(w.a)
    /\ \A a \in flagged : \A b \in BlockRefs(a) : Covered(b)

(* Nothing is lost while the mark threads run: TypeOK, Control, Locks and    *)
(* this conjunction are inductive (vm/os/posix/memory.cpp, MarkMemory to     *)
(* CheckObject).                                                           *)
SingleThreaded ==
  /\ StaticsGood /\ FramesGood /\ StackGood /\ BlocksTyped
  /\ MainThread /\ Phases /\ Tricolour

(* Nor is anything visited that is not met when following words from the    *)
(* roots of the collection: inductive with SingleThreaded.                 *)
OnlyReached ==
  gc \in {"mark", "lock", "sweep"} =>
    /\ flagged \subseteq Conservative
    /\ \A m \in Markers : \A w \in Pending(m) : w.a \in allocated => w.a \in Conservative
=============================================================================
