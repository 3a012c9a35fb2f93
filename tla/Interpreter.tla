------------------------------ MODULE Interpreter ------------------------------
(***************************************************************************)
(* How methods are called (vm/interpreter.cpp, vm/interpreter.h, and the    *)
(* StackCallback of vm/jit).                                                *)
(*                                                                         *)
(* A method is interpreted in a frame taken from a cache all threads share, *)
(* or runs as native code without one.  Native code that calls a method     *)
(* starts a nested interpreter on itself, in a frame marked jit_called,     *)
(* which executes that one call instruction and goes back to native code.   *)
(***************************************************************************)
EXTENDS Naturals, FiniteSets, Sequences, SequencesExt

CONSTANTS
  Threads,   \* threads of the program
  Main,      \* the thread vm.cpp starts
  Methods,   \* methods of the program
  Native,    \* those called as native code
  Frame,     \* stack frames
  NoFrame,   \* the null frame pointer
  Preload,   \* frames Initialize puts into the cache
  Refill,    \* frames an empty cache is refilled with
  CallStackSize, \* CALL_STACK_SIZE
  MaxLevels  \* bound: nesting of interpreters and native code, per thread

ASSUME InterpreterAssumption ==
  /\ Main \in Threads
  /\ Native \subseteq Methods /\ Methods # {}
  /\ NoFrame \notin Frame
  /\ Preload \subseteq Frame
  /\ Refill \in Nat \ {0} /\ CallStackSize \in Nat
  /\ MaxLevels \in [Threads -> Nat]

VARIABLES
  OwnStack,   \* the build: a nested interpreter has its own call stack (amd64)
  cached_frames,
  created,    \* frames that have been allocated
  method,     \* StackFrame::method
  jit_called, \* frames with StackFrame::jit_called set
  levels,     \* per thread: interpreters and native code, innermost last
  pc,         \* what a thread's innermost level is doing
  target,     \* method native code is calling
  intpr_threads,
  halt,       \* threads whose first interpreter has been told to halt
  exited      \* the process is gone

frameVars == <<cached_frames, created, method, jit_called>>
haltVars  == <<intpr_threads, halt, exited>>
vars == <<OwnStack, frameVars, levels, pc, target, haltVars>>

InterpreterOn(f, m) == [native |-> FALSE, method |-> m, cur |-> f, stack |-> << >>]
NativeCode(m) == [native |-> TRUE, method |-> m, cur |-> NoFrame, stack |-> << >>]

Depth(t) == Len(levels[t])
Level(t) == levels[t][Depth(t)]
cur(t) == Level(t).cur

(* The call stack of the innermost interpreter: on ia32 and arm32 all the    *)
(* interpreters of a thread push on the first one's.                        *)
StackAt(t) == IF OwnStack THEN Depth(t) ELSE 1
call_stack(t) == levels[t][StackAt(t)].stack

(* GetStackFrame: the cache is refilled when it is empty.  Which frame of    *)
(* the cache is taken is left open: nothing depends on the order.           *)
Fresh == {S \in SUBSET (Frame \ created) : Cardinality(S) = Refill}
TopOfCache(f, m, jit) ==
  /\ \E S \in IF cached_frames = {} THEN Fresh ELSE {{}} :
       /\ f \in cached_frames \cup S
       /\ cached_frames' = cached_frames \cup S
       /\ created' = created \cup S
  /\ method' = [method EXCEPT ![f] = m]
  /\ jit_called' = IF jit THEN jit_called \cup {f} ELSE jit_called \ {f}

GetStackFrame(f, m, jit) ==
  /\ \E S \in IF cached_frames = {} THEN Fresh ELSE {{}} :
       /\ f \in cached_frames \cup S
       /\ cached_frames' = (cached_frames \cup S) \ {f}
       /\ created' = created \cup S
  /\ method' = [method EXCEPT ![f] = m]
  /\ jit_called' = IF jit THEN jit_called \cup {f} ELSE jit_called \ {f}

(* Nothing runs on after the process has exited. *)
Alive(t) == ~exited /\ levels[t] # << >>

Init ==
  /\ \E f \in Preload, m \in Methods \ Native :
       /\ cached_frames = Preload \ {f}
       /\ created = Preload
       /\ method = [g \in Frame |-> m]
       /\ levels = [t \in Threads |-> IF t = Main THEN <<InterpreterOn(f, m)>> ELSE << >>]
  /\ OwnStack \in BOOLEAN
  /\ jit_called = {}
  /\ pc = [t \in Threads |-> IF t = Main THEN "run" ELSE "new"]
  /\ target = [t \in Threads |-> CHOOSE m \in Methods : TRUE]
  /\ intpr_threads = {Main} /\ halt = {} /\ exited = FALSE

-----------------------------------------------------------------------------
(* Calls *)

CallStackOverfull(t) == Len(call_stack(t)) > CallStackSize
CallStackFull(t) == Len(call_stack(t)) >= CallStackSize

(* PushFrame: a full call stack ends the program. *)
Exceeded(t) ==
  /\ Alive(t) /\ pc[t] \in {"run", "call"} /\ CallStackFull(t)
  /\ exited' = TRUE
  /\ UNCHANGED <<frameVars, levels, pc, target, intpr_threads, halt>>

(* ProcessMethodCall and ProcessDynamicMethodCall: the current frame is     *)
(* pushed; the method called gets a frame, or runs as native code while     *)
(* the frame pointer stays what it was.  A nested interpreter makes the     *)
(* call native code asked for.                                             *)
Callable(t, m) ==
  /\ Alive(t) /\ pc[t] \in {"run", "call"} /\ ~CallStackFull(t)
  /\ pc[t] = "call" => m = target[t]

Pushed(t) == [levels EXCEPT ![t][StackAt(t)].stack = Append(@, cur(t))]

(* A native method that cannot be compiled is interpreted.                  *)
CallInterpreted(t, m) ==
  /\ Callable(t, m)
  /\ \E f \in Frame :
       /\ GetStackFrame(f, m, FALSE)
       /\ levels' = [Pushed(t) EXCEPT ![t][Depth(t)].cur = f]
  /\ pc' = [pc EXCEPT ![t] = "check"]
  /\ UNCHANGED <<target, haltVars>>

(* ProcessJitMethodCall *)
CallNative(t, m) ==
  /\ Callable(t, m) /\ m \in Native /\ Depth(t) < MaxLevels[t]
  /\ levels' = [Pushed(t) EXCEPT ![t] = Append(@, NativeCode(m))]
  /\ pc' = [pc EXCEPT ![t] = "native"]
  /\ UNCHANGED <<frameVars, target, haltVars>>

(* StackCallback: native code starts an interpreter on its own method at    *)
(* the call instruction.                                                   *)
StackCallback(t, m) ==
  /\ Alive(t) /\ pc[t] = "native" /\ Depth(t) < MaxLevels[t]
  /\ \E f \in Frame :
       /\ GetStackFrame(f, Level(t).method, TRUE)
       /\ levels' = [levels EXCEPT ![t] =
            Append(@, InterpreterOn(f, Level(t).method))]
  /\ target' = [target EXCEPT ![t] = m]
  /\ pc' = [pc EXCEPT ![t] = "call"]
  /\ UNCHANGED haltVars

(* A null reference or an index out of bounds, in an instruction or in       *)
(* native code, ends the program.                                          *)
Fails(t) ==
  /\ Alive(t) /\ pc[t] \in {"run", "native"}
  /\ exited' = TRUE
  /\ UNCHANGED <<frameVars, levels, pc, target, intpr_threads, halt>>

(* Native code returns to ProcessJitMethodCall, which restores the frame.   *)
Outer(t) == SubSeq(levels[t], 1, Depth(t) - 1)

PopNothing(ls, i, s) == [ls EXCEPT ![i].cur = ls[s].stack[Len(ls[s].stack)]]
PopFrame(ls, i, s) ==
  [ls EXCEPT ![i].cur = ls[s].stack[Len(ls[s].stack)],
             ![s].stack = SubSeq(@, 1, Len(@) - 1)]

NativeReturn(t) ==
  /\ Alive(t) /\ pc[t] = "native"
  /\ LET i == Depth(t) - 1 IN
       levels' = [levels EXCEPT ![t] = PopFrame(Outer(t), i, IF OwnStack THEN i ELSE 1)]
  /\ pc' = [pc EXCEPT ![t] = "check"]
  /\ UNCHANGED <<frameVars, target, haltVars>>

(* After a call instruction, and after a return: a current frame that is    *)
(* marked jit_called is given back and the interpreter left.                *)
NeverLeaves(t) == FALSE
Leaves(t) == cur(t) \in jit_called

LeaveToNative(t) ==
  /\ Alive(t) /\ pc[t] = "check" /\ Leaves(t)
  /\ jit_called' = jit_called \ {cur(t)}
  /\ cached_frames' = cached_frames \cup {cur(t)}
  /\ levels' = [levels EXCEPT ![t] = Outer(t)]
  /\ pc' = [pc EXCEPT ![t] = "native"]
  /\ UNCHANGED <<created, method, target, haltVars>>

Continue(t) ==
  /\ Alive(t) /\ pc[t] = "check" /\ ~Leaves(t)
  /\ pc' = [pc EXCEPT ![t] = "run"]
  /\ UNCHANGED <<frameVars, levels, target, haltVars>>

(* ProcessReturn: the frame is given back ...                               *)
ReleaseStackFrame(t) ==
  /\ Alive(t) /\ pc[t] = "run"
  /\ cached_frames' = cached_frames \cup {cur(t)}
  /\ pc' = [pc EXCEPT ![t] = "released"]
  /\ UNCHANGED <<created, method, jit_called, levels, target, haltVars>>

(* ... and the caller's frame restored, if there is one.                    *)
RestoreCaller(t) ==
  /\ Alive(t) /\ pc[t] = "released" /\ call_stack(t) # << >>
  /\ levels' = [levels EXCEPT ![t] = PopFrame(@, Depth(t), StackAt(t))]
  /\ pc' = [pc EXCEPT ![t] = "check"]
  /\ UNCHANGED <<frameVars, target, haltVars>>

LeaveInterpreter(t) ==
  /\ Alive(t) /\ pc[t] = "released" /\ call_stack(t) = << >>
  /\ levels' = [levels EXCEPT ![t] = Outer(t)]
  /\ pc' = [pc EXCEPT ![t] = IF Depth(t) = 1 THEN "leaving" ELSE "native"]
  /\ UNCHANGED <<frameVars, target, haltVars>>

-----------------------------------------------------------------------------
(* Threads *)

(* ProcessAsyncMethodCall creates the thread; AsyncMethodCall registers its  *)
(* interpreter and executes the Run method.                                *)
ProcessAsyncMethodCall(t, u) ==
  /\ Alive(t) /\ pc[t] = "run" /\ pc[u] = "new"
  /\ pc' = [pc EXCEPT ![u] = "created"]
  /\ UNCHANGED <<frameVars, levels, target, haltVars>>

AddThread(u) ==
  /\ ~exited /\ pc[u] = "created"
  /\ intpr_threads' = intpr_threads \cup {u}
  /\ pc' = [pc EXCEPT ![u] = "added"]
  /\ UNCHANGED <<frameVars, levels, target, halt, exited>>

(* Execute clears the interpreter's halt flag. *)
Execute(u, m) ==
  /\ ~exited /\ pc[u] = "added"
  /\ \E f \in Frame :
       /\ GetStackFrame(f, m, FALSE)
       /\ levels' = [levels EXCEPT ![u] = <<InterpreterOn(f, m)>>]
  /\ halt' = halt \ {u}
  /\ pc' = [pc EXCEPT ![u] = "run"]
  /\ UNCHANGED <<target, intpr_threads, exited>>

(* The end of AsyncMethodCall, and of the program's main thread. *)
RemoveThread(u) ==
  /\ ~exited /\ pc[u] = "leaving"
  /\ intpr_threads' = intpr_threads \ {u}
  /\ pc' = [pc EXCEPT ![u] = IF u = Main THEN "halting" ELSE "done"]
  /\ UNCHANGED <<frameVars, levels, target, halt, exited>>

HaltAll ==
  /\ ~exited /\ pc[Main] = "halting"
  /\ halt' = halt \cup intpr_threads
  /\ pc' = [pc EXCEPT ![Main] = "done"]
  /\ UNCHANGED <<frameVars, levels, target, intpr_threads, exited>>

(* The loop of Execute ends where the flag is tested; nested interpreters    *)
(* have flags of their own, which nobody sets.                              *)
StopHalted(t) ==
  /\ Alive(t) /\ pc[t] = "run" /\ t \in halt /\ Depth(t) = 1
  /\ levels' = [levels EXCEPT ![t] = << >>]
  /\ pc' = [pc EXCEPT ![t] = "leaving"]
  /\ UNCHANGED <<frameVars, target, haltVars>>

(* main() returns *)
Exit ==
  /\ ~exited /\ pc[Main] = "done"
  /\ exited' = TRUE
  /\ UNCHANGED <<frameVars, levels, pc, target, intpr_threads, halt>>

Step ==
  \/ \E t \in Threads :
       \/ Exceeded(t) \/ Fails(t) \/ NativeReturn(t) \/ LeaveToNative(t) \/ Continue(t)
       \/ ReleaseStackFrame(t) \/ RestoreCaller(t) \/ LeaveInterpreter(t)
       \/ AddThread(t) \/ RemoveThread(t) \/ StopHalted(t)
       \/ \E m \in Methods : CallInterpreted(t, m) \/ CallNative(t, m) \/ StackCallback(t, m)
       \/ \E m \in Methods \ Native : Execute(t, m)
       \/ \E u \in Threads : ProcessAsyncMethodCall(t, u)
  \/ HaltAll \/ Exit

Next == Step /\ UNCHANGED OwnStack

Spec == Init /\ [][Next]_vars
-----------------------------------------------------------------------------
(* Properties *)

LevelType == [native : BOOLEAN, method : Methods, cur : Frame \cup {NoFrame}, stack : Seq(Frame)]
Stages == {"new", "created", "added", "run", "call", "check", "native", "released",
           "leaving", "halting", "done"}

(* Interpreters, native code and frames are well formed, and no call stack   *)
(* holds more than CALL_STACK_SIZE frames.                                  *)
TypeOK ==
  /\ cached_frames \subseteq created /\ created \in SUBSET Frame
  /\ method \in [Frame -> Methods]
  /\ jit_called \in SUBSET Frame
  /\ levels \in [Threads -> Seq(LevelType)]
  /\ pc \in [Threads -> Stages]
  /\ target \in [Threads -> Methods]
  /\ intpr_threads \in SUBSET Threads /\ halt \in SUBSET Threads /\ exited \in BOOLEAN
  /\ \A t \in Threads : \A i \in DOMAIN levels[t] : Len(levels[t][i].stack) <= CallStackSize

(* The frames of a thread, innermost last: those on the call stacks of its   *)
(* interpreters and the current one.  An interpreter that waits for native  *)
(* code has its current frame on the call stack as well.                    *)
Chain(t) ==
  FlattenSeq([i \in DOMAIN levels[t] |-> levels[t][i].stack]) \o
  IF levels[t] = << >> \/ Level(t).native \/ pc[t] = "released" THEN << >> ELSE <<cur(t)>>

Held(t) == {Chain(t)[i] : i \in DOMAIN Chain(t)}

(* A frame is in one place: in the cache, or once on one thread's chain; and *)
(* unless a thread was stopped by HaltAll, a frame is never lost.           *)
FramesOwned ==
  /\ \A t \in Threads :
       /\ IsInjective(Chain(t))
       /\ Held(t) \cap cached_frames = {}
       /\ \A u \in Threads \ {t} : Held(t) \cap Held(u) = {}
  /\ halt = {} => created = cached_frames \cup UNION {Held(t) : t \in Threads}

(* The frames marked jit_called are those of the interpreters that native    *)
(* code started, one for each native method that is waiting for a call, and *)
(* the code of a native method is never interpreted past that call.         *)
TrampolinesMatch ==
  \A t \in Threads :
    /\ Cardinality(Held(t) \cap jit_called)
         = Cardinality({i \in DOMAIN levels[t] : levels[t][i].native /\ i # Depth(t)})
    /\ pc[t] = "run" => cur(t) \notin jit_called

(* Methods a thread is executing: a frame marked jit_called stands for the   *)
(* native code that waits for it.                                           *)
Activations(t) ==
  LET c == Chain(t) IN
    [i \in DOMAIN c |-> method[c[i]]] \o
    IF levels[t] # << >> /\ Level(t).native THEN <<Level(t).method>> ELSE << >>

(* Interpreted and native code together call and return as methods should.   *)
Calls == INSTANCE AbstractCalls WITH act <- [t \in Threads |-> Activations(t)]
CallsSpec == Calls!Spec
=============================================================================
