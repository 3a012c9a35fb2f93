------------------------------ MODULE Concurrency ------------------------------
(***************************************************************************)
(* Threads of a program (bundle System.Concurrency of lib_src/lang.obs, the *)
(* thread instructions of vm/interpreter.cpp, and the critical statement    *)
(* of compiler/intermediate.cpp).                                           *)
(*                                                                         *)
(* A Thread object keeps the handle of the thread that was last started     *)
(* from it in its slot 0, a ThreadMutex holds a mutex.  critical reads its  *)
(* variable twice: for CRITICAL_START and again for CRITICAL_END.  The      *)
(* threads of a program count in a class variable, which takes a load and a *)
(* store.                                                                  *)
(*                                                                         *)
(* Which methods threads call, and when, is the program's choice; rules     *)
(* says what it abides by.                                                 *)
(***************************************************************************)
EXTENDS Integers, FiniteSets, Sequences, SequencesExt

CONSTANTS
  Handles,   \* values of pthread_t; a value is used again after a join
  Main,      \* the handle of the thread vm.cpp runs on
  NoHandle,  \* 0, what slot 0 holds before Execute
  Objects,   \* Thread objects
  NoObject,
  Mutexes,   \* ThreadMutex objects
  Nil,
  Fuel       \* bound: threads started, sections entered and values added,
             \* for each set of rules

(* joins: a thread joins what it executed, once, before it ends and not in a *)
(* critical section; an object is executed again only after that.           *)
(* sections: the mutex is assigned once, before other threads start, values *)
(* are added in critical sections, which are not nested and not left by a   *)
(* break or return.                                                        *)
Rules == {"joins", "sections"}

ASSUME ConcurrencyAssumption ==
  /\ Main \in Handles /\ NoHandle \notin Handles
  /\ NoObject \notin Objects
  /\ Nil \notin Mutexes
  /\ Fuel \in [SUBSET Rules -> Nat]

VARIABLES
  rules,    \* those the program abides by
  id,       \* Thread::@id
  mutex,    \* the variable of critical
  holder,   \* pthread_mutex_t of each ThreadMutex
  state,    \* of each pthread: "free", "running", "ended"
  self,     \* ThreadHolder::self
  pc,       \* what a running thread is in the middle of
  object, thread, operand, sum, \* the values it has for that
  inside,   \* critical statements a thread is in, with the mutex of each
  owed,     \* who executed an object and has not joined it
  x, added, \* the class variable; how many times one was added
  fuel,
  end       \* "none", or how the process ended: "done", "failed" in a join, "nil"

threadVars == <<id, state, self, object, thread, owed>>
lockVars == <<mutex, holder, operand, inside>>
countVars == <<x, added, sum>>
vars == <<rules, threadVars, lockVars, countVars, pc, fuel, end>>

Init ==
  /\ rules \in SUBSET Rules
  /\ id = [u \in Objects |-> NoHandle]
  /\ mutex = Nil
  /\ holder = [k \in Mutexes |-> NoHandle]
  /\ state = [h \in Handles |-> IF h = Main THEN "running" ELSE "free"]
  /\ self = [h \in Handles |-> NoObject]
  /\ pc = [h \in Handles |-> "run"]
  /\ object = [h \in Handles |-> NoObject]
  /\ thread = [h \in Handles |-> NoHandle]
  /\ operand = [h \in Handles |-> Nil]
  /\ sum = [h \in Handles |-> 0]
  /\ inside = [h \in Handles |-> << >>]
  /\ owed = [u \in Objects |-> NoHandle]
  /\ x = 0 /\ added = 0
  /\ fuel = Fuel[rules]
  /\ end = "none"

Running(h) == end = "none" /\ state[h] = "running"
AtStatement(h) == Running(h) /\ pc[h] = "run"
Keeps(rule, condition) == rule \in rules => condition
Goto(h, where) == pc' = [pc EXCEPT ![h] = where]
Burn == fuel > 0 /\ fuel' = fuel - 1

-----------------------------------------------------------------------------
(* Execute: ASYNC_MTHD_CALL calls pthread_create, and only then stores the  *)
(* handle in the object.                                                   *)
ProcessAsyncMethodCall(h, u) ==
  /\ AtStatement(h)
  /\ Keeps("joins", owed[u] = NoHandle)
  /\ Burn
  /\ \E n \in Handles :
       /\ state[n] = "free"
       /\ state' = [state EXCEPT ![n] = "running"]
       /\ self' = [self EXCEPT ![n] = u]
       /\ thread' = [thread EXCEPT ![h] = n]
  /\ object' = [object EXCEPT ![h] = u]
  /\ owed' = [owed EXCEPT ![u] = h]
  /\ Goto(h, "store")
  /\ UNCHANGED <<rules, id, lockVars, countVars, end>>

FirstHandle(u, n) == IF id[u] = NoHandle THEN n ELSE id[u]
HandleOf(u, n) == n

StoreHandle(h) ==
  /\ Running(h) /\ pc[h] = "store"
  /\ id' = [id EXCEPT ![object[h]] = HandleOf(object[h], thread[h])]
  /\ object' = [object EXCEPT ![h] = NoObject]
  /\ thread' = [thread EXCEPT ![h] = NoHandle]
  /\ Goto(h, "run")
  /\ UNCHANGED <<rules, state, self, owed, lockVars, countVars, fuel, end>>

(* pthread_join reports an error for the thread itself, for one that joins  *)
(* the caller, and for one that somebody joins; a handle that is null or has *)
(* been joined crashes it or is reported.  The program ends either way.     *)
JoinFails(h, n) ==
  \/ n \in {NoHandle, h}
  \/ n \in Handles /\ \/ state[n] = "free"
                      \/ pc[n] = "join" /\ thread[n] = h
  \/ \E g \in Handles : Running(g) /\ pc[g] = "join" /\ thread[g] = n

MayJoin(h, u) ==
  /\ AtStatement(h)
  /\ Keeps("joins", owed[u] = h /\ inside[h] = << >>)

Join(h, u) ==
  /\ MayJoin(h, u)
  /\ ~JoinFails(h, id[u])
  /\ object' = [object EXCEPT ![h] = u]
  /\ thread' = [thread EXCEPT ![h] = id[u]]
  /\ Goto(h, "join")
  /\ UNCHANGED <<rules, id, state, self, owed, lockVars, countVars, fuel, end>>

JoinError(h, u) ==
  /\ MayJoin(h, u)
  /\ JoinFails(h, id[u])
  /\ end' = "failed"
  /\ UNCHANGED <<rules, threadVars, lockVars, countVars, pc, fuel>>

NotFree(n) == state[n] # "free"
Ended(n) == state[n] = "ended"

JoinReturns(h) ==
  /\ Running(h) /\ pc[h] = "join"
  /\ Ended(thread[h])
  /\ state' = [state EXCEPT ![thread[h]] = "free"]
  /\ owed' = [owed EXCEPT ![object[h]] = NoHandle]
  /\ object' = [object EXCEPT ![h] = NoObject]
  /\ thread' = [thread EXCEPT ![h] = NoHandle]
  /\ Goto(h, "run")
  /\ UNCHANGED <<rules, id, self, lockVars, countVars, fuel, end>>

(* Run returns; the thread removes its interpreter and ends.               *)
AsyncMethodCallEnds(h) ==
  /\ AtStatement(h) /\ h # Main /\ inside[h] = << >>
  /\ Keeps("joins", \A u \in Objects : owed[u] # h)
  /\ state' = [state EXCEPT ![h] = "ended"]
  /\ self' = [self EXCEPT ![h] = NoObject]
  /\ UNCHANGED <<rules, id, object, thread, owed, lockVars, countVars, pc, fuel, end>>

(* Main of vm.cpp returns and with it the process.                         *)
MainEnds ==
  /\ AtStatement(Main) /\ inside[Main] = << >>
  /\ Keeps("joins", \A u \in Objects : owed[u] # Main)
  /\ end' = "done"
  /\ UNCHANGED <<rules, threadVars, lockVars, countVars, pc, fuel>>

-----------------------------------------------------------------------------
(* A new ThreadMutex, or one the program has, is assigned to the variable.  *)
AssignMutex(h, k) ==
  /\ AtStatement(h)
  /\ Keeps("sections", h = Main /\ mutex = Nil /\ \A g \in Handles \ {Main} : state[g] = "free")
  /\ mutex # k
  /\ mutex' = k
  /\ UNCHANGED <<rules, threadVars, holder, operand, inside, countVars, pc, fuel, end>>

(* EmitVariable before CRITICAL_START and before CRITICAL_END.             *)
EvaluateForStart(h) ==
  /\ AtStatement(h)
  /\ Keeps("sections", inside[h] = << >>)
  /\ Burn
  /\ mutex # Nil
  /\ operand' = [operand EXCEPT ![h] = mutex]
  /\ Goto(h, "lock")
  /\ UNCHANGED <<rules, threadVars, mutex, holder, inside, countVars, end>>

CriticalOnNil(h) ==
  /\ AtStatement(h) /\ mutex = Nil
  /\ end' = "nil"
  /\ UNCHANGED <<rules, threadVars, lockVars, countVars, pc, fuel>>

EvaluateForEnd(h) ==
  /\ AtStatement(h) /\ inside[h] # << >>
  /\ operand' = [operand EXCEPT ![h] = mutex]
  /\ Goto(h, "unlock")
  /\ UNCHANGED <<rules, threadVars, mutex, holder, inside, countVars, fuel, end>>

Whoever(k) == TRUE
Unlocked(k) == holder[k] = NoHandle

CriticalStart(h) ==
  /\ Running(h) /\ pc[h] = "lock"
  /\ Unlocked(operand[h])
  /\ holder' = [holder EXCEPT ![operand[h]] = h]
  /\ inside' = [inside EXCEPT ![h] = Append(@, operand[h])]
  /\ operand' = [operand EXCEPT ![h] = Nil]
  /\ Goto(h, "run")
  /\ UNCHANGED <<rules, threadVars, mutex, countVars, fuel, end>>

(* The mutex is of the default type: whoever unlocks it unlocks it.         *)
Untouched(k) == holder
Unlock(k) == [holder EXCEPT ![k] = NoHandle]

CriticalEnd(h) ==
  /\ Running(h) /\ pc[h] = "unlock"
  /\ holder' = Unlock(operand[h])
  /\ inside' = [inside EXCEPT ![h] = Front(@)]
  /\ operand' = [operand EXCEPT ![h] = Nil]
  /\ Goto(h, "run")
  /\ UNCHANGED <<rules, threadVars, mutex, countVars, fuel, end>>

(* A break or return jumps out of the statement.                           *)
JumpOut(h) ==
  /\ AtStatement(h) /\ inside[h] # << >>
  /\ "sections" \notin rules
  /\ inside' = [inside EXCEPT ![h] = Front(@)]
  /\ UNCHANGED <<rules, threadVars, mutex, holder, operand, countVars, pc, fuel, end>>

(* @x += 1: LOAD_INT_VAR, ADD_INT, STOR_INT_VAR.                           *)
OneLess(v) == v - 1
OneMore(v) == v + 1

LoadAndAdd(h) ==
  /\ AtStatement(h)
  /\ Keeps("sections", inside[h] # << >>)
  /\ Burn
  /\ sum' = [sum EXCEPT ![h] = OneMore(x)]
  /\ Goto(h, "add")
  /\ UNCHANGED <<rules, threadVars, lockVars, x, added, end>>

StoreSum(h) ==
  /\ Running(h) /\ pc[h] = "add"
  /\ x' = sum[h]
  /\ added' = added + 1
  /\ sum' = [sum EXCEPT ![h] = 0]
  /\ Goto(h, "run")
  /\ UNCHANGED <<rules, threadVars, lockVars, fuel, end>>

-----------------------------------------------------------------------------
Step(h) ==
  \/ \E u \in Objects : ProcessAsyncMethodCall(h, u) \/ Join(h, u) \/ JoinError(h, u)
  \/ StoreHandle(h) \/ JoinReturns(h) \/ AsyncMethodCallEnds(h)
  \/ \E k \in Mutexes : AssignMutex(h, k)
  \/ EvaluateForStart(h) \/ CriticalOnNil(h) \/ EvaluateForEnd(h)
  \/ CriticalStart(h) \/ CriticalEnd(h) \/ JumpOut(h)
  \/ LoadAndAdd(h) \/ StoreSum(h)

Next == MainEnds \/ \E h \in Handles : Step(h)

Spec == Init /\ [][Next]_vars

(* The scheduler runs every thread that can go on.                         *)
FairSpec == Spec /\ \A h \in Handles : WF_vars(Step(h))

-----------------------------------------------------------------------------
(* Every variable holds what its declaration allows.                       *)
TypeOK ==
  /\ rules \subseteq Rules
  /\ id \in [Objects -> Handles \cup {NoHandle}]
  /\ mutex \in Mutexes \cup {Nil}
  /\ holder \in [Mutexes -> Handles \cup {NoHandle}]
  /\ state \in [Handles -> {"free", "running", "ended"}]
  /\ self \in [Handles -> Objects \cup {NoObject}]
  /\ pc \in [Handles -> {"run", "store", "join", "lock", "unlock", "add"}]
  /\ object \in [Handles -> Objects \cup {NoObject}]
  /\ thread \in [Handles -> Handles \cup {NoHandle}]
  /\ operand \in [Handles -> Mutexes \cup {Nil}]
  /\ sum \in [Handles -> Nat]
  /\ inside \in [Handles -> Seq(Mutexes)]
  /\ owed \in [Objects -> Handles \cup {NoHandle}]
  /\ x \in Nat /\ added \in Nat /\ fuel \in Nat
  /\ end \in {"none", "done", "failed", "nil"}

(* No addition is lost: when a program keeps the rules on critical sections,*)
(* the variable its threads add to has as many as were added, although the *)
(* mutex of CRITICAL_END is not the one CRITICAL_START locked but what the  *)
(* variable holds by then.                                                 *)
Counted == "sections" \in rules => x = added

(* No Join of a program that keeps the rules on joins ends the process,    *)
(* although handles are used again and are stored after the thread started. *)
JoinsSucceed == "joins" \in rules => end # "failed"

(* When Join of a Thread object returns, no thread executes its Run: the    *)
(* handle joined is that of the thread that was last started from it.       *)
JoinSound ==
  [][\A h \in Handles :
       "joins" \in rules /\ pc[h] = "join" /\ pc'[h] = "run" =>
         \A n \in Handles : state[n] = "running" => self[n] # object[h]]_vars

(* A Join returns, and a thread that wants to enter a critical section does *)
(* so, in programs that keep all the rules.                                *)
WaitsEnd ==
  \A h \in Handles :
    (rules = Rules /\ Running(h) /\ pc[h] \in {"join", "lock"}) ~> (pc[h] = "run" \/ end # "none")
=============================================================================
