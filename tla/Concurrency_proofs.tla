-------------------------- MODULE Concurrency_proofs --------------------------
(***************************************************************************)
(* Proofs about Concurrency, for any number of threads, objects, mutexes    *)
(* and steps: types, that no addition under critical is lost, that joins    *)
(* succeed, and that they wait for the right thread.                       *)
(***************************************************************************)
EXTENDS Concurrency, SequenceTheorems, TLAPS

(* A thread that is about to lock has a mutex; one about to unlock is in a   *)
(* critical statement.                                                     *)
Pending == \A h \in Handles :
             /\ pc[h] = "lock" => operand[h] \in Mutexes
             /\ pc[h] = "unlock" => inside[h] # << >>

(* What a program that keeps the rule on sections has in every state: the   *)
(* thread in a section holds the one mutex, and its sum is up to date.      *)
CountInv ==
  "sections" \in rules =>
    /\ x = added
    /\ mutex = Nil => \A h \in Handles : inside[h] = << >> /\ pc[h] \notin {"lock", "unlock", "add"}
    /\ \A h \in Handles : inside[h] # << >> => inside[h] = <<mutex>> /\ holder[mutex] = h
    /\ \A h \in Handles : pc[h] \in {"lock", "unlock"} => operand[h] = mutex
    /\ \A h \in Handles : pc[h] = "lock" => inside[h] = << >>
    /\ \A h \in Handles : pc[h] = "unlock" => inside[h] # << >>
    /\ \A h \in Handles : pc[h] = "add" => inside[h] # << >> /\ sum[h] = x + 1

(* The thread last started from an object that is still to be joined: its   *)
(* handle is in the object, or about to be stored there.                   *)
HandleFor(u) ==
  IF pc[owed[u]] = "store" /\ object[owed[u]] = u THEN thread[owed[u]] ELSE id[u]
Owed(u) == owed[u] # NoHandle

Idle == \A h \in Handles : state[h] # "running" => pc[h] = "run"

Storing == \A h \in Handles : pc[h] = "store" =>
             object[h] \in Objects /\ thread[h] \in Handles /\ owed[object[h]] = h

Joining == \A h \in Handles : pc[h] = "join" =>
             object[h] \in Objects /\ owed[object[h]] = h /\ thread[h] = id[object[h]]

Started == \A u \in Objects : Owed(u) =>
             /\ state[owed[u]] = "running"
             /\ HandleFor(u) \in Handles \ {Main, owed[u]}
             /\ state[HandleFor(u)] # "free"
             /\ state[HandleFor(u)] = "running" => self[HandleFor(u)] = u

Distinct == \A u, v \in Objects :
              Owed(u) /\ Owed(v) /\ HandleFor(u) = HandleFor(v) => u = v

Acyclic == \A u, v \in Objects :
             Owed(u) /\ Owed(v) => ~(HandleFor(u) = owed[v] /\ HandleFor(v) = owed[u])

Known == \A n \in Handles \ {Main} : state[n] = "running" =>
           self[n] \in Objects /\ Owed(self[n]) /\ HandleFor(self[n]) = n

(* What a program that keeps the rule on joins has in every state: who owes *)
(* which join, and that threads that run and joins that are owed match.     *)
JoinInv ==
  /\ Idle
  /\ "joins" \in rules =>
       /\ end # "failed" /\ state[Main] = "running" /\ self[Main] = NoObject
       /\ Storing /\ Joining /\ Started /\ Distinct /\ Acyclic /\ Known

-----------------------------------------------------------------------------
(* Concurrency keeps its variables within their types.                     *)
THEOREM ThreadsTyped == Spec => [](TypeOK /\ Pending)
<1> USE ConcurrencyAssumption DEF Running, AtStatement, Burn, Goto, threadVars, lockVars, countVars
<1>1. Init => TypeOK /\ Pending
  BY DEF Init, TypeOK, Pending
<1>2. TypeOK /\ Pending /\ [Next]_vars => (TypeOK /\ Pending)'
  <2> SUFFICES ASSUME TypeOK, Pending, [Next]_vars PROVE (TypeOK /\ Pending)'
    OBVIOUS
  <2> USE DEF TypeOK, Pending
  <2>1. ASSUME NEW h \in Handles, NEW u \in Objects, ProcessAsyncMethodCall(h, u) PROVE (TypeOK /\ Pending)'
    BY <2>1 DEF ProcessAsyncMethodCall
  <2>2. ASSUME NEW h \in Handles, NEW u \in Objects, Join(h, u) PROVE (TypeOK /\ Pending)'
    BY <2>2 DEF Join, MayJoin
  <2>3. ASSUME NEW h \in Handles, NEW u \in Objects, JoinError(h, u) PROVE (TypeOK /\ Pending)'
    BY <2>3 DEF JoinError
  <2>4. ASSUME NEW h \in Handles, StoreHandle(h) PROVE (TypeOK /\ Pending)'
    BY <2>4 DEF StoreHandle, HandleOf
  <2>5. ASSUME NEW h \in Handles, JoinReturns(h) PROVE (TypeOK /\ Pending)'
    BY <2>5 DEF JoinReturns
  <2>6. ASSUME NEW h \in Handles, AsyncMethodCallEnds(h) PROVE (TypeOK /\ Pending)'
    BY <2>6 DEF AsyncMethodCallEnds
  <2>7. ASSUME NEW h \in Handles, NEW k \in Mutexes, AssignMutex(h, k) PROVE (TypeOK /\ Pending)'
    BY <2>7 DEF AssignMutex
  <2>8. ASSUME NEW h \in Handles, EvaluateForStart(h) PROVE (TypeOK /\ Pending)'
    BY <2>8 DEF EvaluateForStart
  <2>9. ASSUME NEW h \in Handles, CriticalOnNil(h) PROVE (TypeOK /\ Pending)'
    BY <2>9 DEF CriticalOnNil
  <2>10. ASSUME NEW h \in Handles, EvaluateForEnd(h) PROVE (TypeOK /\ Pending)'
    BY <2>10 DEF EvaluateForEnd
  <2>11. ASSUME NEW h \in Handles, CriticalStart(h) PROVE (TypeOK /\ Pending)'
    BY <2>11 DEF CriticalStart
  <2>12. ASSUME NEW h \in Handles, CriticalEnd(h) PROVE (TypeOK /\ Pending)'
    <3>1. inside[h] # << >> /\ inside[h] \in Seq(Mutexes)
      BY <2>12 DEF CriticalEnd
    <3>2. Front(inside[h]) \in Seq(Mutexes)
      BY <3>1 DEF Front
    <3>3. holder' \in [Mutexes -> Handles \cup {NoHandle}]
      BY <2>12 DEF CriticalEnd, Unlock
    <3>4. inside' = [inside EXCEPT ![h] = Front(inside[h])] /\ pc' = [pc EXCEPT ![h] = "run"]
      BY <2>12 DEF CriticalEnd
    <3>5. inside' \in [Handles -> Seq(Mutexes)]
      BY <3>2, <3>4
    <3>6. Pending'
      BY <2>12, <3>4 DEF CriticalEnd
    <3> QED
      BY <2>12, <3>3, <3>5, <3>6 DEF CriticalEnd
  <2>13. ASSUME NEW h \in Handles, JumpOut(h) PROVE (TypeOK /\ Pending)'
    BY <2>13 DEF JumpOut, Front
  <2>14. ASSUME NEW h \in Handles, LoadAndAdd(h) PROVE (TypeOK /\ Pending)'
    BY <2>14 DEF LoadAndAdd, OneMore
  <2>15. ASSUME NEW h \in Handles, StoreSum(h) PROVE (TypeOK /\ Pending)'
    BY <2>15 DEF StoreSum
  <2>16. CASE MainEnds
    BY <2>16 DEF MainEnds
  <2>17. CASE UNCHANGED vars
    BY <2>17 DEF vars
  <2> QED
    BY <2>1, <2>2, <2>3, <2>4, <2>5, <2>6, <2>7, <2>8, <2>9, <2>10, <2>11, <2>12, <2>13, <2>14, <2>15, <2>16, <2>17 DEF Next, Step
<1> QED
  BY <1>1, <1>2, PTL DEF Spec

(* No addition is lost in a program that keeps the rule on sections.       *)
THEOREM NoneLost == Spec => []Counted
<1> USE ConcurrencyAssumption DEF Running, AtStatement, Keeps, Burn, Goto, threadVars, lockVars, countVars
<1>1. Init => CountInv
  BY DEF Init, CountInv
<1>2. TypeOK /\ Pending /\ CountInv /\ [Next]_vars => CountInv'
  <2> SUFFICES ASSUME TypeOK, Pending, CountInv, [Next]_vars PROVE CountInv'
    OBVIOUS
  <2> USE DEF TypeOK, CountInv
  <2>1. ASSUME NEW h \in Handles, NEW u \in Objects, ProcessAsyncMethodCall(h, u) PROVE CountInv'
    BY <2>1 DEF ProcessAsyncMethodCall
  <2>2. ASSUME NEW h \in Handles, NEW u \in Objects, Join(h, u) PROVE CountInv'
    BY <2>2 DEF Join, MayJoin
  <2>3. ASSUME NEW h \in Handles, NEW u \in Objects, JoinError(h, u) PROVE CountInv'
    BY <2>3 DEF JoinError
  <2>4. ASSUME NEW h \in Handles, StoreHandle(h) PROVE CountInv'
    BY <2>4 DEF StoreHandle, HandleOf
  <2>5. ASSUME NEW h \in Handles, JoinReturns(h) PROVE CountInv'
    BY <2>5 DEF JoinReturns
  <2>6. ASSUME NEW h \in Handles, AsyncMethodCallEnds(h) PROVE CountInv'
    BY <2>6 DEF AsyncMethodCallEnds
  <2>7. ASSUME NEW h \in Handles, NEW k \in Mutexes, AssignMutex(h, k) PROVE CountInv'
    BY <2>7 DEF AssignMutex
  <2>8. ASSUME NEW h \in Handles, EvaluateForStart(h) PROVE CountInv'
    BY <2>8 DEF EvaluateForStart
  <2>9. ASSUME NEW h \in Handles, CriticalOnNil(h) PROVE CountInv'
    BY <2>9 DEF CriticalOnNil
  <2>10. ASSUME NEW h \in Handles, EvaluateForEnd(h) PROVE CountInv'
    BY <2>10 DEF EvaluateForEnd
  <2>11. ASSUME NEW h \in Handles, CriticalStart(h) PROVE CountInv'
    <3> SUFFICES ASSUME "sections" \in rules PROVE CountInv'
      BY <2>11 DEF CriticalStart
    <3>1. inside[h] = << >> /\ operand[h] = mutex /\ mutex \in Mutexes /\ holder[mutex] = NoHandle
      BY <2>11 DEF CriticalStart, Unlocked, Pending
    <3>2. inside' = [inside EXCEPT ![h] = <<mutex>>] /\ holder' = [holder EXCEPT ![mutex] = h]
      BY <2>11, <3>1 DEF CriticalStart
    <3>3. \A g \in Handles : inside[g] = << >>
      BY <3>1
    <3> QED
      BY <2>11, <3>1, <3>2, <3>3 DEF CriticalStart
  <2>12. ASSUME NEW h \in Handles, CriticalEnd(h) PROVE CountInv'
    <3> SUFFICES ASSUME "sections" \in rules PROVE CountInv'
      BY <2>12 DEF CriticalEnd
    <3>1. inside[h] = <<mutex>> /\ operand[h] = mutex /\ holder[mutex] = h
      BY <2>12 DEF CriticalEnd, Pending
    <3>2. inside' = [inside EXCEPT ![h] = << >>]
      <4>1. Front(<<mutex>>) = << >>
        <5>1. Len(<<mutex>>) - 1 < 1 /\ Len(<<mutex>>) - 1 \in Int
          OBVIOUS
        <5> QED
          BY <5>1, SubSeqEmpty DEF Front
      <4> QED
        BY <2>12, <3>1, <4>1 DEF CriticalEnd
    <3>3. \A g \in Handles \ {h} : inside[g] = << >>
      BY <3>1
    <3>4. \A g \in Handles : inside'[g] = << >>
      BY <3>2, <3>3
    <3> QED
      BY <2>12, <3>1, <3>4 DEF CriticalEnd
  <2>13. ASSUME NEW h \in Handles, JumpOut(h) PROVE CountInv'
    BY <2>13 DEF JumpOut, Front
  <2>14. ASSUME NEW h \in Handles, LoadAndAdd(h) PROVE CountInv'
    BY <2>14 DEF LoadAndAdd, OneMore
  <2>15. ASSUME NEW h \in Handles, StoreSum(h) PROVE CountInv'
    BY <2>15 DEF StoreSum
  <2>16. CASE MainEnds
    BY <2>16 DEF MainEnds
  <2>17. CASE UNCHANGED vars
    BY <2>17 DEF vars
  <2> QED
    BY <2>1, <2>2, <2>3, <2>4, <2>5, <2>6, <2>7, <2>8, <2>9, <2>10, <2>11, <2>12, <2>13, <2>14, <2>15, <2>16, <2>17 DEF Next, Step
<1>3. CountInv => Counted
  BY DEF CountInv, Counted
<1> QED
  BY <1>1, <1>2, <1>3, ThreadsTyped, PTL DEF Spec

(* An action that is not about threads and handles leaves JoinInv as it is. *)
LEMMA JoinsUnchanged ==
  ASSUME TypeOK, JoinInv, NEW h \in Handles,
         UNCHANGED <<rules, threadVars>>, end' # "failed",
         state[h] = "running",
         \E where \in {"run", "lock", "unlock", "add"} : pc' = [pc EXCEPT ![h] = where],
         pc[h] \notin {"store", "join"}
  PROVE  JoinInv'
<1>1. \A u \in Objects : Owed(u) => (pc'[owed'[u]] = "store" <=> pc[owed[u]] = "store")
  BY DEF TypeOK, threadVars, Owed
<1>2. \A u \in Objects : (Owed(u) => HandleFor(u)' = HandleFor(u)) /\ (Owed(u)' <=> Owed(u))
  BY <1>1 DEF HandleFor, Owed, threadVars
<1>3. \A g \in Handles : pc'[g] \in {"store", "join"} => pc'[g] = pc[g]
  BY DEF TypeOK
<1>4. Idle'
  BY DEF JoinInv, Idle, TypeOK, threadVars
<1>5. ASSUME "joins" \in rules PROVE Storing' /\ Joining' /\ Started' /\ Distinct' /\ Acyclic' /\ Known'
  <2>1. Storing' /\ Joining'
    BY <1>3, <1>5 DEF JoinInv, Storing, Joining, threadVars
  <2>2. Started'
    BY <1>2, <1>5 DEF JoinInv, Started, threadVars
  <2>3. Distinct'
    BY <1>2, <1>5 DEF JoinInv, Distinct
  <2>4. Acyclic'
    BY <1>2, <1>5 DEF JoinInv, Acyclic, threadVars
  <2>5. Known'
    BY <1>2, <1>5 DEF JoinInv, Known, threadVars, TypeOK
  <2> QED
    BY <2>1, <2>2, <2>3, <2>4, <2>5
<1> QED
  BY <1>4, <1>5 DEF JoinInv, threadVars

(* No Join of a program that keeps the rule on joins fails, and each waits  *)
(* for the thread that was last started from its object.                    *)
LEMMA JoinsInductive ==
  ASSUME TypeOK, JoinInv, [Next]_vars PROVE JoinInv'
<1> USE ConcurrencyAssumption DEF Running, AtStatement, Burn, Goto
<1>1. ASSUME NEW h \in Handles, NEW u \in Objects, ProcessAsyncMethodCall(h, u) PROVE JoinInv'
  <2>1. PICK n \in Handles :
          /\ state[n] = "free"
          /\ state' = [state EXCEPT ![n] = "running"]
          /\ self' = [self EXCEPT ![n] = u]
          /\ thread' = [thread EXCEPT ![h] = n]
    BY <1>1 DEF ProcessAsyncMethodCall
  <2>2. /\ state[h] = "running" /\ pc[h] = "run" /\ h # n
        /\ object' = [object EXCEPT ![h] = u] /\ owed' = [owed EXCEPT ![u] = h]
        /\ pc' = [pc EXCEPT ![h] = "store"] /\ UNCHANGED <<rules, id, end>>
    BY <1>1, <2>1 DEF ProcessAsyncMethodCall
  <2>3. Idle'
    BY <2>1, <2>2 DEF JoinInv, Idle, TypeOK
  <2> SUFFICES ASSUME "joins" \in rules PROVE JoinInv'
    BY <2>2, <2>3 DEF JoinInv
  <2>4. ~Owed(u) /\ n # Main
    BY <1>1, <2>1 DEF ProcessAsyncMethodCall, Keeps, Owed, JoinInv
  <2>5. Owed(u)' /\ HandleFor(u)' = n /\ owed'[u] = h
    BY <2>1, <2>2 DEF Owed, HandleFor, TypeOK
  <2>6. \A v \in Objects \ {u} :
          /\ Owed(v)' <=> Owed(v)
          /\ owed'[v] = owed[v]
          /\ Owed(v) => HandleFor(v)' = HandleFor(v) /\ HandleFor(v) # n /\ owed[v] # n
    <3> SUFFICES ASSUME NEW v \in Objects \ {u}
                 PROVE  /\ Owed(v)' <=> Owed(v)
                        /\ owed'[v] = owed[v]
                        /\ Owed(v) => HandleFor(v)' = HandleFor(v) /\ HandleFor(v) # n /\ owed[v] # n
      OBVIOUS
    <3>1. owed'[v] = owed[v]
      BY <2>2 DEF TypeOK
    <3>2. Owed(v) => HandleFor(v) # n /\ owed[v] # n
      BY <2>1 DEF JoinInv, Started
    <3>3. Owed(v) => HandleFor(v)' = HandleFor(v)
      BY <2>1, <2>2, <3>1 DEF HandleFor, TypeOK, Owed
    <3> QED
      BY <3>1, <3>2, <3>3 DEF Owed
  <2>7. Storing'
    BY <2>1, <2>2, <2>4 DEF JoinInv, Storing, TypeOK, Owed
  <2>8. Joining'
    BY <2>1, <2>2, <2>4 DEF JoinInv, Joining, TypeOK, Owed
  <2>9. Started'
    BY <2>1, <2>2, <2>4, <2>5, <2>6 DEF JoinInv, Started, TypeOK
  <2>10. Distinct'
    BY <2>5, <2>6 DEF JoinInv, Distinct
  <2>11. Acyclic'
    BY <2>2, <2>5, <2>6 DEF JoinInv, Acyclic
  <2>12. Known'
    BY <2>1, <2>2, <2>4, <2>5, <2>6 DEF JoinInv, Known, TypeOK
  <2>13. end' # "failed" /\ state'[Main] = "running" /\ self'[Main] = NoObject
    BY <2>1, <2>2, <2>4 DEF JoinInv, TypeOK
  <2> QED
    BY <2>3, <2>7, <2>8, <2>9, <2>10, <2>11, <2>12, <2>13 DEF JoinInv
<1>2. ASSUME NEW h \in Handles, NEW u \in Objects, Join(h, u) PROVE JoinInv'
  BY <1>2 DEF Join, MayJoin, JoinInv, Idle, Storing, Joining, Started, Distinct, Acyclic, Known, HandleFor, Owed, threadVars, Keeps, TypeOK
<1>3. ASSUME NEW h \in Handles, NEW u \in Objects, JoinError(h, u) PROVE JoinInv'
  <2> SUFFICES ASSUME "joins" \in rules PROVE FALSE
    BY <1>3 DEF JoinError, JoinInv, Idle, threadVars
  <2>1. state[h] = "running" /\ pc[h] = "run" /\ owed[u] = h /\ JoinFails(h, id[u])
    BY <1>3 DEF JoinError, MayJoin, Keeps
  <2>2. Owed(u) /\ HandleFor(u) = id[u]
    BY <2>1 DEF Owed, HandleFor
  <2>3. id[u] \in Handles \ {Main, h} /\ state[id[u]] # "free"
    BY <2>1, <2>2 DEF JoinInv, Started
  <2>4. \A g \in Handles : pc[g] = "join" =>
          Owed(object[g]) /\ HandleFor(object[g]) = thread[g] /\ owed[object[g]] = g /\ object[g] \in Objects
    BY DEF JoinInv, Joining, HandleFor, Owed
  <2>5. ~(pc[id[u]] = "join" /\ thread[id[u]] = h)
    BY <2>1, <2>2, <2>3, <2>4 DEF JoinInv, Acyclic
  <2>6. ASSUME NEW g \in Handles, pc[g] = "join", thread[g] = id[u] PROVE FALSE
    BY <2>1, <2>2, <2>4, <2>6 DEF JoinInv, Distinct
  <2> QED
    BY <2>1, <2>3, <2>5, <2>6 DEF JoinFails
<1>4. ASSUME NEW h \in Handles, StoreHandle(h) PROVE JoinInv'
  <2>1. /\ state[h] = "running" /\ pc[h] = "store" /\ pc' = [pc EXCEPT ![h] = "run"]
        /\ id' = [id EXCEPT ![object[h]] = thread[h]]
        /\ object' = [object EXCEPT ![h] = NoObject] /\ thread' = [thread EXCEPT ![h] = NoHandle]
        /\ UNCHANGED <<rules, state, self, owed, end>>
    BY <1>4 DEF StoreHandle, HandleOf
  <2>2. Idle'
    BY <2>1 DEF JoinInv, Idle, TypeOK
  <2> SUFFICES ASSUME "joins" \in rules PROVE JoinInv'
    BY <2>1, <2>2 DEF JoinInv
  <2>3. \A v \in Objects : Owed(v) => HandleFor(v)' = HandleFor(v)
    <3> SUFFICES ASSUME NEW v \in Objects, Owed(v) PROVE HandleFor(v)' = HandleFor(v)
      OBVIOUS
    <3>1. CASE object[h] = v
      BY <2>1, <3>1 DEF JoinInv, Storing, HandleFor, Owed, TypeOK
    <3>2. CASE object[h] # v
      BY <2>1, <3>2 DEF HandleFor, Owed, TypeOK
    <3> QED
      BY <3>1, <3>2
  <2>4. \A v \in Objects : Owed(v)' <=> Owed(v)
    BY <2>1 DEF Owed
  <2>5. Storing'
    BY <2>1 DEF JoinInv, Storing, TypeOK
  <2>6. Joining'
    <3> SUFFICES ASSUME NEW g \in Handles, pc'[g] = "join"
                 PROVE object'[g] \in Objects /\ owed'[object'[g]] = g /\ thread'[g] = id'[object'[g]]
      BY DEF Joining
    <3>1. g # h /\ pc[g] = "join" /\ object'[g] = object[g] /\ thread'[g] = thread[g]
      BY <2>1 DEF TypeOK
    <3>2. object[g] # object[h]
      BY <2>1, <3>1 DEF JoinInv, Storing, Joining
    <3> QED
      BY <2>1, <3>1, <3>2 DEF JoinInv, Joining, TypeOK
  <2>7. Started' /\ Distinct' /\ Acyclic' /\ Known'
    BY <2>1, <2>3, <2>4 DEF JoinInv, Started, Distinct, Acyclic, Known
  <2> QED
    BY <2>1, <2>2, <2>5, <2>6, <2>7 DEF JoinInv
<1>5. ASSUME NEW h \in Handles, JoinReturns(h) PROVE JoinInv'
  <2> DEFINE u == object[h]
             n == thread[h]
  <2>1. /\ state[h] = "running" /\ pc[h] = "join" /\ state[n] = "ended"
        /\ state' = [state EXCEPT ![n] = "free"] /\ owed' = [owed EXCEPT ![u] = NoHandle]
        /\ object' = [object EXCEPT ![h] = NoObject] /\ thread' = [thread EXCEPT ![h] = NoHandle]
        /\ pc' = [pc EXCEPT ![h] = "run"] /\ UNCHANGED <<rules, id, self, end>>
    BY <1>5 DEF JoinReturns, Ended
  <2>2. Idle'
    BY <2>1 DEF JoinInv, Idle, TypeOK
  <2> SUFFICES ASSUME "joins" \in rules PROVE JoinInv'
    BY <2>1, <2>2 DEF JoinInv
  <2>3. u \in Objects /\ owed[u] = h /\ Owed(u) /\ HandleFor(u) = n
    BY <2>1 DEF JoinInv, Joining, HandleFor, Owed
  <2>4. n \in Handles \ {Main, h}
    BY <2>1, <2>3 DEF JoinInv, Started
  <2>5. \A v \in Objects : Owed(v)' => v # u /\ Owed(v) /\ owed'[v] = owed[v]
    BY <2>1, <2>3 DEF Owed, TypeOK
  <2>6. \A v \in Objects \ {u} : owed'[v] = owed[v] /\ (Owed(v)' <=> Owed(v))
    BY <2>1 DEF Owed, TypeOK
  <2>7. \A v \in Objects \ {u} : Owed(v) =>
          HandleFor(v)' = HandleFor(v) /\ HandleFor(v) # n /\ owed[v] # n
    <3> SUFFICES ASSUME NEW v \in Objects \ {u}, Owed(v)
                 PROVE  HandleFor(v)' = HandleFor(v) /\ HandleFor(v) # n /\ owed[v] # n
      OBVIOUS
    <3>1. HandleFor(v)' = HandleFor(v)
      BY <2>1, <2>6 DEF HandleFor, Owed, TypeOK
    <3>2. HandleFor(v) # n
      BY <2>3 DEF JoinInv, Distinct
    <3>3. owed[v] # n
      BY <2>1 DEF JoinInv, Started
    <3> QED
      BY <3>1, <3>2, <3>3
  <2>8. Storing' /\ Joining'
    BY <2>1, <2>3 DEF JoinInv, Storing, Joining, TypeOK
  <2>9. Started'
    BY <2>1, <2>4, <2>5, <2>7 DEF JoinInv, Started, TypeOK
  <2>10. Distinct'
    BY <2>5, <2>7 DEF JoinInv, Distinct
  <2>11. Acyclic'
    BY <2>5, <2>7 DEF JoinInv, Acyclic
  <2>12. Known'
    BY <2>1, <2>3, <2>4, <2>6, <2>7 DEF JoinInv, Known, TypeOK
  <2>13. end' # "failed" /\ state'[Main] = "running" /\ self'[Main] = NoObject
    BY <2>1, <2>4 DEF JoinInv, TypeOK
  <2> QED
    BY <2>2, <2>8, <2>9, <2>10, <2>11, <2>12, <2>13 DEF JoinInv
<1>6. ASSUME NEW h \in Handles, AsyncMethodCallEnds(h) PROVE JoinInv'
  BY <1>6 DEF AsyncMethodCallEnds, JoinInv, Idle, Storing, Joining, Started, Distinct, Acyclic, Known, HandleFor, Owed, threadVars, Keeps, TypeOK
<1>7. ASSUME NEW h \in Handles, NEW k \in Mutexes, AssignMutex(h, k) PROVE JoinInv'
  <2>1. pc' = [pc EXCEPT ![h] = "run"]
    BY <1>7 DEF AssignMutex, TypeOK
  <2> QED
    BY <1>7, <2>1, JoinsUnchanged DEF AssignMutex
<1>8. ASSUME NEW h \in Handles, EvaluateForStart(h) PROVE JoinInv'
  BY <1>8, JoinsUnchanged DEF EvaluateForStart
<1>9. ASSUME NEW h \in Handles, CriticalOnNil(h) PROVE JoinInv'
  <2>1. pc' = [pc EXCEPT ![h] = "run"]
    BY <1>9 DEF CriticalOnNil, TypeOK
  <2> QED
    BY <1>9, <2>1, JoinsUnchanged DEF CriticalOnNil
<1>10. ASSUME NEW h \in Handles, EvaluateForEnd(h) PROVE JoinInv'
  BY <1>10, JoinsUnchanged DEF EvaluateForEnd
<1>11. ASSUME NEW h \in Handles, CriticalStart(h) PROVE JoinInv'
  BY <1>11, JoinsUnchanged DEF CriticalStart
<1>12. ASSUME NEW h \in Handles, CriticalEnd(h) PROVE JoinInv'
  BY <1>12, JoinsUnchanged DEF CriticalEnd
<1>13. ASSUME NEW h \in Handles, JumpOut(h) PROVE JoinInv'
  <2>1. pc' = [pc EXCEPT ![h] = "run"]
    BY <1>13 DEF JumpOut, TypeOK
  <2> QED
    BY <1>13, <2>1, JoinsUnchanged DEF JumpOut, JoinInv
<1>14. ASSUME NEW h \in Handles, LoadAndAdd(h) PROVE JoinInv'
  BY <1>14, JoinsUnchanged DEF LoadAndAdd
<1>15. ASSUME NEW h \in Handles, StoreSum(h) PROVE JoinInv'
  BY <1>15, JoinsUnchanged DEF StoreSum
<1>16. CASE MainEnds
  BY <1>16 DEF MainEnds, JoinInv, Idle, Storing, Joining, Started, Distinct, Acyclic, Known, HandleFor, Owed, threadVars, Keeps, TypeOK
<1>17. CASE UNCHANGED vars
  BY <1>17 DEF vars, JoinInv, Idle, Storing, Joining, Started, Distinct, Acyclic, Known, HandleFor, Owed, threadVars, Keeps, TypeOK
<1> QED
  BY <1>1, <1>2, <1>3, <1>4, <1>5, <1>6, <1>7, <1>8, <1>9, <1>10, <1>11, <1>12, <1>13, <1>14, <1>15, <1>16, <1>17 DEF Next, Step

(* In a program that joins what it executed, once, no Join of               *)
(* vm/common.cpp fails: it is given the handle of a thread that has been    *)
(* started and not joined yet, although Execute stores the handle late.     *)
THEOREM EveryJoinReturns == Spec => []JoinsSucceed
<1>1. Init => JoinInv
  BY ConcurrencyAssumption DEF Init, JoinInv, Idle, Storing, Joining, Started, Distinct, Acyclic, Known, Owed
<1>2. JoinInv => JoinsSucceed
  BY DEF JoinInv, JoinsSucceed
<1> QED
  BY <1>1, <1>2, JoinsInductive, ThreadsTyped, PTL DEF Spec

(* And none returns while the thread started from its object runs.          *)
THEOREM JoinsCorrect == Spec => JoinSound
<1>1. Init => JoinInv
  BY ConcurrencyAssumption DEF Init, JoinInv, Idle, Storing, Joining, Started, Distinct, Acyclic, Known, Owed
<1>2. TypeOK /\ JoinInv /\ [Next]_vars =>
        \A h \in Handles :
          "joins" \in rules /\ pc[h] = "join" /\ pc'[h] = "run" =>
            \A n \in Handles : state[n] = "running" => self[n] # object[h]
  <2> SUFFICES ASSUME TypeOK, JoinInv, "joins" \in rules, NEW h \in Handles, pc[h] = "join", pc'[h] = "run",
                      [Next]_vars, NEW n \in Handles, state[n] = "running", self[n] = object[h]
               PROVE  FALSE
    OBVIOUS
  <2>1. object[h] \in Objects /\ Owed(object[h]) /\ HandleFor(object[h]) = thread[h]
    BY ConcurrencyAssumption DEF JoinInv, Joining, HandleFor, Owed
  <2>2. n # Main
    BY <2>1, ConcurrencyAssumption DEF JoinInv
  <2>3. thread[h] = n
    BY <2>1, <2>2 DEF JoinInv, Known
  <2>4. JoinReturns(h)
    <3> USE DEF Running, AtStatement, Goto, TypeOK
    <3>1. ASSUME NEW g \in Handles, Step(g) PROVE g = h
      <4>1. g # h => pc'[h] = pc[h]
        BY <3>1 DEF Step, ProcessAsyncMethodCall, Join, JoinError, StoreHandle, JoinReturns, AsyncMethodCallEnds,
             AssignMutex, EvaluateForStart, CriticalOnNil, EvaluateForEnd, CriticalStart, CriticalEnd, JumpOut, LoadAndAdd, StoreSum
      <4> QED
        BY <4>1
    <3>2. ~MainEnds /\ ~UNCHANGED vars
      BY DEF MainEnds, vars
    <3>3. Step(h)
      BY <3>1, <3>2 DEF Next
    <3> QED
      BY <3>3 DEF Step, ProcessAsyncMethodCall, Join, MayJoin, JoinError, StoreHandle, AsyncMethodCallEnds,
           AssignMutex, EvaluateForStart, CriticalOnNil, EvaluateForEnd, CriticalStart, CriticalEnd, JumpOut, LoadAndAdd, StoreSum
  <2> QED
    BY <2>3, <2>4 DEF JoinReturns, Ended
<1> QED
  BY <1>1, <1>2, JoinsInductive, ThreadsTyped, PTL DEF Spec, JoinSound
=============================================================================
