----------------------------- MODULE AbstractCalls -----------------------------
(* What calling a method promises a thread, whoever executes the method: a  *)
(* call starts the method called, and when it returns its caller goes on.   *)
EXTENDS Integers, Sequences

CONSTANTS Threads, Methods

VARIABLE act  \* methods each thread has called and not returned from

Init == \A t \in Threads : act[t] \in {<<m>> : m \in Methods} \cup {<< >>}

Call(t) == \E m \in Methods : act' = [act EXCEPT ![t] = Append(@, m)]

Return(t) ==
  /\ act[t] # << >>
  /\ act' = [act EXCEPT ![t] = SubSeq(@, 1, Len(@) - 1)]

(* A thread is stopped. *)
Stop(t) == act' = [act EXCEPT ![t] = << >>]

Next == \E t \in Threads : Call(t) \/ Return(t) \/ Stop(t)

Spec == Init /\ [][Next]_act
=============================================================================
