---------------------------- MODULE AbstractHeap ----------------------------
(***************************************************************************)
(* What a garbage-collected heap promises a program: a block it can reach  *)
(* stays, with its contents, until the program itself changes them; a new  *)
(* block is not one in use and starts out empty; and only blocks that      *)
(* nothing reaches are ever taken back.                                    *)
(***************************************************************************)
CONSTANT Addr

VARIABLES
  live,   \* blocks in use
  root,   \* blocks the program refers to directly
  edge    \* blocks that each block in use refers to

vars == <<live, root, edge>>

Closed(S) == root \subseteq S /\ \A a \in S : edge[a] \subseteq S
Reachable == {a \in Addr : \A S \in SUBSET Addr : Closed(S) => a \in S}

Init ==
  /\ live = {}
  /\ root = {}
  /\ edge = [a \in Addr |-> {}]

(* The program moves references: it only has those it can reach. *)
Mutate ==
  /\ live' = live
  /\ root' \subseteq Reachable
  /\ edge' \in [Addr -> SUBSET Addr]
  /\ \A a \in Addr : edge'[a] # edge[a] =>
       a \in Reachable /\ edge'[a] \subseteq Reachable

Allocate ==
  \E a \in Addr \ live :
    /\ live' = live \cup {a}
    /\ root' = root \cup {a}
    /\ edge' = [edge EXCEPT ![a] = {}]

Reclaim ==
  /\ live' \subseteq live
  /\ live \ live' \subseteq Addr \ Reachable
  /\ root' = root
  /\ edge' = [a \in Addr |-> IF a \in live' THEN edge[a] ELSE {}]

Next == Mutate \/ Allocate \/ Reclaim

Spec == Init /\ [][Next]_vars
=============================================================================
