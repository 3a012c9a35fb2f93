------------------------------ MODULE MCMemory ------------------------------
(* Small instances of MemoryManager for TLC. *)
EXTENDS MemoryInvariant, TLC

CONSTANTS a1, a2, a3, main, run, self, param, s1, f1

(* one instance variable per object, frames hold only the instance *)
ObjDecl == [v \in Locals \cup Statics \cup Fields |-> "OBJ_PARM"]

(* a variable of the frame that is an array of references                  *)
ArrayDecl == [v \in Locals \cup Statics \cup Fields |->
  IF v = param THEN "OBJ_ARY_PARM" ELSE "OBJ_PARM"]

(* call stacks: of at most two or three frames, and of the thread that main  *)
(* creates of one only                                                     *)
TwoCalls == [t \in Threads |-> 2]
ThreeCalls == [t \in Threads |-> 3]
MainCalls == [t \in Threads |-> IF t = main THEN 3 ELSE 1]

Blocks == Permutations(Addr)
=============================================================================
