---------------------------- MODULE MCInterpreter ----------------------------
(* Small instances of Interpreter *)
EXTENDS Interpreter, TLC

CONSTANTS f1, f2, f3, f4, f5, f6, f7, f8

CONSTANTS main, run
Levels == [t \in Threads |-> IF t = main THEN 5 ELSE 2]
Frames == Permutations(Frame \ Preload) \cup Permutations(Preload)
==============================================================================
