---------------------------- MODULE MCConcurrency ----------------------------
(* An instance of Concurrency for TLC.                                     *)
EXTENDS Concurrency, TLC

CONSTANTS main, h1, h2, u1, u2, k1, k2

(* The more a program keeps to, the longer it runs.                        *)
FuelOf == [r \in SUBSET Rules |-> IF r = Rules THEN 7 ELSE IF r = {} THEN 2 ELSE 3]
=============================================================================
