------------------------------- MODULE MCPools -------------------------------
(* Small instances of MemoryPools: one block in each pool, or none, and a   *)
(* few blocks of calloc; sizes are in bytes, as in the program.             *)
EXTENDS MemoryPools, TLC

CONSTANTS p16, p32, p64, p256, p512, c1, c2, t1, t2

OneEach == 16 :> {p16} @@ 32 :> {p32} @@ 64 :> {p64} @@ 256 :> {p256} @@ 512 :> {p512}

Object(n) == [obj |-> TRUE, size |-> n]
Array(n) == [obj |-> FALSE, size |-> n]

(* With 4-byte words: blocks of 16, 64, 65 and 513 bytes of the thread that  *)
(* uses the pools, of 1216 of the one that does not.                        *)
Requests32 == t1 :> {Array(0), Object(24), Array(49), Array(497)} @@ t2 :> {Object(600)}
(* With 8-byte words: blocks of 32, 96, 512 and 544 bytes.                  *)
Requests64 == t1 :> {Array(0), Object(16), Object(120), Object(128)}

Heap == Permutations({c1, c2})
==============================================================================
