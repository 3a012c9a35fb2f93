----------------------------- MODULE FoldTheorems -----------------------------
(***************************************************************************)
(* FoldLeft of the community modules is a recursive function over sets of  *)
(* positions.  For an operation Op it is what one expects: nothing on the  *)
(* empty sequence, and one more Op for an element at the end.  A module    *)
(* that folds takes these theorems by INSTANCE with its own Op.            *)
(***************************************************************************)
EXTENDS SequencesExt, FiniteSetTheorems, WellFoundedInduction, TLAPS

CONSTANT Op(_, _)

Left(base, s) == FoldLeft(Op, base, s)

-----------------------------------------------------------------------------
(* Induction, without an operator for what is proved. *)
LEMMA SmallestNumber ==
  ASSUME NEW T, T \subseteq Nat, T # {}
  PROVE  \E n \in T : \A m \in T : ~ (m < n)
<1>1. \E n \in T : \A m \in T : ~ (<<m, n>> \in OpToRel(<, Nat))
  BY NatLessThanWellFounded, WFMin
<1>2. \A m, n \in Nat : <<m, n>> \in OpToRel(<, Nat) <=> m < n
  BY DEF OpToRel
<1> QED BY <1>1, <1>2

(* A set of numbers with 0 and the successor of each of its elements has all of
   them. *)
THEOREM SetInduction ==
  ASSUME NEW S, 0 \in S, \A n \in Nat : n \in S => n + 1 \in S
  PROVE  Nat \subseteq S
<1> SUFFICES ASSUME Nat \ S # {} PROVE FALSE
  OBVIOUS
<1>1. PICK n \in Nat \ S : \A m \in Nat \ S : ~ (m < n)
  BY SmallestNumber
<1>2. n # 0 /\ n - 1 \in Nat /\ n - 1 < n /\ (n - 1) + 1 = n
  BY <1>1
<1>3. n - 1 \in S
  BY <1>1, <1>2
<1> QED BY <1>1, <1>2, <1>3

(* The greatest of some of the first n numbers is one of them. *)
LEMMA Greatest ==
  ASSUME NEW n \in Nat, NEW s, \A m \in s : m \in 1..n, s # {}
  PROVE  Max(s) \in s /\ \A m \in s : Max(s) >= m
<1> DEFINE T == {n - m : m \in s}
<1>1. \A m \in s : m \in Nat /\ m <= n /\ n - m \in Nat /\ n - m \in T
  OBVIOUS
<1>2. \A k \in T : \E m \in s : k = n - m
  OBVIOUS
<1>3. T # {}
  <2>1. PICK m \in s : TRUE
    OBVIOUS
  <2> QED BY <2>1, <1>1
<1> HIDE DEF T
<1>4. T \subseteq Nat
  BY <1>1, <1>2
<1>5. PICK k \in T : \A m \in T : ~ (m < k)
  BY <1>3, <1>4, SmallestNumber
<1>6. PICK x \in s : k = n - x
  BY <1>2
<1>7. ASSUME NEW m \in s PROVE x >= m
  <2>1. x \in Nat /\ m \in Nat /\ ~ (n - m < n - x)
    BY <1>1, <1>5, <1>6
  <2> QED BY <2>1
<1>8. \E y \in s : \A m \in s : y >= m
  BY <1>7
<1> QED BY <1>8 DEF Max

LEMMA GreatestOf ==
  ASSUME NEW n \in Nat
  PROVE  /\ Max(1..(n + 1)) = n + 1 /\ (1..(n + 1)) \ {n + 1} = 1..n /\ 1..(n + 1) # {}
<1>1. PICK s : s = 1..(n + 1)
  OBVIOUS
<1>2. n + 1 \in Nat /\ n + 1 \in s /\ s \ {n + 1} = 1..n /\ \A m \in s : m \in 1..(n + 1)
  BY <1>1
<1>3. s # {}
  BY <1>2
<1>4. Max(s) \in s /\ \A m \in s : Max(s) >= m
  BY <1>2, <1>3, Greatest
<1>5. Max(s) \in Int /\ Max(s) <= n + 1 /\ Max(s) >= n + 1
  BY <1>2, <1>4
<1>6. Max(s) = n + 1
  BY <1>5
<1> QED BY <1>1, <1>2, <1>3, <1>6

-----------------------------------------------------------------------------
(* One turn of the recursion: f is what the smaller sets give. *)
Positions(n) == SUBSET (1..n)
Turn(base, seq, f, s) == IF s = {} THEN base ELSE Op(f[s \ {Max(s)}], seq[Max(s)])
Turns(base, seq, n, f) == f = [s \in Positions(n) |-> Turn(base, seq, f, s)]
Solves(base, seq, n, f) == \A s \in Positions(n) : f[s] = Turn(base, seq, f, s)

\* f is right on the sets of up to k positions
Upto(base, seq, n, f, k) ==
  \A s \in Positions(n) : Cardinality(s) <= k => f[s] = Turn(base, seq, f, s)

LEMMA Sizes ==
  ASSUME NEW n \in Nat, NEW s \in Positions(n)
  PROVE  /\ Cardinality(s) \in Nat /\ Cardinality(s) <= n /\ (Cardinality(s) = 0 => s = {})
         /\ s \ {Max(s)} \in Positions(n)
         /\ s # {} => Cardinality(s \ {Max(s)}) = Cardinality(s) - 1
<1>1. IsFiniteSet(1..n) /\ Cardinality(1..n) = n
  BY FS_Interval
<1>2. s \subseteq 1..n /\ s \ {Max(s)} \in Positions(n) /\ \A m \in s : m \in 1..n
  BY DEF Positions
<1>3. IsFiniteSet(s) /\ Cardinality(s) <= Cardinality(1..n)
  BY <1>1, <1>2, FS_Subset
<1>4. Cardinality(s) \in Nat /\ (Cardinality(s) = 0 => s = {})
  BY <1>3, FS_CardinalityType, FS_EmptySet
<1>5. s # {} => Cardinality(s \ {Max(s)}) = Cardinality(s) - 1
  BY <1>2, <1>3, Greatest, FS_RemoveElement
<1> QED BY <1>1, <1>2, <1>3, <1>4, <1>5

LEMMA NextTurn ==
  ASSUME NEW base, NEW seq, NEW n \in Nat, NEW f, NEW k \in Nat, Upto(base, seq, n, f, k),
         NEW g, g = [s \in Positions(n) |-> Turn(base, seq, f, s)]
  PROVE  Upto(base, seq, n, g, k + 1)
<1> SUFFICES ASSUME NEW s \in Positions(n), Cardinality(s) <= k + 1
             PROVE  g[s] = Turn(base, seq, g, s)
  BY DEF Upto
<1>1. CASE s = {}
  BY <1>1 DEF Turn
<1>2. CASE s # {}
  <2>1. PICK r \in Positions(n) : r = s \ {Max(s)} /\ Cardinality(r) <= k
    <3>1. /\ Cardinality(s) \in Nat /\ s \ {Max(s)} \in Positions(n)
          /\ Cardinality(s \ {Max(s)}) = Cardinality(s) - 1
      BY <1>2, Sizes
    <3> QED BY <3>1
  <2>2. f[r] = Turn(base, seq, f, r) /\ g[r] = Turn(base, seq, f, r)
    BY <2>1 DEF Upto
  <2> QED BY <1>2, <2>1, <2>2 DEF Turn
<1> QED BY <1>1, <1>2

LEMMA TurnsExist ==
  ASSUME NEW base, NEW seq, NEW n \in Nat
  PROVE  \E f : Turns(base, seq, n, f)
<1> DEFINE T == {k \in Nat : \E f : Upto(base, seq, n, f, k)}
<1>1. 0 \in T
  <2>1. PICK f : f = [s \in Positions(n) |-> base]
    OBVIOUS
  <2>2. ASSUME NEW s \in Positions(n), Cardinality(s) <= 0 PROVE s = {}
    <3>1. Cardinality(s) \in Nat /\ (Cardinality(s) = 0 => s = {})
      BY Sizes
    <3> QED BY <2>2, <3>1
  <2>3. Upto(base, seq, n, f, 0)
    BY <2>1, <2>2 DEF Upto, Turn
  <2> QED BY <2>3
<1>2. ASSUME NEW k \in Nat, k \in T PROVE k + 1 \in T
  <2>1. PICK f : Upto(base, seq, n, f, k)
    BY <1>2
  <2>2. PICK g : g = [s \in Positions(n) |-> Turn(base, seq, f, s)]
    OBVIOUS
  <2>3. Upto(base, seq, n, g, k + 1)
    BY <2>1, <2>2, NextTurn
  <2> QED BY <2>3
<1>3. n \in T
  <2> HIDE DEF T
  <2> QED BY <1>1, <1>2, SetInduction
<1>4. PICK f : Upto(base, seq, n, f, n)
  BY <1>3
<1> HIDE DEF T
<1>5. PICK g : g = [s \in Positions(n) |-> Turn(base, seq, f, s)]
  OBVIOUS
<1>6. Upto(base, seq, n, g, n + 1)
  BY <1>4, <1>5, NextTurn
<1>7. ASSUME NEW s \in Positions(n) PROVE Cardinality(s) <= n + 1
  <2>1. Cardinality(s) \in Nat /\ Cardinality(s) <= n
    BY Sizes
  <2> QED BY <2>1
<1>8. \A s \in Positions(n) : g[s] = Turn(base, seq, g, s)
  BY <1>6, <1>7 DEF Upto
<1>9. g = [s \in Positions(n) |-> g[s]]
  BY <1>5
<1>10. Turns(base, seq, n, g)
  BY <1>8, <1>9 DEF Turns
<1> QED BY <1>10

LEMMA LeftIs ==
  ASSUME NEW base, NEW seq, NEW n \in Nat, DOMAIN seq = 1..n
  PROVE  \E f : Solves(base, seq, n, f) /\ Left(base, seq) = f[1..n]
<1> DEFINE f == CHOOSE h : Turns(base, seq, n, h)
<1>1. Turns(base, seq, n, f)
  BY TurnsExist
<1>2. Left(base, seq) = f[1..n]
  BY DEF Left, FoldLeft, MapThenFoldSet, Turns, Turn, Positions
<1> HIDE DEF f
<1>3. Solves(base, seq, n, f)
  BY <1>1 DEF Turns, Solves
<1> QED BY <1>2, <1>3

(* Folding nothing gives the base. *)
THEOREM LeftEmpty ==
  ASSUME NEW base, NEW seq, DOMAIN seq = {}
  PROVE  Left(base, seq) = base
<1>1. DOMAIN seq = 1..0 /\ {} = 1..0 /\ {} \in Positions(0)
  BY DEF Positions
<1>2. PICK f : Solves(base, seq, 0, f) /\ Left(base, seq) = f[1..0]
  BY <1>1, LeftIs
<1>3. f[{}] = Turn(base, seq, f, {})
  BY <1>1, <1>2 DEF Solves
<1> QED BY <1>1, <1>2, <1>3 DEF Turn

(* The last element of a sequence is folded last. *)
THEOREM LeftLast ==
  ASSUME NEW base, NEW n \in Nat, NEW seq, DOMAIN seq = 1..n,
         NEW more, DOMAIN more = 1..(n + 1), \A k \in 1..n : more[k] = seq[k]
  PROVE  Left(base, more) = Op(Left(base, seq), more[n + 1])
<1>1. PICK f : Solves(base, seq, n, f) /\ Left(base, seq) = f[1..n]
  BY LeftIs
<1>2. PICK g : Solves(base, more, n + 1, g) /\ Left(base, more) = g[1..(n + 1)]
  BY LeftIs
<1> DEFINE T == {k \in Nat : k <= n => g[1..k] = f[1..k]}
<1>3. ASSUME NEW b, NEW q, NEW N \in Nat, NEW h, Solves(b, q, N, h), NEW k \in Nat, k + 1 <= N
      PROVE  h[1..(k + 1)] = Op(h[1..k], q[k + 1])
  <2>1. 1..(k + 1) \in Positions(N)
    BY <1>3 DEF Positions
  <2>2. h[1..(k + 1)] = Turn(b, q, h, 1..(k + 1))
    BY <1>3, <2>1 DEF Solves
  <2> QED BY <2>2, GreatestOf DEF Turn
<1>4. 0 \in T
  <2>1. 1..0 = {} /\ {} \in Positions(n) /\ {} \in Positions(n + 1)
    BY DEF Positions
  <2>2. g[{}] = f[{}]
    BY <1>1, <1>2, <2>1 DEF Solves, Turn
  <2> QED BY <2>1, <2>2
<1>5. ASSUME NEW k \in Nat, k \in T PROVE k + 1 \in T
  <2> SUFFICES ASSUME k + 1 <= n PROVE g[1..(k + 1)] = f[1..(k + 1)]
    OBVIOUS
  <2>1. f[1..(k + 1)] = Op(f[1..k], seq[k + 1])
    BY <1>1, <1>3
  <2>2. g[1..(k + 1)] = Op(g[1..k], more[k + 1])
    BY <1>2, <1>3
  <2>3. g[1..k] = f[1..k] /\ more[k + 1] = seq[k + 1]
    BY <1>5
  <2> QED BY <2>1, <2>2, <2>3
<1> HIDE DEF T
<1>6. n \in T
  BY <1>4, <1>5, SetInduction
<1>7. g[1..n] = f[1..n]
  BY <1>6 DEF T
<1>8. g[1..(n + 1)] = Op(g[1..n], more[n + 1])
  BY <1>2, <1>3
<1> QED BY <1>1, <1>2, <1>7, <1>8
===============================================================================
