------------------------ MODULE Interpreter_proofs -------------------------
(***************************************************************************)
(* Frames and calls of the interpreter, for any number of threads, methods *)
(* and frames, with and without a call stack of its own for each nested    *)
(* interpreter: frames are well formed, each is in one place, those marked *)
(* jit_called are those native code waits for, and calls return as they    *)
(* should.                                                                 *)
(***************************************************************************)
EXTENDS Interpreter, WellFoundedInduction, FiniteSetTheorems, SequenceTheorems, TLAPS

-----------------------------------------------------------------------------
(* FlattenSeq *)

(* Induction over the natural numbers, for a set. *)
LEMMA SmallestNumber ==
  ASSUME NEW T, T \subseteq Nat, T # {}
  PROVE  \E n \in T : \A m \in T : ~ (m < n)
<1>1. \E n \in T : \A m \in T : ~ (<<m, n>> \in OpToRel(<, Nat))
  BY NatLessThanWellFounded, WFMin
<1>2. \A m, n \in Nat : <<m, n>> \in OpToRel(<, Nat) <=> m < n
  BY DEF OpToRel
<1> QED BY <1>1, <1>2

LEMMA SetInduction ==
  ASSUME NEW S, 0 \in S, \A n \in Nat : n \in S => n + 1 \in S
  PROVE  Nat \subseteq S
<1> SUFFICES ASSUME Nat \ S # {} PROVE FALSE
  OBVIOUS
<1>1. PICK n \in Nat \ S : \A m \in Nat \ S : ~ (m < n)
  BY SmallestNumber
<1>2. n # 0 /\ n - 1 \in Nat /\ n - 1 < n /\ (n - 1) + 1 = n
  BY <1>1
<1>3. n - 1 \in S
  BY <1>1, <1>2
<1> QED BY <1>1, <1>2, <1>3

(* The recursive function behind FlattenSeq, for the first n of the          *)
(* sequences s.                                                            *)
Flattened(s, n, f) ==
  f = [i \in 1..n |-> IF i = 1 THEN s[i] ELSE f[i-1] \o s[i]]

LEMMA FlattenedAt ==
  ASSUME NEW s, NEW n, NEW f, Flattened(s, n, f), NEW i \in 1..n
  PROVE  f[i] = IF i = 1 THEN s[i] ELSE f[i-1] \o s[i]
BY DEF Flattened

(* So it satisfies the recursion; and two sequences may begin alike. *)
Recurs(s, n, f) == \A i \in 1..n : f[i] = IF i = 1 THEN s[i] ELSE f[i-1] \o s[i]
Agree(f, g, n) == \A i \in 1..n : f[i] = g[i]

LEMMA FlattenedExists ==
  ASSUME NEW s
  PROVE  \A n \in Nat : \E f : Flattened(s, n, f)
<1> DEFINE T == {n \in Nat : \E f : Flattened(s, n, f)}
<1>1. 0 \in T
  <2>1. Flattened(s, 0, << >>)
    BY DEF Flattened
  <2> QED BY <2>1
<1>2. ASSUME NEW n \in Nat, n \in T PROVE n + 1 \in T
  <2>1. PICK f : Flattened(s, n, f)
    BY <1>2
  <2> DEFINE last == IF n = 0 THEN s[1] ELSE f[n] \o s[n + 1]
             g == [i \in 1..(n+1) |-> IF i = n + 1 THEN last ELSE f[i]]
  <2>2. \A i \in 1..n : f[i] = IF i = 1 THEN s[i] ELSE f[i-1] \o s[i]
    BY <2>1 DEF Flattened
  <2>3. \A i \in 1..n : g[i] = f[i]
    OBVIOUS
  <2>4. g[n+1] = last
    OBVIOUS
  <2> HIDE DEF g
  <2>5. \A i \in 1..(n+1) : g[i] = IF i = 1 THEN s[i] ELSE g[i-1] \o s[i]
    <3> SUFFICES ASSUME NEW i \in 1..(n+1) PROVE g[i] = IF i = 1 THEN s[i] ELSE g[i-1] \o s[i]
      OBVIOUS
    <3>1. CASE i = n + 1
      <4>1. i # 1 => i - 1 = n /\ n \in 1..n
        BY <3>1
      <4> QED BY <2>3, <2>4, <3>1, <4>1
    <3>2. CASE i # n + 1
      <4>1. i \in 1..n /\ (i # 1 => i - 1 \in 1..n)
        BY <3>2
      <4> QED BY <2>2, <2>3, <4>1
    <3> QED BY <3>1, <3>2
  <2>6. g = [i \in 1..(n+1) |-> IF i = 1 THEN s[i] ELSE g[i-1] \o s[i]]
    <3>1. g = [i \in 1..(n+1) |-> g[i]]
      BY DEF g
    <3> QED BY <2>5, <3>1
  <2>7. Flattened(s, n + 1, g)
    BY <2>6 DEF Flattened
  <2> QED BY <2>7
<1> HIDE DEF T
<1>3. Nat \subseteq T
  BY <1>1, <1>2, SetInduction
<1> QED BY <1>3 DEF T

LEMMA FlattenedUnique ==
  ASSUME NEW n \in Nat, NEW f, NEW g, NEW s,
         Recurs(s, n, f), Recurs(s, n, g)
  PROVE  Agree(f, g, n)
<1> DEFINE T == {i \in 1..n : f[i] # g[i]}
<1> SUFFICES ASSUME T # {} PROVE FALSE
  BY DEF Agree
<1>0. T \subseteq Nat
  OBVIOUS
<1>1. PICK i \in T : \A j \in T : ~ (j < i)
  BY <1>0, SmallestNumber
<1>2. i # 1 => i - 1 \in 1..n /\ i - 1 < i
  OBVIOUS
<1>3. i # 1 => f[i-1] = g[i-1]
  BY <1>1, <1>2
<1> QED BY <1>3 DEF Recurs

LEMMA FlattenIs ==
  ASSUME NEW s, NEW n \in Nat, Len(s) = n
  PROVE  \E f : Flattened(s, n, f) /\ (n # 0 => FlattenSeq(s) = f[n])
<1> DEFINE f == CHOOSE h : Flattened(s, n, h)
<1>1. \E h : Flattened(s, n, h)
  BY FlattenedExists
<1>2. Flattened(s, n, f)
  BY <1>1
<1>3. n # 0 => FlattenSeq(s) = f[n]
  BY DEF FlattenSeq, Flattened
<1> QED BY <1>2, <1>3

(* FlattenSeq appends the sequences one after the other. *)
LEMMA FlattenEmpty == FlattenSeq(<< >>) = << >>
BY DEF FlattenSeq

LEMMA FlattenNext ==
  ASSUME NEW n \in Nat, n # 0, NEW m \in Nat, m = n + 1,
         NEW s, Len(s) = m, NEW r, Len(r) = n, Agree(r, s, n)
  PROVE  FlattenSeq(s) = FlattenSeq(r) \o s[m]
<1>0. m # 0 /\ m \in 1..m /\ 1..n \subseteq 1..m /\ n \in 1..n /\ m - 1 = n /\ m # 1
  OBVIOUS
<1>1. PICK f : Flattened(s, m, f) /\ FlattenSeq(s) = f[m]
  BY <1>0, FlattenIs
<1>2. PICK g : Flattened(r, n, g) /\ (n # 0 => FlattenSeq(r) = g[n])
  BY FlattenIs
<1>3. \A i \in 1..m : f[i] = IF i = 1 THEN s[i] ELSE f[i-1] \o s[i]
  BY <1>1, FlattenedAt
<1>4. \A i \in 1..n : g[i] = IF i = 1 THEN r[i] ELSE g[i-1] \o r[i]
  BY <1>2, FlattenedAt
<1>5. Agree(f, g, n)
  <2>1. Recurs(s, n, f)
    BY <1>0, <1>3 DEF Recurs
  <2>2. Recurs(s, n, g)
    BY <1>4 DEF Recurs, Agree
  <2> QED BY <2>1, <2>2, FlattenedUnique
<1>6. f[m] = f[n] \o s[m]
  BY <1>0, <1>3
<1>7. f[n] = FlattenSeq(r)
  BY <1>0, <1>2, <1>5 DEF Agree
<1> QED BY <1>1, <1>6, <1>7

LEMMA FlattenOne == ASSUME NEW s, Len(s) = 1 PROVE FlattenSeq(s) = s[1]
<1>1. PICK n \in Nat : n = 1
  OBVIOUS
<1>2. PICK f : Flattened(s, n, f) /\ (n # 0 => FlattenSeq(s) = f[n])
  BY <1>1, FlattenIs
<1>3. n \in 1..n /\ n # 0
  BY <1>1
<1>4. f[n] = IF n = 1 THEN s[n] ELSE f[n-1] \o s[n]
  BY <1>2, <1>3, FlattenedAt
<1> QED BY <1>1, <1>2, <1>3, <1>4

LEMMA FlattenLast ==
  ASSUME NEW n \in Nat, NEW m \in Nat, m = n + 1, NEW s, Len(s) = m, NEW r, Len(r) = n,
         Agree(r, s, n), n = 0 => r = << >>, << >> \o s[m] = s[m]
  PROVE  FlattenSeq(s) = FlattenSeq(r) \o s[m]
<1>1. CASE n = 0
  <2>1. FlattenSeq(r) = << >> /\ << >> \o s[m] = s[m]
    BY <1>1, FlattenEmpty
  <2>2. FlattenSeq(s) = s[m]
    <3>1. m = 1
      BY <1>1
    <3> QED BY <3>1, FlattenOne
  <2> QED BY <2>1, <2>2
<1>2. CASE n # 0
  BY <1>2, FlattenNext
<1> QED BY <1>1, <1>2

-----------------------------------------------------------------------------
(* Levels of a thread *)

(* The frames on the call stacks of the levels ls. *)
Flat(ls) == FlattenSeq([i \in DOMAIN ls |-> ls[i].stack])

LEMMA FlatEmpty == Flat(<< >>) = << >>
<1>1. [i \in DOMAIN << >> |-> << >>[i].stack] = << >>
  OBVIOUS
<1> QED BY <1>1, FlattenEmpty DEF Flat

LEMMA FlatLast ==
  ASSUME NEW n \in Nat, NEW m \in Nat, m = n + 1,
         NEW ls \in Seq(LevelType), Len(ls) = m, NEW rs \in Seq(LevelType), Len(rs) = n,
         \A i \in 1..n : rs[i].stack = ls[i].stack
  PROVE  Flat(ls) = Flat(rs) \o ls[m].stack
<1> DEFINE s == [i \in DOMAIN ls |-> ls[i].stack]
           r == [i \in DOMAIN rs |-> rs[i].stack]
<1>1. DOMAIN ls = 1..m /\ DOMAIN rs = 1..n /\ m \in 1..m
  OBVIOUS
<1>2. Len(s) = m /\ Len(r) = n /\ s[m] = ls[m].stack
  BY <1>1
<1>3. \A i \in 1..n : r[i] = s[i]
  BY <1>1
<1>4. ls[m].stack \in Seq(Frame)
  <2>1. ls[m] \in LevelType
    BY <1>1
  <2> QED BY <2>1 DEF LevelType
<1>5. n = 0 => r = << >>
  BY <1>1
<1>6. << >> \o s[m] = s[m]
  BY <1>2, <1>4
<1> HIDE DEF s, r
<1>7. FlattenSeq(s) = FlattenSeq(r) \o s[m]
  <2>1. Agree(r, s, n)
    BY <1>3 DEF Agree
  <2> QED BY <1>2, <1>5, <1>6, <2>1, FlattenLast
<1> QED BY <1>2, <1>7 DEF Flat, s, r

(* The levels without the innermost one. *)
LEMMA CutLevels ==
  ASSUME NEW n \in Nat, NEW ls \in Seq(LevelType), Len(ls) = n + 1
  PROVE  \E rs \in Seq(LevelType) :
           rs = SubSeq(ls, 1, n) /\ Len(rs) = n /\ \A i \in 1..n : rs[i] = ls[i]
<1> DEFINE rs == SubSeq(ls, 1, n)
<1>1. rs \in Seq(LevelType) /\ Len(rs) = n /\ \A i \in 1..n : rs[i] = ls[i]
  BY SubSeqProperties
<1> QED BY <1>1

LEMMA FlatCut ==
  ASSUME NEW n \in Nat, NEW m \in Nat, m = n + 1,
         NEW ls \in Seq(LevelType), Len(ls) = m
  PROVE  \E rs \in Seq(LevelType) :
           /\ rs = SubSeq(ls, 1, n) /\ Len(rs) = n /\ \A i \in 1..n : rs[i] = ls[i]
           /\ Flat(ls) = Flat(rs) \o ls[m].stack
           /\ ls[m].stack \in Seq(Frame)
<1>1. PICK rs \in Seq(LevelType) :
        rs = SubSeq(ls, 1, n) /\ Len(rs) = n /\ \A i \in 1..n : rs[i] = ls[i]
  BY CutLevels
<1>2. \A i \in 1..n : rs[i].stack = ls[i].stack
  BY <1>1
<1>3. Flat(ls) = Flat(rs) \o ls[m].stack
  BY <1>1, <1>2, FlatLast
<1>4. ls[m] \in LevelType
  OBVIOUS
<1>5. ls[m].stack \in Seq(Frame)
  BY <1>4 DEF LevelType
<1> QED BY <1>1, <1>3, <1>5

LEMMA FlatTyped == \A ls \in Seq(LevelType) : Flat(ls) \in Seq(Frame)
<1> DEFINE T == {n \in Nat : \A ls \in Seq(LevelType) : Len(ls) = n => Flat(ls) \in Seq(Frame)}
<1>1. 0 \in T
  BY FlatEmpty
<1>2. ASSUME NEW n \in Nat, n \in T PROVE n + 1 \in T
  <2> SUFFICES ASSUME NEW ls \in Seq(LevelType), Len(ls) = n + 1 PROVE Flat(ls) \in Seq(Frame)
    OBVIOUS
  <2>1. PICK m \in Nat : m = n + 1
    OBVIOUS
  <2>2. PICK rs \in Seq(LevelType) :
          /\ Len(rs) = n /\ Flat(ls) = Flat(rs) \o ls[m].stack /\ ls[m].stack \in Seq(Frame)
    BY <2>1, FlatCut
  <2>3. Flat(rs) \in Seq(Frame)
    BY <1>2, <2>2
  <2> QED BY <2>2, <2>3
<1> HIDE DEF T
<1>3. Nat \subseteq T
  BY <1>1, <1>2, SetInduction
<1> QED BY <1>3 DEF T

(* Every frame of a call stack is among them. *)
LEMMA FlatHolds ==
  ASSUME NEW ls \in Seq(LevelType), NEW i \in 1..Len(ls), NEW k \in 1..Len(ls[i].stack)
  PROVE  \E j \in 1..Len(Flat(ls)) : Flat(ls)[j] = ls[i].stack[k]
<1> DEFINE Holds(rs) == \A h \in 1..Len(rs) : \A p \in 1..Len(rs[h].stack) :
                          \E j \in 1..Len(Flat(rs)) : Flat(rs)[j] = rs[h].stack[p]
           T == {n \in Nat : \A rs \in Seq(LevelType) : Len(rs) = n => Holds(rs)}
<1>1. 0 \in T
  OBVIOUS
<1>2. ASSUME NEW n \in Nat, n \in T PROVE n + 1 \in T
  <2> SUFFICES ASSUME NEW rs \in Seq(LevelType), Len(rs) = n + 1,
                      NEW h \in 1..Len(rs), NEW p \in 1..Len(rs[h].stack)
               PROVE  \E j \in 1..Len(Flat(rs)) : Flat(rs)[j] = rs[h].stack[p]
    OBVIOUS
  <2>1. PICK m \in Nat : m = n + 1
    OBVIOUS
  <2>2. PICK qs \in Seq(LevelType) :
          /\ Len(qs) = n /\ \A g \in 1..n : qs[g] = rs[g]
          /\ Flat(rs) = Flat(qs) \o rs[m].stack /\ rs[m].stack \in Seq(Frame)
    BY <2>1, FlatCut
  <2>3. Flat(qs) \in Seq(Frame) /\ Len(Flat(qs)) \in Nat
    BY FlatTyped
  <2>4. /\ Len(Flat(rs)) = Len(Flat(qs)) + Len(rs[m].stack)
        /\ \A j \in 1..Len(Flat(qs)) : Flat(rs)[j] = Flat(qs)[j]
        /\ \A j \in 1..Len(rs[m].stack) : Flat(rs)[Len(Flat(qs)) + j] = rs[m].stack[j]
    BY <2>2, <2>3
  <2>5. CASE h = m
    <3>1. Len(Flat(qs)) + p \in 1..Len(Flat(rs))
      BY <2>2, <2>3, <2>4, <2>5
    <3> QED BY <2>4, <2>5, <3>1
  <2>6. CASE h # m
    <3>1. h \in 1..n /\ qs[h] = rs[h]
      BY <2>1, <2>2, <2>6
    <3>2. PICK j \in 1..Len(Flat(qs)) : Flat(qs)[j] = qs[h].stack[p]
      BY <1>2, <2>2, <3>1
    <3>3. j \in 1..Len(Flat(rs))
      BY <2>2, <2>3, <2>4
    <3> QED BY <2>4, <3>1, <3>2, <3>3
  <2> QED BY <2>5, <2>6
<1> HIDE DEF T
<1>3. Nat \subseteq T
  BY <1>1, <1>2, SetInduction
<1> QED BY <1>3 DEF T

(* Levels of the same call stacks hold the same frames. *)
LEMMA FlatSame ==
  ASSUME NEW ls \in Seq(LevelType), NEW rs \in Seq(LevelType), Len(ls) = Len(rs),
         \A i \in 1..Len(ls) : rs[i].stack = ls[i].stack
  PROVE  Flat(rs) = Flat(ls)
<1>1. DOMAIN ls = DOMAIN rs /\ DOMAIN ls = 1..Len(ls)
  OBVIOUS
<1>2. [i \in DOMAIN rs |-> rs[i].stack] = [i \in DOMAIN ls |-> ls[i].stack]
  BY <1>1
<1> QED BY <1>2 DEF Flat

(* A frame appended to the last of two sequences. *)
LEMMA AppendLast ==
  ASSUME NEW s \in Seq(Frame), NEW r \in Seq(Frame), NEW x \in Frame
  PROVE  s \o Append(r, x) = Append(s \o r, x)
<1>1. s \o r \in Seq(Frame) /\ <<x>> \in Seq(Frame)
  OBVIOUS
<1>2. Append(r, x) = r \o <<x>> /\ Append(s \o r, x) = (s \o r) \o <<x>>
  BY <1>1, AppendIsConcat
<1> QED BY <1>1, <1>2, ConcatAssociative

(* A frame is pushed on the call stack of level k, and those above are empty. *)
Grown(ls, rs, n, k, x) ==
  /\ Len(ls) = n /\ Len(rs) = n
  /\ rs[k].stack = Append(ls[k].stack, x)
  /\ \A j \in 1..n : j # k => rs[j].stack = ls[j].stack
  /\ \A j \in 1..n : j > k => ls[j].stack = << >>

LEMMA FlatGrown ==
  ASSUME NEW x \in Frame, NEW k \in Nat \ {0}
  PROVE  \A n \in Nat : \A ls, rs \in Seq(LevelType) :
           k <= n /\ Grown(ls, rs, n, k, x) => Flat(rs) = Append(Flat(ls), x)
<1> DEFINE T == {n \in Nat : \A ls, rs \in Seq(LevelType) :
                   k <= n /\ Grown(ls, rs, n, k, x) => Flat(rs) = Append(Flat(ls), x)}
<1>1. 0 \in T
  OBVIOUS
<1>2. ASSUME NEW n \in Nat, n \in T PROVE n + 1 \in T
  <2>1. PICK m \in Nat : m = n + 1
    OBVIOUS
  <2>2. (n \in T) /\ (\A ls, rs \in Seq(LevelType) :
                       k <= m /\ Grown(ls, rs, m, k, x) => Flat(rs) = Append(Flat(ls), x)) => n + 1 \in T
    BY <2>1
  <2>3. \A ls, rs \in Seq(LevelType) : k <= n /\ Grown(ls, rs, n, k, x) => Flat(rs) = Append(Flat(ls), x)
    BY <1>2
  <2> HIDE DEF T
  <2> SUFFICES ASSUME NEW ls \in Seq(LevelType), NEW rs \in Seq(LevelType),
                      k <= m, Grown(ls, rs, m, k, x)
               PROVE  Flat(rs) = Append(Flat(ls), x)
    BY <2>2, <1>2
  <2>4. Len(ls) = m /\ Len(rs) = m
    BY DEF Grown
  <2>5. PICK lc \in Seq(LevelType) :
          /\ lc = SubSeq(ls, 1, n) /\ Len(lc) = n /\ \A g \in 1..n : lc[g] = ls[g]
          /\ Flat(ls) = Flat(lc) \o ls[m].stack
          /\ ls[m].stack \in Seq(Frame)
    BY <2>1, <2>4, FlatCut
  <2>6. PICK rc \in Seq(LevelType) :
          /\ rc = SubSeq(rs, 1, n) /\ Len(rc) = n /\ \A g \in 1..n : rc[g] = rs[g]
          /\ Flat(rs) = Flat(rc) \o rs[m].stack
          /\ rs[m].stack \in Seq(Frame)
    BY <2>1, <2>4, FlatCut
  <2>7. Flat(lc) \in Seq(Frame) /\ Flat(rc) \in Seq(Frame)
    BY FlatTyped
  <2>8. CASE k = m
    <3>1. \A i \in 1..Len(lc) : rc[i].stack = lc[i].stack
      BY <2>1, <2>5, <2>6, <2>8 DEF Grown
    <3>2. Flat(rc) = Flat(lc)
      BY <2>5, <2>6, <3>1, FlatSame
    <3>3. rs[m].stack = Append(ls[m].stack, x)
      BY <2>8 DEF Grown
    <3>4. Flat(lc) \o Append(ls[m].stack, x) = Append(Flat(lc) \o ls[m].stack, x)
      BY <2>5, <2>7, AppendLast
    <3> QED BY <2>5, <2>6, <3>2, <3>3, <3>4
  <2>9. CASE k # m
    <3>1. k <= n /\ k \in 1..n
      BY <2>1, <2>9
    <3>2. Grown(lc, rc, n, k, x)
      <4>1. 1..n \subseteq 1..m
        BY <2>1
      <4> QED BY <2>5, <2>6, <3>1, <4>1 DEF Grown
    <3>3. Flat(rc) = Append(Flat(lc), x)
      BY <2>3, <3>1, <3>2
    <3>4. ls[m].stack = << >> /\ rs[m].stack = << >>
      <4>1. m \in 1..m /\ m > k /\ m # k
        BY <2>1, <3>1
      <4> QED BY <4>1 DEF Grown
    <3> QED BY <2>5, <2>6, <2>7, <3>3, <3>4
  <2> QED BY <2>8, <2>9
<1> HIDE DEF T
<1>3. Nat \subseteq T
  BY <1>1, <1>2, SetInduction
<1> QED BY <1>3 DEF T

-----------------------------------------------------------------------------
(* The inductive invariant *)

Running == {"run", "call", "check", "native", "released"}
Ended == {"leaving", "halting", "done"}

Top(ls) == ls[Len(ls)]
Idle(ls, p) == ls = << >> \/ Top(ls).native \/ p = "released"

(* Chain(t) of a thread with the levels ls at stage p. *)
ChainOf(ls, p) == IF Idle(ls, p) THEN Flat(ls) ELSE Append(Flat(ls), Top(ls).cur)
HeldBy(c) == {c[i] : i \in DOMAIN c}

(* Native methods that wait for a call. *)
Waiting(ls) == {i \in 1..Len(ls) : ls[i].native /\ i # Len(ls)}

(* Interpreters and native code alternate, the first is an interpreter. *)
Nested(own, ls, p) ==
  /\ (ls # << >>) <=> (p \in Running)
  /\ ls # << >> => ~ ls[1].native /\ (Top(ls).native <=> p = "native")
  /\ \A i, j \in 1..Len(ls) : j = i + 1 => (ls[j].native <=> ~ ls[i].native)
  /\ \A i \in 1..Len(ls) :
       /\ ls[i].native => ls[i].stack = << >>
       /\ ~ ls[i].native => ls[i].cur \in Frame
       /\ ~ own /\ i # 1 => ls[i].stack = << >>

(* With a call stack for each interpreter, the frame marked jit_called is    *)
(* at the bottom of a nested one.                                          *)
OwnStacks(ls, p, jit) ==
  /\ \A i \in 1..Len(ls) : i # Len(ls) /\ ~ ls[i].native => ls[i].stack # << >>
  /\ \A i \in 1..Len(ls) : \A k \in 1..Len(ls[i].stack) :
       (ls[i].stack[k] \in jit) <=> (k = 1 /\ i # 1)
  /\ ~ Idle(ls, p) => ((Top(ls).cur \in jit) <=> (Top(ls).stack = << >> /\ Len(ls) # 1))
  /\ p = "released" /\ Len(ls) # 1 => Top(ls).stack # << >>

(* With one call stack it is never the first frame of the thread. *)
SharedStack(ls, p, jit) ==
  /\ ls # << >> /\ Top(ls).native => ls[1].stack # << >>
  /\ ChainOf(ls, p) # << >> => ChainOf(ls, p)[1] \notin jit

Stacks(own, ls, p, jit) ==
  /\ own => OwnStacks(ls, p, jit)
  /\ ~ own => SharedStack(ls, p, jit)

Marked(ls, p, jit) ==
  /\ p = "run" => Top(ls).cur \notin jit
  /\ Cardinality(HeldBy(ChainOf(ls, p)) \cap jit) = Cardinality(Waiting(ls))

Shape(own, ls, p, jit) ==
  /\ ls \in Seq(LevelType) /\ own \in BOOLEAN
  /\ Nested(own, ls, p) /\ Stacks(own, ls, p, jit) /\ Marked(ls, p, jit)

(* The frames of the cache and of the threads, whose chains are c. *)
Ownership(c, ca, cr) ==
  /\ c \in [Threads -> Seq(Frame)]
  /\ \A t \in Threads : IsInjective(c[t])
  /\ \A t \in Threads : HeldBy(c[t]) \cap ca = {}
  /\ \A t \in Threads : HeldBy(c[t]) \subseteq cr
  /\ \A t, u \in Threads : t # u => HeldBy(c[t]) \cap HeldBy(c[u]) = {}

AllHeld(c) == UNION {HeldBy(c[t]) : t \in Threads}
ChainsOf(lv, pcs) == [t \in Threads |-> ChainOf(lv[t], pcs[t])]
Chains == ChainsOf(levels, pc)

(* Threads with the levels lv at the stages pcs. *)
Bound(ls) == \A i \in DOMAIN ls : Len(ls[i].stack) <= CallStackSize
Threading(own, lv, pcs, jit) ==
  /\ lv \in [Threads -> Seq(LevelType)] /\ pcs \in [Threads -> Stages]
  /\ \A t \in Threads : Shape(own, lv[t], pcs[t], jit)
  /\ \A t \in Threads : Bound(lv[t])

(* Only a thread that was stopped by HaltAll, and has ended, loses frames. *)
Stopped(h, pcs) == \E t \in h : pcs[t] \in Ended
Kept(h, pcs, c, ca, cr) == Stopped(h, pcs) \/ cr \subseteq ca \cup AllHeld(c)

Variables ==
  /\ OwnStack \in BOOLEAN
  /\ cached_frames \subseteq created /\ created \in SUBSET Frame
  /\ method \in [Frame -> Methods]
  /\ jit_called \in SUBSET Frame
  /\ target \in [Threads -> Methods]
  /\ intpr_threads \in SUBSET Threads /\ halt \in SUBSET Threads /\ exited \in BOOLEAN

IInv ==
  /\ Variables
  /\ Threading(OwnStack, levels, pc, jit_called)
  /\ Ownership(Chains, cached_frames, created)
  /\ Kept(halt, pc, Chains, cached_frames, created)

-----------------------------------------------------------------------------
(* What one thread holds *)

LEMMA ChainTyped ==
  ASSUME NEW own, NEW ls, NEW p, NEW jit, Shape(own, ls, p, jit)
  PROVE  /\ Flat(ls) \in Seq(Frame) /\ ChainOf(ls, p) \in Seq(Frame)
         /\ ~ Idle(ls, p) => Top(ls).cur \in Frame /\ ~ Top(ls).native
<1>1. Flat(ls) \in Seq(Frame)
  BY FlatTyped DEF Shape
<1>2. ASSUME ~ Idle(ls, p) PROVE Top(ls).cur \in Frame
  <2>1. Len(ls) \in 1..Len(ls)
    BY <1>2 DEF Idle, Shape
  <2> QED BY <1>2, <2>1 DEF Idle, Top, Shape, Nested
<1> QED BY <1>1, <1>2 DEF ChainOf, Idle

LEMMA HeldFinite ==
  ASSUME NEW c \in Seq(Frame)
  PROVE  IsFiniteSet(HeldBy(c))
<1>1. c \in Surjection(1..Len(c), HeldBy(c))
  BY DEF Surjection, HeldBy
<1>2. IsFiniteSet(1..Len(c))
  BY FS_Interval
<1> QED BY <1>1, <1>2, FS_Surjection

(* A frame is added to a chain, or taken from it. *)
LEMMA HeldAppend ==
  ASSUME NEW c \in Seq(Frame), NEW f
  PROVE  /\ HeldBy(Append(c, f)) = HeldBy(c) \cup {f}
         /\ IsInjective(Append(c, f)) <=> IsInjective(c) /\ f \notin HeldBy(c)
<1>1. /\ DOMAIN Append(c, f) = 1..(Len(c) + 1) /\ DOMAIN c = 1..Len(c)
      /\ Append(c, f)[Len(c) + 1] = f
      /\ \A i \in 1..Len(c) : Append(c, f)[i] = c[i]
      /\ Len(c) \in Nat
  OBVIOUS
<1>2. 1..(Len(c) + 1) = (1..Len(c)) \cup {Len(c) + 1} /\ Len(c) + 1 \notin 1..Len(c)
  BY <1>1
<1> QED BY <1>1, <1>2 DEF HeldBy, IsInjective

(* Frames of the call stacks, and the current one, are on the chain. *)
LEMMA StackHeld ==
  ASSUME NEW own, NEW ls, NEW p, NEW jit, Shape(own, ls, p, jit)
  PROVE  /\ \A i \in 1..Len(ls) : \A k \in 1..Len(ls[i].stack) :
              ls[i].stack[k] \in HeldBy(ChainOf(ls, p))
         /\ ~ Idle(ls, p) => Top(ls).cur \in HeldBy(ChainOf(ls, p))
<1>1. Flat(ls) \in Seq(Frame) /\ ls \in Seq(LevelType)
  BY ChainTyped DEF Shape
<1>2. HeldBy(Flat(ls)) \subseteq HeldBy(ChainOf(ls, p))
  BY <1>1, HeldAppend DEF ChainOf
<1>3. ASSUME NEW i \in 1..Len(ls), NEW k \in 1..Len(ls[i].stack)
      PROVE  ls[i].stack[k] \in HeldBy(Flat(ls))
  <2>1. PICK j \in 1..Len(Flat(ls)) : Flat(ls)[j] = ls[i].stack[k]
    BY <1>1, FlatHolds
  <2> QED BY <1>1, <2>1 DEF HeldBy
<1>4. ~ Idle(ls, p) => Top(ls).cur \in HeldBy(ChainOf(ls, p))
  BY <1>1, HeldAppend DEF ChainOf
<1> QED BY <1>2, <1>3, <1>4

(* Only the marks of the thread's own frames matter to it. *)
LEMMA ShapeMarks ==
  ASSUME NEW own, NEW ls, NEW p, NEW jit, NEW jit2, Shape(own, ls, p, jit),
         HeldBy(ChainOf(ls, p)) \cap jit2 = HeldBy(ChainOf(ls, p)) \cap jit
  PROVE  Shape(own, ls, p, jit2)
<1>0. \A f \in HeldBy(ChainOf(ls, p)) : f \in jit2 <=> f \in jit
  OBVIOUS
<1>1. OwnStacks(ls, p, jit) => OwnStacks(ls, p, jit2)
  BY <1>0, StackHeld DEF OwnStacks
<1>2. SharedStack(ls, p, jit) => SharedStack(ls, p, jit2)
  <2>1. ChainOf(ls, p) # << >> => ChainOf(ls, p)[1] \in HeldBy(ChainOf(ls, p))
    BY ChainTyped DEF HeldBy
  <2> QED BY <1>0, <2>1 DEF SharedStack
<1>3. Marked(ls, p, jit2)
  <2>1. p = "run" => ~ Idle(ls, p)
    BY DEF Idle, Shape, Nested, Running
  <2>2. p = "run" => Top(ls).cur \in HeldBy(ChainOf(ls, p))
    BY <2>1, StackHeld
  <2> QED BY <1>0, <2>2 DEF Marked, Shape
<1> QED BY <1>1, <1>2, <1>3 DEF Shape, Stacks

-----------------------------------------------------------------------------
(* Frames change hands *)

Put(c, t, v) == [c EXCEPT ![t] = v]

(* The chain q is r and the frame f. *)
Longer(q, r, f) == r \in Seq(Frame) /\ q = Append(r, f)

(* A frame of the cache, refilled with S, goes to the end of a chain. *)
LEMMA FrameTaken ==
  ASSUME NEW c, NEW ca, NEW cr, Ownership(c, ca, cr), ca \subseteq cr,
         NEW S, S \cap cr = {}, NEW f \in ca \cup S, f \in Frame,
         NEW t \in Threads, NEW q, Longer(q, c[t], f)
  PROVE  /\ Ownership(Put(c, t, q), (ca \cup S) \ {f}, cr \cup S)
         /\ AllHeld(Put(c, t, q)) = AllHeld(c) \cup {f}
         /\ \A u \in Threads : f \notin HeldBy(c[u])
<1>0. PICK d : d = Put(c, t, q)
  OBVIOUS
<1>1. \A u \in Threads : f \notin HeldBy(c[u])
  BY DEF Ownership
<1>2. c \in [Threads -> Seq(Frame)] /\ c[t] \in Seq(Frame)
  BY DEF Ownership
<1>3. /\ HeldBy(d[t]) = HeldBy(c[t]) \cup {f} /\ IsInjective(d[t])
      /\ \A u \in Threads \ {t} : d[u] = c[u]
      /\ d \in [Threads -> Seq(Frame)]
  <2>1. d = [c EXCEPT ![t] = Append(c[t], f)]
    BY <1>0 DEF Put, Longer
  <2> QED BY <1>1, <1>2, <2>1, HeldAppend DEF Ownership
<1>4. \A u \in Threads \ {t} : HeldBy(d[u]) = HeldBy(c[u]) /\ IsInjective(d[u])
  BY <1>3 DEF Ownership
<1>5. Ownership(d, (ca \cup S) \ {f}, cr \cup S)
  <2>1. \A u \in Threads : HeldBy(d[u]) \subseteq HeldBy(c[u]) \cup {f}
    BY <1>3, <1>4
  <2>2. \A u \in Threads : HeldBy(d[u]) \cap ((ca \cup S) \ {f}) = {}
    BY <2>1 DEF Ownership
  <2>3. \A u \in Threads : HeldBy(d[u]) \subseteq cr \cup S
    BY <2>1 DEF Ownership
  <2>4. \A u, v \in Threads : u # v => HeldBy(d[u]) \cap HeldBy(d[v]) = {}
    <3>1. \A u, v \in Threads : u # v => HeldBy(c[u]) \cap HeldBy(c[v]) = {}
      BY DEF Ownership
    <3>2. ASSUME NEW u \in Threads, NEW v \in Threads, u # v
          PROVE  HeldBy(d[u]) \cap HeldBy(d[v]) = {}
      <4>1. CASE u = t
        <5>1. HeldBy(d[u]) = HeldBy(c[t]) \cup {f} /\ HeldBy(d[v]) = HeldBy(c[v])
          BY <1>3, <1>4, <3>2, <4>1
        <5> QED BY <1>1, <3>1, <3>2, <4>1, <5>1
      <4>2. CASE u # t /\ v = t
        <5>1. HeldBy(d[v]) = HeldBy(c[t]) \cup {f} /\ HeldBy(d[u]) = HeldBy(c[u])
          BY <1>3, <1>4, <3>2, <4>2
        <5> QED BY <1>1, <3>1, <3>2, <4>2, <5>1
      <4>3. CASE u # t /\ v # t
        BY <1>4, <3>1, <3>2, <4>3
      <4> QED BY <4>1, <4>2, <4>3
    <3> QED BY <3>2
  <2> QED BY <1>3, <1>4, <2>2, <2>3, <2>4 DEF Ownership
<1>6. AllHeld(d) = AllHeld(c) \cup {f}
  BY <1>3, <1>4 DEF AllHeld
<1> QED BY <1>0, <1>1, <1>5, <1>6

(* The last frame of a chain goes back to the cache. *)
LEMMA FrameGivenBack ==
  ASSUME NEW c, NEW ca, NEW cr, Ownership(c, ca, cr), NEW f,
         NEW t \in Threads, NEW r, Longer(c[t], r, f)
  PROVE  /\ Ownership(Put(c, t, r), ca \cup {f}, cr)
         /\ AllHeld(c) \subseteq AllHeld(Put(c, t, r)) \cup {f}
         /\ f \in cr /\ f \notin HeldBy(r)
         /\ \A u \in Threads \ {t} : f \notin HeldBy(c[u])
<1>0. PICK d : d = Put(c, t, r)
  OBVIOUS
<1>1. c \in [Threads -> Seq(Frame)]
  BY DEF Ownership
<1>2. HeldBy(c[t]) = HeldBy(r) \cup {f} /\ IsInjective(r) /\ f \notin HeldBy(r)
  <2>1. IsInjective(c[t]) /\ c[t] = Append(r, f)
    BY DEF Ownership, Longer
  <2>2. r \in Seq(Frame)
    BY DEF Longer
  <2> QED BY <2>1, <2>2, HeldAppend
<1>3. /\ d[t] = r /\ d \in [Threads -> Seq(Frame)]
      /\ \A u \in Threads \ {t} : d[u] = c[u]
  BY <1>0, <1>1 DEF Put, Longer
<1>4. \A u \in Threads \ {t} : f \notin HeldBy(c[u])
  BY <1>2 DEF Ownership
<1>5. \A u \in Threads : HeldBy(d[u]) \subseteq HeldBy(c[u]) /\ f \notin HeldBy(d[u]) /\ IsInjective(d[u])
  BY <1>2, <1>3, <1>4 DEF Ownership
<1>6. Ownership(d, ca \cup {f}, cr)
  BY <1>3, <1>5 DEF Ownership
<1>7. AllHeld(c) = AllHeld(d) \cup {f}
  BY <1>2, <1>3 DEF AllHeld
<1>8. f \in cr
  BY <1>2 DEF Ownership
<1> QED BY <1>0, <1>2, <1>4, <1>6, <1>7, <1>8

(* A thread that is stopped holds nothing any more. *)
LEMMA FramesDropped ==
  ASSUME NEW c, NEW ca, NEW cr, Ownership(c, ca, cr), NEW t \in Threads,
         NEW d, d = Put(c, t, << >>)
  PROVE  Ownership(d, ca, cr)
<1>1. /\ d \in [Threads -> Seq(Frame)] /\ d[t] = << >>
      /\ \A u \in Threads \ {t} : d[u] = c[u]
  BY DEF Ownership, Put
<1>2. HeldBy(<< >>) = {} /\ IsInjective(<< >>)
  BY DEF HeldBy, IsInjective
<1> QED BY <1>1, <1>2 DEF Ownership

-----------------------------------------------------------------------------
(* What a call and a return do to the levels *)

SetStack(ls, s, q) == [ls EXCEPT ![s].stack = q]
SetCur(ls, i, x) == [ls EXCEPT ![i].cur = x]
Pushing(ls, s, x) == SetStack(ls, s, Append(ls[s].stack, x))

(* rs are the levels ls but for current frames and the call stack of level s. *)
Alike(ls, rs, s) ==
  /\ Len(rs) = Len(ls)
  /\ \A j \in 1..Len(ls) : rs[j].native = ls[j].native /\ rs[j].method = ls[j].method
  /\ \A j \in 1..Len(ls) : j # s => rs[j].stack = ls[j].stack

LEMMA LevelOf ==
  ASSUME NEW ls \in Seq(LevelType), NEW i \in 1..Len(ls)
  PROVE  ls[i] \in LevelType /\ ls[i].stack \in Seq(Frame) /\ ls[i].native \in BOOLEAN
<1>1. ls[i] \in LevelType
  OBVIOUS
<1> QED BY <1>1 DEF LevelType

LEMMA WithStack ==
  ASSUME NEW l \in LevelType, NEW q \in Seq(Frame), NEW m, m = [l EXCEPT !.stack = q]
  PROVE  /\ m \in LevelType /\ m.stack = q
         /\ m.cur = l.cur /\ m.native = l.native /\ m.method = l.method
BY DEF LevelType

LEMMA WithCurrent ==
  ASSUME NEW l \in LevelType, NEW x \in Frame, NEW m, m = [l EXCEPT !.cur = x]
  PROVE  /\ m \in LevelType /\ m.cur = x
         /\ m.stack = l.stack /\ m.native = l.native /\ m.method = l.method
BY DEF LevelType

LEMMA SetsStack ==
  ASSUME NEW ls \in Seq(LevelType), NEW s \in 1..Len(ls), NEW q \in Seq(Frame)
  PROVE  \E rs \in Seq(LevelType) :
           /\ rs = SetStack(ls, s, q) /\ Alike(ls, rs, s)
           /\ rs[s].stack = q
           /\ \A j \in 1..Len(ls) : rs[j].cur = ls[j].cur
<1> DEFINE rs == [ls EXCEPT ![s].stack = q]
<1>1. \A j \in 1..Len(ls) : ls[j] \in LevelType
  OBVIOUS
<1>2. DOMAIN rs = 1..Len(ls) /\ \A j \in 1..Len(ls) : j # s => rs[j] = ls[j]
  OBVIOUS
<1>3. rs[s] = [ls[s] EXCEPT !.stack = q]
  OBVIOUS
<1>4. /\ rs[s].stack = q /\ rs[s].cur = ls[s].cur
      /\ rs[s].native = ls[s].native /\ rs[s].method = ls[s].method
      /\ rs[s] \in LevelType
  BY <1>1, <1>3, WithStack
<1>5. rs \in Seq(LevelType) /\ Len(rs) = Len(ls)
  <2>1. \A j \in 1..Len(ls) : rs[j] \in LevelType
    BY <1>1, <1>2, <1>4
  <2>2. rs = [j \in 1..Len(ls) |-> rs[j]]
    OBVIOUS
  <2> QED BY <2>1, <2>2
<1>6. rs = SetStack(ls, s, q)
  BY DEF SetStack
<1> HIDE DEF rs
<1> QED BY <1>2, <1>4, <1>5, <1>6 DEF Alike

LEMMA SetsCurrent ==
  ASSUME NEW ls \in Seq(LevelType), NEW i \in 1..Len(ls), NEW x \in Frame
  PROVE  \E rs \in Seq(LevelType) :
           /\ rs = SetCur(ls, i, x) /\ Len(rs) = Len(ls)
           /\ \A j \in 1..Len(ls) : /\ rs[j].native = ls[j].native /\ rs[j].method = ls[j].method
                                    /\ rs[j].stack = ls[j].stack
           /\ rs[i].cur = x
           /\ \A j \in 1..Len(ls) : j # i => rs[j].cur = ls[j].cur
<1> DEFINE rs == [ls EXCEPT ![i].cur = x]
<1>1. \A j \in 1..Len(ls) : ls[j] \in LevelType
  OBVIOUS
<1>2. DOMAIN rs = 1..Len(ls) /\ \A j \in 1..Len(ls) : j # i => rs[j] = ls[j]
  OBVIOUS
<1>3. rs[i] = [ls[i] EXCEPT !.cur = x]
  OBVIOUS
<1>4. /\ rs[i].stack = ls[i].stack /\ rs[i].cur = x
      /\ rs[i].native = ls[i].native /\ rs[i].method = ls[i].method
      /\ rs[i] \in LevelType
  BY <1>1, <1>3, WithCurrent
<1>5. rs \in Seq(LevelType) /\ Len(rs) = Len(ls)
  <2>1. \A j \in 1..Len(ls) : rs[j] \in LevelType
    BY <1>1, <1>2, <1>4
  <2>2. rs = [j \in 1..Len(ls) |-> rs[j]]
    OBVIOUS
  <2> QED BY <2>1, <2>2
<1>6. rs = SetCur(ls, i, x)
  BY DEF SetCur
<1> HIDE DEF rs
<1> QED BY <1>2, <1>4, <1>5, <1>6

LEMMA Pushes ==
  ASSUME NEW ls \in Seq(LevelType), NEW s \in 1..Len(ls), NEW x \in Frame
  PROVE  \E rs \in Seq(LevelType) :
           /\ rs = Pushing(ls, s, x) /\ Alike(ls, rs, s)
           /\ rs[s].stack = Append(ls[s].stack, x)
           /\ \A j \in 1..Len(ls) : rs[j].cur = ls[j].cur
<1>1. ls[s].stack \in Seq(Frame)
  BY LevelOf
<1>2. PICK q \in Seq(Frame) : q = Append(ls[s].stack, x)
  <2>1. \A r \in Seq(Frame) : Append(r, x) \in Seq(Frame)
    OBVIOUS
  <2> QED BY <1>1, <2>1, Zenon
<1> QED BY <1>2, SetsStack DEF Pushing

LEMMA Pops ==
  ASSUME NEW ls \in Seq(LevelType), NEW i \in 1..Len(ls), NEW s \in 1..Len(ls),
         ls[s].stack # << >>
  PROVE  \E rs \in Seq(LevelType), x \in Frame :
           /\ rs = PopFrame(ls, i, s) /\ Alike(ls, rs, s)
           /\ rs[i].cur = x
           /\ \A j \in 1..Len(ls) : j # i => rs[j].cur = ls[j].cur
           /\ ls[s].stack = Append(rs[s].stack, x)
<1>1. PICK q \in Seq(Frame) : q = ls[s].stack /\ q # << >> /\ Len(q) \in Nat /\ Len(q) # 0
  BY LevelOf
<1>2. PICK x \in Frame, r \in Seq(Frame) :
        x = q[Len(q)] /\ r = SubSeq(q, 1, Len(q) - 1) /\ q = Append(r, x)
  <2> DEFINE x == q[Len(q)]
             r == SubSeq(q, 1, Len(q) - 1)
  <2>1. Len(q) - 1 \in Nat /\ Len(q) \in 1..Len(q)
    BY <1>1
  <2>2. r \in Seq(Frame) /\ Len(r) = Len(q) - 1 /\ \A k \in 1..(Len(q) - 1) : r[k] = q[k]
    BY <1>1, <2>1, SubSeqProperties
  <2>3. x \in Frame
    BY <1>1, <2>1
  <2>4. Append(r, x) \in Seq(Frame) /\ Len(Append(r, x)) = Len(q)
    BY <1>1, <2>2, <2>3
  <2>5. \A k \in 1..Len(q) : Append(r, x)[k] = q[k]
    BY <1>1, <2>2, <2>3
  <2>6. q = Append(r, x)
    BY <1>1, <2>4, <2>5, SeqEqual
  <2> QED BY <2>2, <2>3, <2>6
<1>3. PICK cs \in Seq(LevelType) :
        /\ cs = SetCur(ls, i, x) /\ Len(cs) = Len(ls)
        /\ \A j \in 1..Len(ls) : /\ cs[j].native = ls[j].native /\ cs[j].method = ls[j].method
                                 /\ cs[j].stack = ls[j].stack
        /\ cs[i].cur = x
        /\ \A j \in 1..Len(ls) : j # i => cs[j].cur = ls[j].cur
  BY SetsCurrent
<1>4. PICK rs \in Seq(LevelType) :
        /\ rs = SetStack(cs, s, r) /\ Alike(cs, rs, s)
        /\ rs[s].stack = r
        /\ \A j \in 1..Len(cs) : rs[j].cur = cs[j].cur
  BY <1>3, SetsStack
<1>5. rs = PopFrame(ls, i, s)
  <2>1. rs = [[ls EXCEPT ![i].cur = x] EXCEPT ![s].stack = r]
    BY <1>3, <1>4 DEF SetCur, SetStack
  <2>2. cs[s].stack = q
    BY <1>1, <1>3
  <2>3. PopFrame(ls, i, s) = [[ls EXCEPT ![i].cur = x] EXCEPT ![s].stack = SubSeq(cs[s].stack, 1, Len(cs[s].stack) - 1)]
    BY <1>1, <1>2, <1>3 DEF PopFrame, SetCur
  <2> QED BY <1>2, <2>1, <2>2, <2>3
<1>6. Alike(ls, rs, s)
  BY <1>3, <1>4 DEF Alike
<1>7. ls[s].stack = Append(rs[s].stack, x)
  BY <1>1, <1>2, <1>4
<1> QED BY <1>3, <1>4, <1>5, <1>6, <1>7

-----------------------------------------------------------------------------
(* What each step does to the levels of its thread *)

(* StackAt *)
At(own, ls) == IF own THEN Len(ls) ELSE 1

LEMMA Indices ==
  ASSUME NEW own, NEW ls, NEW p, NEW jit, Shape(own, ls, p, jit), ls # << >>
  PROVE  /\ Len(ls) \in Nat /\ Len(ls) \in 1..Len(ls) /\ At(own, ls) \in 1..Len(ls) /\ 1 \in 1..Len(ls)
         /\ At(own, ls) \in Nat \ {0} /\ Len(ls) # 0
         /\ \A j \in 1..Len(ls) : j > At(own, ls) => ls[j].stack = << >>
<1>1. ls \in Seq(LevelType) /\ own \in BOOLEAN
  BY DEF Shape
<1>2. Len(ls) \in Nat /\ Len(ls) # 0
  BY <1>1
<1>3. ~ own => \A j \in 1..Len(ls) : j > 1 => ls[j].stack = << >>
  BY <1>1 DEF Shape, Nested
<1> QED BY <1>1, <1>2, <1>3 DEF At

LEMMA WaitingFinite ==
  ASSUME NEW ls \in Seq(LevelType)
  PROVE  IsFiniteSet(Waiting(ls))
<1>1. IsFiniteSet(1..Len(ls)) /\ Waiting(ls) \subseteq 1..Len(ls)
  BY FS_Interval DEF Waiting
<1> QED BY <1>1, FS_Subset

LEMMA Appended ==
  ASSUME NEW q \in Seq(Frame), NEW x \in Frame, NEW r, r = Append(q, x)
  PROVE  /\ Len(q) \in Nat /\ r # << >> /\ r \in Seq(Frame) /\ Len(r) = Len(q) + 1
         /\ r[Len(q) + 1] = x
         /\ \A k \in 1..Len(q) : r[k] = q[k]
OBVIOUS

(* The current frame is pushed on the call stack. *)
LEMMA Push ==
  ASSUME NEW own, NEW ls, NEW p \in {"run", "call"}, NEW jit, Shape(own, ls, p, jit),
         NEW rs, rs = Pushing(ls, At(own, ls), Top(ls).cur)
  PROVE  /\ Shape(own, rs, "released", jit) /\ Len(rs) = Len(ls)
         /\ ChainOf(rs, "released") = ChainOf(ls, p)
         /\ ls # << >> /\ rs # << >> /\ rs[At(own, rs)].stack # << >>
         /\ rs[At(own, ls)].stack = Append(ls[At(own, ls)].stack, Top(ls).cur)
         /\ \A j \in 1..Len(ls) : j # At(own, ls) => rs[j].stack = ls[j].stack
<1>1. ls \in Seq(LevelType) /\ ls # << >> /\ ~ Idle(ls, p)
  BY DEF Shape, Nested, Running, Idle
<1> DEFINE n == Len(ls)
           s == At(own, ls)
<1>2. /\ n \in Nat /\ n \in 1..n /\ s \in 1..n /\ 1 \in 1..n /\ s \in Nat \ {0} /\ n # 0
      /\ \A j \in 1..n : j > s => ls[j].stack = << >>
  BY <1>1, Indices
<1>3. PICK x \in Frame : x = Top(ls).cur
  BY <1>1, ChainTyped
<1>4. /\ rs \in Seq(LevelType) /\ Alike(ls, rs, s)
      /\ rs[s].stack = Append(ls[s].stack, x)
      /\ \A j \in 1..n : rs[j].cur = ls[j].cur
  BY <1>1, <1>2, <1>3, Pushes
<1>5. /\ Len(rs) = n /\ At(own, rs) = s /\ rs # << >>
      /\ \A j \in 1..n : rs[j].native = ls[j].native
      /\ \A j \in 1..n : j # s => rs[j].stack = ls[j].stack
  BY <1>2, <1>4 DEF Alike, At
<1>6. /\ ls[s].stack \in Seq(Frame) /\ Len(ls[s].stack) \in Nat /\ rs[s].stack # << >>
      /\ Len(rs[s].stack) = Len(ls[s].stack) + 1
      /\ rs[s].stack[Len(ls[s].stack) + 1] = x
      /\ \A k \in 1..Len(ls[s].stack) : rs[s].stack[k] = ls[s].stack[k]
  <2>1. ls[s].stack \in Seq(Frame)
    BY <1>1, <1>2, LevelOf
  <2>2. rs[s].stack = Append(ls[s].stack, x)
    BY <1>4
  <2> HIDE DEF s, n
  <2> QED BY ONLY x \in Frame, <2>1, <2>2, Appended
<1>7. ChainOf(rs, "released") = ChainOf(ls, p)
  <2>1. Grown(ls, rs, n, s, x)
    BY <1>2, <1>4, <1>5 DEF Grown
  <2>2. Flat(rs) = Append(Flat(ls), x)
    BY <1>1, <1>2, <1>4, <2>1, FlatGrown
  <2> QED BY <1>1, <1>3, <2>2 DEF ChainOf, Idle
<1> HIDE DEF s, n
<1>8. Nested(own, rs, "released")
  <2>1. ~ rs[s].native
    <3>1. own => s = n
      BY DEF s, n, At
    <3>2. ~ own => s = 1
      BY DEF s, At
    <3>3. own \in BOOLEAN /\ ~ ls[n].native /\ ~ ls[1].native
      BY <1>1 DEF Shape, Nested, Idle, Top, n
    <3> QED BY <1>2, <1>5, <3>1, <3>2, <3>3
  <2>2. ~ own => s = 1
    BY DEF s, At
  <2>3. \A i \in 1..Len(rs) : rs[i].native => rs[i].stack = << >>
    BY <1>5, <2>1 DEF Shape, Nested, n
  <2>4. \A i \in 1..Len(rs) : ~ rs[i].native => rs[i].cur \in Frame
    BY <1>4, <1>5 DEF Shape, Nested, n
  <2>5. \A i \in 1..Len(rs) : ~ own /\ i # 1 => rs[i].stack = << >>
    BY <1>5, <2>2 DEF Shape, Nested, n
  <2>6. ~ rs[1].native /\ ~ Top(rs).native
    BY <1>1, <1>2, <1>5 DEF Shape, Nested, Idle, Top, n
  <2>7. \A i, j \in 1..Len(rs) : j = i + 1 => (rs[j].native <=> ~ rs[i].native)
    BY <1>5 DEF Shape, Nested, n
  <2> QED BY <1>5, <2>3, <2>4, <2>5, <2>6, <2>7 DEF Nested, Running
<1>9. ASSUME own PROVE OwnStacks(rs, "released", jit)
  <2>1. s = n /\ n = Len(ls)
    BY <1>9 DEF s, n, At
  <2>2. OwnStacks(ls, p, jit)
    BY <1>9 DEF Shape, Stacks
  <2>3. (x \in jit) <=> (ls[n].stack = << >> /\ n # 1)
    BY <1>1, <1>3, <2>1, <2>2 DEF OwnStacks, Top
  <2>4. \A i \in 1..n : \A k \in 1..Len(rs[i].stack) : (rs[i].stack[k] \in jit) <=> (k = 1 /\ i # 1)
    <3> SUFFICES ASSUME NEW i \in 1..n, NEW k \in 1..Len(rs[i].stack)
                 PROVE  (rs[i].stack[k] \in jit) <=> (k = 1 /\ i # 1)
      OBVIOUS
    <3>1. CASE i # n
      BY <1>5, <2>1, <2>2, <3>1 DEF OwnStacks
    <3>2. CASE i = n /\ k # Len(ls[n].stack) + 1
      <4>1. k \in 1..Len(ls[n].stack) /\ rs[n].stack[k] = ls[n].stack[k]
        BY <1>6, <2>1, <3>2
      <4> QED BY <2>1, <2>2, <3>2, <4>1 DEF OwnStacks
    <3>3. CASE i = n /\ k = Len(ls[n].stack) + 1
      <4>1. rs[n].stack[k] = x
        BY <1>6, <2>1, <3>3
      <4>2. (k = 1) <=> (ls[n].stack = << >>)
        BY <1>6, <2>1, <3>3
      <4> QED BY <2>3, <3>3, <4>1, <4>2
    <3> QED BY <3>1, <3>2, <3>3
  <2>5. \A i \in 1..n : i # n /\ ~ rs[i].native => rs[i].stack # << >>
    BY <1>5, <2>1, <2>2 DEF OwnStacks
  <2> QED BY <1>5, <1>6, <2>1, <2>4, <2>5 DEF OwnStacks, Idle, Top
<1>10. ASSUME ~ own PROVE SharedStack(rs, "released", jit)
  <2>1. SharedStack(ls, p, jit)
    BY <1>10 DEF Shape, Stacks
  <2>2. ~ Top(rs).native
    BY <1>5, <1>8 DEF Nested
  <2> QED BY <1>7, <2>1, <2>2 DEF SharedStack
<1>11. Marked(rs, "released", jit)
  <2>1. Waiting(rs) = Waiting(ls)
    BY <1>5 DEF Waiting, n
  <2> QED BY <1>7, <2>1 DEF Marked, Shape
<1>12. Shape(own, rs, "released", jit)
  BY <1>4, <1>8, <1>9, <1>10, <1>11 DEF Shape, Stacks
<1> QED BY <1>1, <1>3, <1>4, <1>5, <1>6, <1>7, <1>12 DEF s, n

LEMMA FlatSome ==
  ASSUME NEW ls \in Seq(LevelType), NEW i \in 1..Len(ls), ls[i].stack # << >>
  PROVE  Flat(ls) # << >>
<1>1. ls[i].stack \in Seq(Frame)
  BY LevelOf
<1>2. 1 \in 1..Len(ls[i].stack)
  BY <1>1
<1>3. \E j \in 1..Len(Flat(ls)) : Flat(ls)[j] = ls[i].stack[1]
  BY <1>2, FlatHolds
<1> QED BY <1>3

Bare(ls) == \A i \in 1..Len(ls) : ls[i].stack = << >>

LEMMA FlatNone ==
  ASSUME NEW ls \in Seq(LevelType), Bare(ls)
  PROVE  Flat(ls) = << >>
<1> DEFINE T == {n \in Nat : \A rs \in Seq(LevelType) : Len(rs) = n /\ Bare(rs) => Flat(rs) = << >>}
<1>1. 0 \in T
  BY FlatEmpty
<1>2. ASSUME NEW n \in Nat, n \in T PROVE n + 1 \in T
  <2> SUFFICES ASSUME NEW rs \in Seq(LevelType), Len(rs) = n + 1, Bare(rs)
               PROVE  Flat(rs) = << >>
    OBVIOUS
  <2>1. PICK m \in Nat : m = n + 1
    OBVIOUS
  <2>2. PICK qs \in Seq(LevelType) :
          /\ qs = SubSeq(rs, 1, n) /\ Len(qs) = n /\ \A g \in 1..n : qs[g] = rs[g]
          /\ Flat(rs) = Flat(qs) \o rs[m].stack
          /\ rs[m].stack \in Seq(Frame)
    BY <2>1, FlatCut
  <2>3. Bare(qs)
    BY <2>2 DEF Bare
  <2>4. Flat(qs) = << >>
    BY <1>2, <2>2, <2>3
  <2>5. rs[m].stack = << >>
    BY <2>1 DEF Bare
  <2> QED BY <2>2, <2>4, <2>5
<1> HIDE DEF T
<1>3. Nat \subseteq T
  BY <1>1, <1>2, SetInduction
<1>4. Len(ls) \in T
  BY <1>3
<1> QED BY <1>4 DEF T

(* The method called gets a frame. *)
LEMMA Enter ==
  ASSUME NEW own, NEW ls, NEW jit, Shape(own, ls, "released", jit),
         ls # << >>, ls[At(own, ls)].stack # << >>,
         NEW f \in Frame, f \notin jit,
         NEW rs, rs = SetCur(ls, Len(ls), f)
  PROVE  /\ Shape(own, rs, "check", jit) /\ Len(rs) = Len(ls)
         /\ ChainOf(rs, "check") = Append(ChainOf(ls, "released"), f)
         /\ \A j \in 1..Len(ls) : rs[j].stack = ls[j].stack
<1>1. ls \in Seq(LevelType) /\ Len(ls) \in 1..Len(ls) /\ 1 \in 1..Len(ls) /\ At(own, ls) \in 1..Len(ls)
  BY Indices DEF Shape
<1>2. /\ rs \in Seq(LevelType) /\ Len(rs) = Len(ls)
      /\ \A j \in 1..Len(ls) : rs[j].native = ls[j].native /\ rs[j].stack = ls[j].stack
      /\ rs[Len(ls)].cur = f
      /\ \A j \in 1..Len(ls) : j # Len(ls) => rs[j].cur = ls[j].cur
  <2>1. PICK n \in 1..Len(ls) : n = Len(ls)
    BY <1>1
  <2>2. PICK qs \in Seq(LevelType) :
          /\ qs = SetCur(ls, n, f) /\ Len(qs) = Len(ls)
          /\ \A j \in 1..Len(ls) : /\ qs[j].native = ls[j].native /\ qs[j].method = ls[j].method
                                   /\ qs[j].stack = ls[j].stack
          /\ qs[n].cur = f
          /\ \A j \in 1..Len(ls) : j # n => qs[j].cur = ls[j].cur
    BY <1>1, SetsCurrent
  <2> QED BY <2>1, <2>2
<1>3. rs # << >> /\ At(own, rs) = At(own, ls)
  BY <1>1, <1>2 DEF At
<1>4. Nested(own, rs, "check")
  <2>1. Nested(own, ls, "released")
    BY DEF Shape
  <2> QED BY <1>1, <1>2, <1>3, <2>1 DEF Nested, Running, Top
<1>5. ~ Idle(rs, "check") /\ Top(rs).cur = f
  BY <1>2, <1>3, <1>4 DEF Nested, Idle, Top
<1>6. Flat(rs) = Flat(ls) /\ Flat(ls) \in Seq(Frame) /\ Flat(ls) # << >>
  BY <1>1, <1>2, FlatSame, FlatTyped, FlatSome
<1>7. ChainOf(rs, "check") = Append(ChainOf(ls, "released"), f) /\ ChainOf(ls, "released") = Flat(ls)
  BY <1>5, <1>6 DEF ChainOf, Idle
<1>8. ASSUME own PROVE OwnStacks(rs, "check", jit)
  <2>1. OwnStacks(ls, "released", jit)
    BY <1>8 DEF Shape, Stacks
  <2>2. Top(rs).stack # << >>
    BY <1>1, <1>2, <1>8 DEF At, Top
  <2> QED BY <1>2, <1>5, <2>1, <2>2 DEF OwnStacks
<1>9. ASSUME ~ own PROVE SharedStack(rs, "check", jit)
  <2>1. SharedStack(ls, "released", jit)
    BY <1>9 DEF Shape, Stacks
  <2>2. ChainOf(rs, "check")[1] = Flat(ls)[1]
    <3>1. 1 \in 1..Len(Flat(ls))
      BY <1>6
    <3> QED BY <1>6, <1>7, <3>1
  <2>3. Flat(ls)[1] \notin jit
    BY <1>6, <1>7, <2>1 DEF SharedStack
  <2> QED BY <1>5, <2>2, <2>3 DEF SharedStack, Idle
<1>10. Marked(rs, "check", jit)
  <2>1. Waiting(rs) = Waiting(ls)
    BY <1>2 DEF Waiting
  <2>2. HeldBy(ChainOf(rs, "check")) = HeldBy(ChainOf(ls, "released")) \cup {f}
    <3>1. PICK c \in Seq(Frame) : c = Flat(ls)
      BY <1>6
    <3>2. HeldBy(Append(c, f)) = HeldBy(c) \cup {f}
      BY HeldAppend
    <3> QED BY <1>7, <3>1, <3>2
  <2>3. HeldBy(ChainOf(rs, "check")) \cap jit = HeldBy(ChainOf(ls, "released")) \cap jit
    BY <2>2
  <2> QED BY <2>1, <2>3 DEF Marked, Shape
<1>11. Shape(own, rs, "check", jit)
  BY <1>2, <1>4, <1>8, <1>9, <1>10 DEF Shape, Stacks
<1> QED BY <1>2, <1>7, <1>11

(* A level without frames on its call stack is added, or left. *)
(* The levels rs are those of ls without the last, or with one more. *)
Inner(ls, rs) == rs = SubSeq(ls, 1, Len(ls) - 1)
OneOn(ls, l, rs) == rs = Append(ls, l)

LEMMA LevelAdded ==
  ASSUME NEW ls \in Seq(LevelType), NEW l \in LevelType, l.stack = << >>,
         NEW rs, OneOn(ls, l, rs)
  PROVE  \E n, m \in Nat :
           /\ n = Len(ls) /\ m = n + 1 /\ Len(rs) = m /\ rs \in Seq(LevelType)
           /\ rs[m] = l /\ Top(rs) = l /\ rs # << >>
           /\ \A j \in 1..n : rs[j] = ls[j]
           /\ 1..m = (1..n) \cup {m} /\ m \notin 1..n
           /\ Flat(rs) = Flat(ls)
<1>1. PICK n \in Nat : n = Len(ls)
  OBVIOUS
<1>2. PICK m \in Nat : m = n + 1
  OBVIOUS
<1>3. /\ Len(rs) = m /\ rs \in Seq(LevelType) /\ rs[m] = l /\ rs # << >>
      /\ \A j \in 1..n : rs[j] = ls[j]
  BY <1>1, <1>2 DEF OneOn
<1>4. Flat(rs) = Flat(ls) \o rs[m].stack
  <2>1. \A i \in 1..n : ls[i].stack = rs[i].stack
    BY <1>3
  <2> QED BY <1>1, <1>2, <1>3, <2>1, FlatLast
<1>5. Flat(rs) = Flat(ls)
  <2>1. Flat(ls) \in Seq(Frame)
    BY FlatTyped
  <2> QED BY <1>3, <1>4, <2>1
<1>6. 1..m = (1..n) \cup {m} /\ m \notin 1..n
  BY <1>2
<1> QED BY <1>1, <1>2, <1>3, <1>5, <1>6 DEF Top

LEMMA LevelLeft ==
  ASSUME NEW n \in Nat, NEW m \in Nat, m = n + 1,
         NEW ls \in Seq(LevelType), Len(ls) = m, Top(ls).stack = << >>
  PROVE  \E rs \in Seq(LevelType) :
           /\ rs = SubSeq(ls, 1, n) /\ Len(rs) = n
           /\ ls[m] = Top(ls)
           /\ \A j \in 1..n : rs[j] = ls[j]
           /\ 1..m = (1..n) \cup {m} /\ m \notin 1..n
           /\ Flat(rs) = Flat(ls)
<1>1. PICK qs \in Seq(LevelType) :
        /\ qs = SubSeq(ls, 1, n) /\ Len(qs) = n /\ \A i \in 1..n : qs[i] = ls[i]
        /\ Flat(ls) = Flat(qs) \o ls[m].stack
        /\ ls[m].stack \in Seq(Frame)
  BY FlatCut
<1>2. Flat(qs) = Flat(ls)
  <2>1. Flat(qs) \in Seq(Frame) /\ ls[m].stack = << >>
    BY FlatTyped DEF Top
  <2> QED BY <1>1, <2>1
<1>3. 1..m = (1..n) \cup {m} /\ m \notin 1..n
  OBVIOUS
<1> QED BY <1>1, <1>2, <1>3 DEF Top

LEMMA NativeCodeTyped ==
  ASSUME NEW m \in Methods
  PROVE  /\ NativeCode(m) \in LevelType /\ NativeCode(m).stack = << >> /\ NativeCode(m).native
         /\ NativeCode(m).method = m
<1>1. << >> \in Seq(Frame)
  OBVIOUS
<1>2. PICK q \in Seq(Frame) : q = << >>
  BY <1>1
<1>3. [native |-> TRUE, method |-> m, cur |-> NoFrame, stack |-> q] \in LevelType
  BY DEF LevelType
<1> QED BY <1>2, <1>3 DEF NativeCode

LEMMA InterpreterTyped ==
  ASSUME NEW f \in Frame, NEW m \in Methods
  PROVE  /\ InterpreterOn(f, m) \in LevelType /\ InterpreterOn(f, m).stack = << >>
         /\ ~ InterpreterOn(f, m).native /\ InterpreterOn(f, m).cur = f
         /\ InterpreterOn(f, m).method = m
<1>1. << >> \in Seq(Frame)
  OBVIOUS
<1>2. PICK q \in Seq(Frame) : q = << >>
  BY <1>1
<1>3. [native |-> FALSE, method |-> m, cur |-> f, stack |-> q] \in LevelType
  BY DEF LevelType
<1> QED BY <1>2, <1>3 DEF InterpreterOn

(* The method called runs as native code. *)
LEMMA Switch ==
  ASSUME NEW own, NEW ls, NEW jit, Shape(own, ls, "released", jit),
         ls # << >>, ls[At(own, ls)].stack # << >>,
         NEW me \in Methods, NEW rs, OneOn(ls, NativeCode(me), rs)
  PROVE  /\ Shape(own, rs, "native", jit)
         /\ ChainOf(rs, "native") = ChainOf(ls, "released")
<1> DEFINE l == NativeCode(me)
<1>1. l \in LevelType /\ l.stack = << >> /\ l.native
  BY NativeCodeTyped
<1>2. /\ ls \in Seq(LevelType) /\ Len(ls) \in 1..Len(ls) /\ 1 \in 1..Len(ls) /\ At(own, ls) \in 1..Len(ls)
  BY Indices DEF Shape
<1> HIDE DEF l
<1>3. PICK n, m \in Nat :
        /\ n = Len(ls) /\ m = n + 1 /\ Len(rs) = m /\ rs \in Seq(LevelType)
        /\ rs[m] = l /\ Top(rs) = l /\ rs # << >>
        /\ \A j \in 1..n : rs[j] = ls[j]
        /\ 1..m = (1..n) \cup {m} /\ m \notin 1..n
        /\ Flat(rs) = Flat(ls)
  <2>1. OneOn(ls, l, rs)
    BY DEF l
  <2> QED BY <1>1, <1>2, <2>1, LevelAdded
<1>4. ChainOf(rs, "native") = ChainOf(ls, "released")
  BY <1>1, <1>3 DEF ChainOf, Idle
<1>5. Nested(own, ls, "released") /\ ~ ls[n].native
  BY <1>2, <1>3 DEF Shape, Nested, Top
<1>6. Nested(own, rs, "native")
  <2>1. \A i, j \in 1..m : j = i + 1 => (rs[j].native <=> ~ rs[i].native)
    <3> SUFFICES ASSUME NEW i \in 1..m, NEW j \in 1..m, j = i + 1
                 PROVE  rs[j].native <=> ~ rs[i].native
      OBVIOUS
    <3>1. i \in 1..n /\ (j = m => i = n) /\ (j # m => j \in 1..n)
      BY <1>3
    <3> QED BY <1>1, <1>3, <1>5, <3>1 DEF Nested
  <2>2. m # 1 /\ 1 \in 1..n
    BY <1>2, <1>3
  <2> QED BY <1>1, <1>3, <1>5, <2>1, <2>2 DEF Nested, Running
<1>7. ASSUME own PROVE OwnStacks(rs, "native", jit)
  <2>1. OwnStacks(ls, "released", jit) /\ ls[n].stack # << >>
    BY <1>3, <1>7 DEF Shape, Stacks, At
  <2>2. \A i \in 1..m : i # m /\ ~ rs[i].native => rs[i].stack # << >>
    BY <1>3, <2>1 DEF OwnStacks
  <2>3. \A i \in 1..m : \A k \in 1..Len(rs[i].stack) : (rs[i].stack[k] \in jit) <=> (k = 1 /\ i # 1)
    <3> SUFFICES ASSUME NEW i \in 1..m, NEW k \in 1..Len(rs[i].stack)
                 PROVE  (rs[i].stack[k] \in jit) <=> (k = 1 /\ i # 1)
      OBVIOUS
    <3>1. i # m
      <4>1. 1..Len(<< >>) = {}
        OBVIOUS
      <4> QED BY <1>1, <1>3, <4>1
    <3>2. i \in 1..n /\ rs[i] = ls[i]
      BY <1>3, <3>1
    <3> QED BY <1>3, <2>1, <3>2 DEF OwnStacks
  <2> QED BY <1>1, <1>3, <2>2, <2>3 DEF OwnStacks, Idle
<1>8. ASSUME ~ own PROVE SharedStack(rs, "native", jit)
  <2>1. SharedStack(ls, "released", jit) /\ ls[1].stack # << >>
    BY <1>8 DEF Shape, Stacks, At
  <2> QED BY <1>2, <1>3, <1>4, <2>1 DEF SharedStack
<1>9. Marked(rs, "native", jit)
  <2>1. Waiting(rs) = Waiting(ls)
    BY <1>3, <1>5 DEF Waiting
  <2> QED BY <1>4, <2>1 DEF Marked, Shape
<1> QED BY <1>3, <1>4, <1>6, <1>7, <1>8, <1>9 DEF Shape, Stacks

(* Native code is left: its caller's frame is still on the call stack. *)
LEMMA CutNative ==
  ASSUME NEW own, NEW ls, NEW jit, Shape(own, ls, "native", jit),
         NEW rs, Inner(ls, rs)
  PROVE  /\ Shape(own, rs, "released", jit) /\ Len(rs) = Len(ls) - 1
         /\ ChainOf(rs, "released") = ChainOf(ls, "native")
         /\ rs # << >> /\ rs[At(own, rs)].stack # << >>
         /\ \A j \in 1..Len(rs) : rs[j] = ls[j]
<1>1. /\ ls # << >> /\ ls \in Seq(LevelType) /\ Len(ls) \in 1..Len(ls) /\ 1 \in 1..Len(ls) /\ Len(ls) # 0
      /\ Len(ls) \in Nat
  <2>1. ls # << >>
    BY DEF Shape, Nested, Running
  <2> QED BY <2>1, Indices DEF Shape
<1>2. Nested(own, ls, "native") /\ Top(ls).native /\ ~ ls[1].native /\ Top(ls).stack = << >>
  BY <1>1 DEF Shape, Nested, Top
<1>3. PICK m \in Nat : m = Len(ls)
  BY <1>1
<1>4. PICK n \in Nat : m = n + 1
  <2>1. m - 1 \in Nat /\ m = (m - 1) + 1
    BY <1>1, <1>3
  <2> QED BY <2>1
<1>5. rs = SubSeq(ls, 1, n)
  BY <1>3, <1>4 DEF Inner
<1>6. /\ n = Len(rs) /\ rs \in Seq(LevelType)
      /\ ls[m] = Top(ls)
      /\ \A j \in 1..n : rs[j] = ls[j]
      /\ 1..m = (1..n) \cup {m} /\ m \notin 1..n
      /\ Flat(rs) = Flat(ls)
  <2>1. ls \in Seq(LevelType) /\ Len(ls) = m /\ m = n + 1 /\ Top(ls).stack = << >>
    BY <1>1, <1>2, <1>3, <1>4
  <2>2. PICK qs \in Seq(LevelType) :
          /\ qs = SubSeq(ls, 1, n) /\ Len(qs) = n
          /\ ls[m] = Top(ls)
          /\ \A j \in 1..n : qs[j] = ls[j]
          /\ 1..m = (1..n) \cup {m} /\ m \notin 1..n
          /\ Flat(qs) = Flat(ls)
    BY <2>1, LevelLeft
  <2> QED BY <1>5, <2>2
<1>7. /\ m # 1 /\ n # 0 /\ n \in 1..n /\ n \in 1..m /\ m \in 1..m /\ 1 \in 1..n /\ rs # << >>
      /\ 1..n \subseteq 1..m
  BY <1>2, <1>3, <1>4, <1>6
<1>8. ~ ls[n].native /\ Top(rs) = ls[n]
  BY <1>2, <1>3, <1>4, <1>6, <1>7 DEF Nested, Top
<1>9. ChainOf(rs, "released") = ChainOf(ls, "native")
  BY <1>2, <1>3, <1>4, <1>6 DEF ChainOf, Idle
<1>10. Nested(own, rs, "released")
  BY <1>2, <1>3, <1>4, <1>6, <1>7, <1>8 DEF Nested, Running
<1>11. ASSUME own
      PROVE  OwnStacks(rs, "released", jit) /\ rs[At(own, rs)].stack # << >>
  <2>1. OwnStacks(ls, "native", jit)
    BY <1>11 DEF Shape, Stacks
  <2>2. rs[n].stack # << >>
    BY <1>3, <1>4, <1>6, <1>7, <1>8, <2>1 DEF OwnStacks
  <2>3. \A i \in 1..n : i # n /\ ~ rs[i].native => rs[i].stack # << >>
    BY <1>3, <1>4, <1>6, <1>7, <2>1 DEF OwnStacks
  <2>4. \A i \in 1..n : \A k \in 1..Len(rs[i].stack) : (rs[i].stack[k] \in jit) <=> (k = 1 /\ i # 1)
    <3> SUFFICES ASSUME NEW i \in 1..n, NEW k \in 1..Len(rs[i].stack)
                 PROVE  (rs[i].stack[k] \in jit) <=> (k = 1 /\ i # 1)
      OBVIOUS
    <3>1. rs[i] = ls[i] /\ i \in 1..Len(ls)
      BY <1>3, <1>6, <1>7
    <3> QED BY <2>1, <3>1 DEF OwnStacks
  <2> QED BY <1>3, <1>4, <1>6, <1>7, <1>8, <1>11, <2>2, <2>3, <2>4 DEF OwnStacks, Idle, At, Top
<1>12. ASSUME ~ own
      PROVE  SharedStack(rs, "released", jit) /\ rs[At(own, rs)].stack # << >>
  <2>1. SharedStack(ls, "native", jit)
    BY <1>12 DEF Shape, Stacks
  <2>2. rs[1].stack # << >>
    BY <1>1, <1>2, <1>3, <1>4, <1>6, <1>7, <2>1 DEF SharedStack
  <2> QED BY <1>8, <1>9, <1>12, <2>1, <2>2 DEF SharedStack, At
<1>13. Marked(rs, "released", jit)
  <2>1. Waiting(rs) = Waiting(ls)
    BY <1>3, <1>4, <1>6, <1>7, <1>8 DEF Waiting
  <2> QED BY <1>9, <2>1 DEF Marked, Shape
<1>14. own \in BOOLEAN
  BY DEF Shape
<1>15. Shape(own, rs, "released", jit)
  BY <1>3, <1>4, <1>6, <1>10, <1>11, <1>12, <1>13, <1>14 DEF Shape, Stacks
<1>16. Len(rs) = Len(ls) - 1
  BY <1>3, <1>4, <1>6
<1>17. rs[At(own, rs)].stack # << >>
  BY <1>11, <1>12, <1>14
<1> QED BY <1>7, <1>9, <1>15, <1>16, <1>17, <1>6

(* The caller's frame is popped from the call stack. *)
LEMMA Pop ==
  ASSUME NEW own, NEW ls, NEW jit, Shape(own, ls, "released", jit),
         ls # << >>, ls[At(own, ls)].stack # << >>,
         NEW rs, rs = PopFrame(ls, Len(ls), At(own, ls))
  PROVE  /\ Shape(own, rs, "check", jit) /\ Len(rs) = Len(ls)
         /\ ChainOf(rs, "check") = ChainOf(ls, "released")
         /\ rs[At(own, ls)].stack \in Seq(Frame) /\ ls[At(own, ls)].stack \in Seq(Frame)
         /\ Len(ls[At(own, ls)].stack) = Len(rs[At(own, ls)].stack) + 1
         /\ \A j \in 1..Len(ls) : j # At(own, ls) => rs[j].stack = ls[j].stack
<1>1. PICK n, s \in Nat : n = Len(ls) /\ s = At(own, ls)
  BY Indices
<1>2. /\ ls \in Seq(LevelType) /\ n \in 1..n /\ s \in 1..n /\ 1 \in 1..n /\ s \in Nat \ {0} /\ n # 0
      /\ \A j \in 1..n : j > s => ls[j].stack = << >>
  BY <1>1, Indices DEF Shape
<1>3. PICK qs \in Seq(LevelType), x \in Frame :
        /\ qs = PopFrame(ls, n, s) /\ Alike(ls, qs, s)
        /\ qs[n].cur = x
        /\ \A j \in 1..Len(ls) : j # n => qs[j].cur = ls[j].cur
        /\ ls[s].stack = Append(qs[s].stack, x)
  <2>1. ls \in Seq(LevelType) /\ n \in 1..Len(ls) /\ s \in 1..Len(ls) /\ ls[s].stack # << >>
    BY <1>1, <1>2
  <2> QED BY <2>1, Pops
<1>4. /\ rs = qs /\ Len(rs) = n /\ At(own, rs) = s /\ rs # << >>
      /\ \A j \in 1..n : rs[j].native = ls[j].native
      /\ \A j \in 1..n : j # s => rs[j].stack = ls[j].stack
      /\ \A j \in 1..n : j # n => rs[j].cur = ls[j].cur
  BY <1>1, <1>2, <1>3 DEF Alike, At
<1>5. /\ rs[s].stack \in Seq(Frame) /\ Len(rs[s].stack) \in Nat
      /\ ls[s].stack # << >> /\ ls[s].stack \in Seq(Frame) /\ Len(ls[s].stack) = Len(rs[s].stack) + 1
      /\ ls[s].stack[Len(rs[s].stack) + 1] = x
      /\ \A k \in 1..Len(rs[s].stack) : ls[s].stack[k] = rs[s].stack[k]
  <2>1. rs[s].stack \in Seq(Frame)
    BY <1>2, <1>3, <1>4, LevelOf
  <2> QED BY <1>3, <1>4, <2>1, Appended
<1>6. Nested(own, ls, "released") /\ ~ ls[n].native
  BY <1>1, <1>2 DEF Shape, Nested, Top
<1>7. Nested(own, rs, "check")
  <2>1. ~ own => s = 1
    BY <1>1 DEF At
  <2>2. ~ rs[s].native
    <3>1. own => s = n
      BY <1>1 DEF At
    <3>2. own \in BOOLEAN /\ ~ ls[1].native
      BY <1>2, <1>6 DEF Shape, Nested
    <3> QED BY <1>2, <1>4, <1>6, <2>1, <3>1, <3>2
  <2>3. \A i \in 1..n : rs[i].native => rs[i].stack = << >>
    BY <1>1, <1>4, <1>6, <2>2 DEF Nested
  <2>4. \A i \in 1..n : ~ rs[i].native => rs[i].cur \in Frame
    BY <1>1, <1>3, <1>4, <1>6 DEF Nested
  <2>5. \A i \in 1..n : ~ own /\ i # 1 => rs[i].stack = << >>
    BY <1>1, <1>4, <1>6, <2>1 DEF Nested
  <2>6. ~ rs[1].native /\ ~ Top(rs).native
    BY <1>2, <1>4, <1>6 DEF Nested, Top
  <2>7. \A i, j \in 1..n : j = i + 1 => (rs[j].native <=> ~ rs[i].native)
    BY <1>1, <1>4, <1>6 DEF Nested
  <2> QED BY <1>4, <2>3, <2>4, <2>5, <2>6, <2>7 DEF Nested, Running
<1>8. ~ Idle(rs, "check") /\ Top(rs).cur = x /\ Top(rs).stack = rs[n].stack
  BY <1>2, <1>3, <1>4, <1>6 DEF Idle, Top
<1>9. ChainOf(rs, "check") = ChainOf(ls, "released")
  <2>1. Grown(rs, ls, n, s, x)
    <3>1. \A j \in 1..n : j > s => rs[j].stack = << >>
      BY <1>2, <1>4
    <3> QED BY <1>1, <1>3, <1>4, <3>1 DEF Grown
  <2>2. s <= n
    BY <1>2
  <2>3. Flat(ls) = Append(Flat(rs), x)
    BY <1>2, <1>3, <1>4, <2>1, <2>2, FlatGrown
  <2> QED BY <1>8, <2>3 DEF ChainOf, Idle
<1>10. ASSUME own PROVE OwnStacks(rs, "check", jit)
  <2>1. s = n
    BY <1>1, <1>10 DEF At
  <2>2. OwnStacks(ls, "released", jit)
    BY <1>10 DEF Shape, Stacks
  <2>3. \A i \in 1..n : \A k \in 1..Len(rs[i].stack) : (rs[i].stack[k] \in jit) <=> (k = 1 /\ i # 1)
    <3> SUFFICES ASSUME NEW i \in 1..n, NEW k \in 1..Len(rs[i].stack)
                 PROVE  (rs[i].stack[k] \in jit) <=> (k = 1 /\ i # 1)
      OBVIOUS
    <3>1. CASE i # n
      BY <1>1, <1>4, <2>1, <2>2, <3>1 DEF OwnStacks
    <3>2. CASE i = n
      <4>1. k \in 1..Len(ls[n].stack) /\ rs[n].stack[k] = ls[n].stack[k]
        BY <1>5, <2>1, <3>2
      <4> QED BY <1>1, <2>2, <3>2, <4>1 DEF OwnStacks
    <3> QED BY <3>1, <3>2
  <2>4. (x \in jit) <=> (rs[n].stack = << >> /\ n # 1)
    <3>1. PICK k \in 1..Len(ls[n].stack) : k = Len(rs[n].stack) + 1
      BY <1>5, <2>1
    <3>2. (x \in jit) <=> (k = 1 /\ n # 1)
      <4>1. ls[n].stack[k] = x /\ n \in 1..Len(ls)
        BY <1>1, <1>2, <1>5, <2>1, <3>1
      <4> QED BY <2>2, <4>1 DEF OwnStacks
    <3>3. (k = 1) <=> (rs[n].stack = << >>)
      BY <1>5, <2>1, <3>1
    <3> QED BY <3>2, <3>3
  <2>5. \A i \in 1..n : i # n /\ ~ rs[i].native => rs[i].stack # << >>
    BY <1>1, <1>4, <2>1, <2>2 DEF OwnStacks
  <2> QED BY <1>4, <1>8, <2>3, <2>4, <2>5 DEF OwnStacks
<1>11. ASSUME ~ own PROVE SharedStack(rs, "check", jit)
  <2>1. SharedStack(ls, "released", jit)
    BY <1>11 DEF Shape, Stacks
  <2> QED BY <1>8, <1>9, <2>1 DEF SharedStack, Idle
<1>12. Marked(rs, "check", jit)
  <2>1. Waiting(rs) = Waiting(ls)
    BY <1>1, <1>4 DEF Waiting
  <2> QED BY <1>9, <2>1 DEF Marked, Shape
<1>13. Shape(own, rs, "check", jit)
  BY <1>3, <1>4, <1>7, <1>10, <1>11, <1>12 DEF Shape, Stacks
<1> QED BY <1>1, <1>4, <1>5, <1>9, <1>13

(* As many frames as levels. *)
Matched(S, T) == IsFiniteSet(S) /\ IsFiniteSet(T) /\ Cardinality(S) = Cardinality(T)

LEMMA OneMore ==
  ASSUME NEW S, NEW T, Matched(S, T), NEW f, f \notin S, NEW n, n \notin T
  PROVE  Matched(S \cup {f}, T \cup {n})
<1>1. Cardinality(S \cup {f}) = Cardinality(S) + 1 /\ IsFiniteSet(S \cup {f})
  BY FS_AddElement DEF Matched
<1>2. Cardinality(T \cup {n}) = Cardinality(T) + 1 /\ IsFiniteSet(T \cup {n})
  BY FS_AddElement DEF Matched
<1> QED BY <1>1, <1>2 DEF Matched

LEMMA OneLess ==
  ASSUME NEW S, NEW T, Matched(S, T), NEW f \in S, NEW n \in T
  PROVE  Matched(S \ {f}, T \ {n})
<1>1. Cardinality(S \ {f}) = Cardinality(S) - 1 /\ IsFiniteSet(S \ {f})
  BY FS_RemoveElement DEF Matched
<1>2. Cardinality(T \ {n}) = Cardinality(T) - 1 /\ IsFiniteSet(T \ {n})
  BY FS_RemoveElement DEF Matched
<1> QED BY <1>1, <1>2 DEF Matched

LEMMA NoneMatched ==
  ASSUME NEW S, Matched(S, {}) PROVE S = {}
<1>1. Cardinality(S) = 0 /\ IsFiniteSet(S)
  BY FS_EmptySet DEF Matched
<1> QED BY <1>1, FS_EmptySet

LEMMA HeldMarks ==
  ASSUME NEW own, NEW ls, NEW p, NEW jit, Shape(own, ls, p, jit)
  PROVE  Matched(HeldBy(ChainOf(ls, p)) \cap jit, Waiting(ls))
<1>1. ChainOf(ls, p) \in Seq(Frame)
  BY ChainTyped
<1>2. IsFiniteSet(HeldBy(ChainOf(ls, p)))
  BY <1>1, HeldFinite
<1>3. HeldBy(ChainOf(ls, p)) \cap jit \subseteq HeldBy(ChainOf(ls, p))
  OBVIOUS
<1> QED BY <1>2, <1>3, FS_Subset, WaitingFinite DEF Shape, Marked, Matched

(* Native code starts an interpreter on a frame marked jit_called. *)
LEMMA CallBack ==
  ASSUME NEW own, NEW ls, NEW jit, Shape(own, ls, "native", jit),
         NEW f \in Frame, f \in jit, f \notin HeldBy(ChainOf(ls, "native")),
         NEW me \in Methods, NEW rs, OneOn(ls, InterpreterOn(f, me), rs)
  PROVE  /\ Shape(own, rs, "call", jit)
         /\ ChainOf(rs, "call") = Append(ChainOf(ls, "native"), f)
<1> DEFINE l == InterpreterOn(f, me)
<1>1. l \in LevelType /\ l.stack = << >> /\ ~ l.native /\ l.cur = f
  BY InterpreterTyped
<1>2. /\ ls # << >> /\ ls \in Seq(LevelType) /\ Len(ls) \in 1..Len(ls) /\ 1 \in 1..Len(ls)
  <2>1. ls # << >>
    BY DEF Shape, Nested, Running
  <2> QED BY <2>1, Indices DEF Shape
<1> HIDE DEF l
<1>3. PICK n, m \in Nat :
        /\ n = Len(ls) /\ m = n + 1 /\ Len(rs) = m /\ rs \in Seq(LevelType)
        /\ rs[m] = l /\ Top(rs) = l /\ rs # << >>
        /\ \A j \in 1..n : rs[j] = ls[j]
        /\ 1..m = (1..n) \cup {m} /\ m \notin 1..n
        /\ Flat(rs) = Flat(ls)
  <2>1. OneOn(ls, l, rs)
    BY DEF l
  <2> QED BY <1>1, <1>2, <2>1, LevelAdded
<1>4. m # 1 /\ n # 0 /\ n \in 1..n /\ 1 \in 1..n /\ n # m
  BY <1>2, <1>3
<1>5. Nested(own, ls, "native") /\ ls[n].native
  BY <1>2, <1>3 DEF Shape, Nested, Top
<1>6. ~ Idle(rs, "call") /\ ChainOf(ls, "native") = Flat(ls)
  BY <1>1, <1>2, <1>3, <1>5 DEF Idle, ChainOf, Top
<1>7. ChainOf(rs, "call") = Append(ChainOf(ls, "native"), f)
  BY <1>1, <1>3, <1>6 DEF ChainOf
<1>8. Nested(own, rs, "call")
  <2>1. \A i, j \in 1..m : j = i + 1 => (rs[j].native <=> ~ rs[i].native)
    <3> SUFFICES ASSUME NEW i \in 1..m, NEW j \in 1..m, j = i + 1
                 PROVE  rs[j].native <=> ~ rs[i].native
      OBVIOUS
    <3>1. i \in 1..n /\ (j = m => i = n) /\ (j # m => j \in 1..n)
      BY <1>3
    <3> QED BY <1>1, <1>3, <1>5, <3>1 DEF Nested
  <2> QED BY <1>1, <1>3, <1>4, <1>5, <2>1 DEF Nested, Running
<1>9. ASSUME own PROVE OwnStacks(rs, "call", jit)
  <2>1. OwnStacks(ls, "native", jit)
    BY <1>9 DEF Shape, Stacks
  <2>2. \A i \in 1..m : i # m /\ ~ rs[i].native => rs[i].stack # << >>
    BY <1>3, <1>4, <1>5, <2>1 DEF OwnStacks
  <2>3. \A i \in 1..m : \A k \in 1..Len(rs[i].stack) : (rs[i].stack[k] \in jit) <=> (k = 1 /\ i # 1)
    <3> SUFFICES ASSUME NEW i \in 1..m, NEW k \in 1..Len(rs[i].stack)
                 PROVE  (rs[i].stack[k] \in jit) <=> (k = 1 /\ i # 1)
      OBVIOUS
    <3>1. i # m
      <4>1. 1..Len(<< >>) = {}
        OBVIOUS
      <4> QED BY <1>1, <1>3, <4>1
    <3>2. i \in 1..n /\ rs[i] = ls[i]
      BY <1>3, <3>1
    <3> QED BY <1>3, <2>1, <3>2 DEF OwnStacks
  <2> QED BY <1>1, <1>3, <1>4, <2>2, <2>3 DEF OwnStacks
<1>10. ASSUME ~ own PROVE SharedStack(rs, "call", jit)
  <2>1. SharedStack(ls, "native", jit)
    BY <1>10 DEF Shape, Stacks
  <2>2. Flat(ls) # << >> /\ Flat(ls) \in Seq(Frame)
    <3>1. ls[1].stack # << >>
      BY <1>2, <1>3, <1>5, <2>1 DEF SharedStack, Top
    <3> QED BY <1>2, <3>1, FlatSome, FlatTyped
  <2>3. Append(Flat(ls), f)[1] = Flat(ls)[1]
    <3>1. 1 \in 1..Len(Flat(ls))
      BY <2>2
    <3> QED BY <2>2, <3>1
  <2>4. Flat(ls)[1] \notin jit
    BY <1>6, <2>1, <2>2 DEF SharedStack
  <2> QED BY <1>1, <1>3, <1>6, <1>7, <2>3, <2>4 DEF SharedStack
<1>11. Marked(rs, "call", jit)
  <2>1. Waiting(rs) = Waiting(ls) \cup {n} /\ n \notin Waiting(ls)
    BY <1>3, <1>4, <1>5 DEF Waiting
  <2>2. HeldBy(ChainOf(rs, "call")) = HeldBy(ChainOf(ls, "native")) \cup {f}
    <3>1. PICK c \in Seq(Frame) : c = ChainOf(ls, "native")
      BY ChainTyped
    <3>2. HeldBy(Append(c, f)) = HeldBy(c) \cup {f}
      BY HeldAppend
    <3> QED BY <1>7, <3>1, <3>2
  <2>3. HeldBy(ChainOf(rs, "call")) \cap jit = (HeldBy(ChainOf(ls, "native")) \cap jit) \cup {f}
    BY <2>2
  <2>4. Cardinality(HeldBy(ChainOf(rs, "call")) \cap jit) = Cardinality(Waiting(rs))
    <3>1. Matched(HeldBy(ChainOf(ls, "native")) \cap jit, Waiting(ls))
      BY HeldMarks
    <3>2. f \notin HeldBy(ChainOf(ls, "native")) \cap jit
      OBVIOUS
    <3>3. Matched((HeldBy(ChainOf(ls, "native")) \cap jit) \cup {f}, Waiting(ls) \cup {n})
      BY <2>1, <3>1, <3>2, OneMore
    <3> QED BY <2>1, <2>3, <3>3 DEF Matched
  <2> QED BY <2>4 DEF Marked
<1>12. Shape(own, rs, "call", jit)
  BY <1>3, <1>8, <1>9, <1>10, <1>11 DEF Shape, Stacks
<1> QED BY <1>7, <1>12

(* A nested interpreter whose current frame is marked goes back to native    *)
(* code, with nothing left on its call stack.                              *)
LEMMA Leave ==
  ASSUME NEW own, NEW ls, NEW jit, Shape(own, ls, "check", jit),
         Top(ls).cur \in jit, IsInjective(ChainOf(ls, "check")),
         NEW rs, Inner(ls, rs)
  PROVE  /\ Shape(own, rs, "native", jit) /\ Len(rs) = Len(ls) - 1
         /\ ChainOf(ls, "check") = Append(ChainOf(rs, "native"), Top(ls).cur)
         /\ \A j \in 1..Len(rs) : rs[j] = ls[j]
<1>1. /\ ls # << >> /\ ls \in Seq(LevelType) /\ Len(ls) \in 1..Len(ls) /\ 1 \in 1..Len(ls) /\ Len(ls) # 0
      /\ Len(ls) \in Nat
  <2>1. ls # << >>
    BY DEF Shape, Nested, Running
  <2> QED BY <2>1, Indices DEF Shape
<1>2. Nested(own, ls, "check") /\ ~ Top(ls).native /\ ~ Idle(ls, "check")
  BY <1>1 DEF Shape, Nested, Idle
<1>3. ~ own => SharedStack(ls, "check", jit)
  BY DEF Shape, Stacks
<1>4. own => OwnStacks(ls, "check", jit)
  BY DEF Shape, Stacks
<1>5. PICK x \in Frame : x = Top(ls).cur /\ x \in HeldBy(ChainOf(ls, "check"))
  BY <1>2, ChainTyped, StackHeld
<1>6. Len(ls) # 1 /\ Top(ls).stack = << >>
  <2>1. ASSUME ~ own PROVE Len(ls) # 1
    <3> SUFFICES ASSUME Len(ls) = 1 PROVE FALSE
      OBVIOUS
    <3>1. Waiting(ls) = {}
      BY DEF Waiting
    <3>2. Matched(HeldBy(ChainOf(ls, "check")) \cap jit, {})
      BY <3>1, HeldMarks
    <3>3. HeldBy(ChainOf(ls, "check")) \cap jit = {}
      BY <3>2, NoneMatched
    <3> QED BY <1>5, <3>3
  <2>2. own \in BOOLEAN
    BY DEF Shape
  <2> QED BY <1>1, <1>2, <1>4, <2>1, <2>2 DEF OwnStacks, Nested, Top
<1>7. PICK m \in Nat : m = Len(ls)
  BY <1>1
<1>8. PICK n \in Nat : m = n + 1
  <2>1. m - 1 \in Nat /\ m = (m - 1) + 1
    BY <1>1, <1>7
  <2> QED BY <2>1
<1>9. /\ n = Len(rs) /\ rs \in Seq(LevelType) /\ Len(ls) = m
      /\ ls[m] = Top(ls)
      /\ \A j \in 1..n : rs[j] = ls[j]
      /\ 1..m = (1..n) \cup {m} /\ m \notin 1..n
      /\ Flat(rs) = Flat(ls)
  <2>1. ls \in Seq(LevelType) /\ Len(ls) = m /\ m = n + 1 /\ Top(ls).stack = << >>
    BY <1>1, <1>6, <1>7, <1>8
  <2>2. PICK qs \in Seq(LevelType) :
          /\ qs = SubSeq(ls, 1, n) /\ Len(qs) = n
          /\ ls[m] = Top(ls)
          /\ \A j \in 1..n : qs[j] = ls[j]
          /\ 1..m = (1..n) \cup {m} /\ m \notin 1..n
          /\ Flat(qs) = Flat(ls)
    BY <2>1, LevelLeft
  <2>3. rs = SubSeq(ls, 1, n)
    BY <1>7, <1>8 DEF Inner
  <2> QED BY <2>1, <2>2, <2>3
<1>10. /\ m # 1 /\ n # 0 /\ n \in 1..n /\ n \in 1..m /\ m \in 1..m /\ 1 \in 1..n /\ rs # << >>
       /\ 1..n \subseteq 1..m /\ n # m
  <2>1. m # 1
    BY <1>6, <1>7
  <2>2. n # 0
    BY <1>8, <2>1
  <2>3. rs # << >>
    BY <1>9, <2>2
  <2> QED BY <1>8, <2>1, <2>2, <2>3
<1>11. ls[n].native /\ Top(rs) = ls[n]
  BY <1>2, <1>8, <1>9, <1>10 DEF Nested, Top
<1>12. ChainOf(rs, "native") = Flat(ls) /\ ChainOf(ls, "check") = Append(Flat(ls), x)
  BY <1>2, <1>5, <1>9, <1>11 DEF ChainOf, Idle
<1>13. Nested(own, rs, "native")
  BY <1>2, <1>9, <1>10, <1>11 DEF Nested, Running
<1>14. Flat(ls) \in Seq(Frame) /\ x \notin HeldBy(Flat(ls))
       /\ HeldBy(ChainOf(ls, "check")) = HeldBy(Flat(ls)) \cup {x}
  <2>1. PICK c \in Seq(Frame) : c = Flat(ls)
    BY ChainTyped
  <2>2. HeldBy(Append(c, x)) = HeldBy(c) \cup {x} /\ (IsInjective(Append(c, x)) => x \notin HeldBy(c))
    BY HeldAppend
  <2> QED BY <1>12, <2>1, <2>2
<1>15. ASSUME own PROVE OwnStacks(rs, "native", jit)
  <2>1. OwnStacks(ls, "check", jit)
    BY <1>15 DEF Shape, Stacks
  <2>2. \A i \in 1..n : i # n /\ ~ rs[i].native => rs[i].stack # << >>
    BY <1>9, <1>10, <2>1 DEF OwnStacks
  <2>3. \A i \in 1..n : \A k \in 1..Len(rs[i].stack) : (rs[i].stack[k] \in jit) <=> (k = 1 /\ i # 1)
    <3> SUFFICES ASSUME NEW i \in 1..n, NEW k \in 1..Len(rs[i].stack)
                 PROVE  (rs[i].stack[k] \in jit) <=> (k = 1 /\ i # 1)
      OBVIOUS
    <3>1. rs[i] = ls[i] /\ i \in 1..Len(ls)
      BY <1>9, <1>10
    <3> QED BY <2>1, <3>1 DEF OwnStacks
  <2> QED BY <1>9, <1>11, <2>2, <2>3 DEF OwnStacks, Idle
<1>16. ASSUME ~ own PROVE SharedStack(rs, "native", jit)
  <2>1. ChainOf(ls, "check") # << >> /\ ChainOf(ls, "check")[1] \notin jit
    <3>1. ChainOf(ls, "check") # << >>
      BY <1>12, <1>14
    <3> QED BY <1>3, <1>16, <3>1 DEF SharedStack
  <2>2. Flat(ls) # << >>
    <3> SUFFICES ASSUME Flat(ls) = << >> PROVE FALSE
      OBVIOUS
    <3>1. ChainOf(ls, "check")[1] = x
      BY <1>12
    <3> QED BY <1>5, <2>1, <3>1
  <2>3. Flat(ls)[1] = ChainOf(ls, "check")[1]
    <3>1. 1 \in 1..Len(Flat(ls))
      BY <1>14, <2>2
    <3> QED BY <1>12, <1>14, <3>1
  <2>4. rs[1].stack # << >>
    <3> SUFFICES ASSUME rs[1].stack = << >> PROVE FALSE
      OBVIOUS
    <3>1. Bare(rs)
      BY <1>9, <1>13, <1>16 DEF Bare, Nested
    <3> QED BY <1>9, <2>2, <3>1, FlatNone
  <2> QED BY <1>12, <2>1, <2>3, <2>4 DEF SharedStack
<1>17. Marked(rs, "native", jit)
  <2>1. Waiting(rs) = Waiting(ls) \ {n} /\ n \in Waiting(ls)
    BY <1>9, <1>10, <1>11 DEF Waiting
  <2>2. /\ HeldBy(ChainOf(rs, "native")) \cap jit = (HeldBy(ChainOf(ls, "check")) \cap jit) \ {x}
        /\ x \in HeldBy(ChainOf(ls, "check")) \cap jit
    BY <1>5, <1>12, <1>14
  <2>3. Cardinality(HeldBy(ChainOf(rs, "native")) \cap jit) = Cardinality(Waiting(rs))
    <3>1. Matched(HeldBy(ChainOf(ls, "check")) \cap jit, Waiting(ls))
      BY HeldMarks
    <3>2. Matched((HeldBy(ChainOf(ls, "check")) \cap jit) \ {x}, Waiting(ls) \ {n})
      BY <2>1, <2>2, <3>1, OneLess
    <3> QED BY <2>1, <2>2, <3>2 DEF Matched
  <2> QED BY <2>3 DEF Marked
<1>18. Shape(own, rs, "native", jit)
  BY <1>9, <1>13, <1>15, <1>16, <1>17 DEF Shape, Stacks
<1>19. Len(rs) = Len(ls) - 1 /\ ChainOf(ls, "check") = Append(ChainOf(rs, "native"), Top(ls).cur)
  BY <1>5, <1>7, <1>8, <1>9, <1>12
<1> QED BY <1>9, <1>18, <1>19

(* The loop goes on where the current frame is not marked. *)
LEMMA GoOn ==
  ASSUME NEW own, NEW ls, NEW jit, Shape(own, ls, "check", jit), Top(ls).cur \notin jit
  PROVE  Shape(own, ls, "run", jit) /\ ChainOf(ls, "run") = ChainOf(ls, "check")
<1>1. (Idle(ls, "run") <=> Idle(ls, "check")) /\ ChainOf(ls, "run") = ChainOf(ls, "check")
  BY DEF Idle, ChainOf
<1>2. Nested(own, ls, "run")
  BY DEF Shape, Nested, Running
<1>3. Stacks(own, ls, "run", jit)
  BY <1>1 DEF Shape, Stacks, OwnStacks, SharedStack
<1>4. Marked(ls, "run", jit)
  BY <1>1 DEF Shape, Marked
<1> QED BY <1>1, <1>2, <1>3, <1>4 DEF Shape

(* The current frame is given back. *)
LEMMA Release ==
  ASSUME NEW own, NEW ls, NEW jit, Shape(own, ls, "run", jit)
  PROVE  /\ Shape(own, ls, "released", jit)
         /\ ChainOf(ls, "run") = Append(ChainOf(ls, "released"), Top(ls).cur)
<1>1. ls # << >> /\ ~ Idle(ls, "run") /\ Idle(ls, "released") /\ ls \in Seq(LevelType)
  BY DEF Shape, Nested, Running, Idle
<1>2. PICK x \in Frame : x = Top(ls).cur
  BY <1>1, ChainTyped
<1>3. PICK c \in Seq(Frame) : c = Flat(ls)
  BY ChainTyped
<1>4. ChainOf(ls, "run") = Append(c, x) /\ ChainOf(ls, "released") = c
  BY <1>1, <1>2, <1>3 DEF ChainOf
<1>5. Nested(own, ls, "released")
  BY DEF Shape, Nested, Running
<1>6. x \notin jit
  BY <1>2 DEF Shape, Marked
<1>7. own => OwnStacks(ls, "released", jit)
  BY <1>1, <1>2, <1>6 DEF Shape, Stacks, OwnStacks
<1>8. ASSUME ~ own PROVE SharedStack(ls, "released", jit)
  <2>1. SharedStack(ls, "run", jit)
    BY <1>8 DEF Shape, Stacks
  <2>2. ASSUME c # << >> PROVE c[1] \notin jit
    <3>1. 1 \in 1..Len(c)
      BY <2>2
    <3>2. Append(c, x)[1] = c[1] /\ Append(c, x) # << >>
      BY <3>1
    <3> QED BY <1>4, <2>1, <3>2 DEF SharedStack
  <2> QED BY <1>1, <1>4, <2>1, <2>2 DEF SharedStack
<1>9. Marked(ls, "released", jit)
  <2>1. HeldBy(Append(c, x)) = HeldBy(c) \cup {x}
    BY HeldAppend
  <2>2. HeldBy(Append(c, x)) \cap jit = HeldBy(c) \cap jit
    BY <1>6, <2>1
  <2> QED BY <1>4, <2>2 DEF Shape, Marked
<1>10. Shape(own, ls, "released", jit)
  BY <1>5, <1>7, <1>8, <1>9 DEF Shape, Stacks
<1> QED BY <1>2, <1>4, <1>10

(* An empty call stack, after the frame was given back, is that of the       *)
(* thread's only interpreter.                                              *)
LEMMA LastReturn ==
  ASSUME NEW own, NEW ls, NEW jit, Shape(own, ls, "released", jit),
         ls # << >>, ls[At(own, ls)].stack = << >>
  PROVE  Len(ls) = 1 /\ SubSeq(ls, 1, Len(ls) - 1) = << >> /\ ChainOf(ls, "released") = << >>
<1>1. ls \in Seq(LevelType) /\ Len(ls) \in 1..Len(ls) /\ 1 \in 1..Len(ls) /\ Len(ls) \in Nat
  BY Indices DEF Shape
<1>2. Nested(own, ls, "released") /\ ~ Top(ls).native /\ ~ ls[1].native /\ own \in BOOLEAN
  BY DEF Shape, Nested
<1>3. ChainOf(ls, "released") = Flat(ls)
  BY DEF ChainOf, Idle
<1>4. ASSUME own PROVE Len(ls) = 1
  BY <1>4 DEF Shape, Stacks, OwnStacks, At, Top
<1>5. ASSUME ~ own PROVE Bare(ls)
  BY <1>2, <1>5 DEF At, Nested, Bare
<1>6. ASSUME ~ own PROVE Len(ls) = 1
  <2> SUFFICES ASSUME Len(ls) # 1 PROVE FALSE
    OBVIOUS
  <2>1. Flat(ls) = << >>
    BY <1>1, <1>5, <1>6, FlatNone
  <2>2. HeldBy(ChainOf(ls, "released")) \cap jit = {}
    BY <1>3, <2>1 DEF HeldBy
  <2>3. 2 \in 1..Len(ls) /\ 2 = 1 + 1
    <3>1. PICK n \in Nat : n = Len(ls) /\ n \in 1..n /\ n # 1
      BY <1>1
    <3>2. 2 \in 1..n
      BY <3>1
    <3>3. 2 = 1 + 1
      OBVIOUS
    <3> QED BY <3>1, <3>2, <3>3
  <2>4. ls[2].native
    BY <1>1, <1>2, <2>3 DEF Nested
  <2>5. 2 \in Waiting(ls)
    BY <1>2, <2>3, <2>4 DEF Waiting, Top
  <2>6. Matched({}, Waiting(ls))
    BY <2>2, HeldMarks
  <2>7. Matched(Waiting(ls), {})
    BY <2>6 DEF Matched
  <2> QED BY <2>5, <2>7, NoneMatched
<1>7. Len(ls) = 1
  BY <1>2, <1>4, <1>6
<1>8. Bare(ls)
  BY <1>7 DEF Bare, At
<1>9. Flat(ls) = << >>
  BY <1>1, <1>8, FlatNone
<1>10. SubSeq(ls, 1, Len(ls) - 1) = << >>
  BY <1>1, <1>7
<1> QED BY <1>3, <1>7, <1>9, <1>10

LEMMA NoLevels ==
  ASSUME NEW own \in BOOLEAN, NEW p, p \notin Running, NEW jit
  PROVE  Shape(own, << >>, p, jit) /\ ChainOf(<< >>, p) = << >>
<1>1. << >> \in Seq(LevelType) /\ Len(<< >>) = 0 /\ 1..Len(<< >>) = {}
  OBVIOUS
<1>2. ChainOf(<< >>, p) = << >> /\ Idle(<< >>, p)
  BY FlatEmpty DEF ChainOf, Idle
<1>3. Nested(own, << >>, p)
  BY <1>1 DEF Nested
<1>4. Stacks(own, << >>, p, jit)
  BY <1>1, <1>2 DEF Stacks, OwnStacks, SharedStack, Running
<1>5. Marked(<< >>, p, jit)
  <2>1. Waiting(<< >>) = {} /\ HeldBy(<< >>) \cap jit = {}
    BY <1>1 DEF Waiting, HeldBy
  <2> QED BY <1>2, <2>1 DEF Marked, Running
<1> QED BY <1>1, <1>2, <1>3, <1>4, <1>5 DEF Shape

(* The first interpreter of a thread. *)
LEMMA Start ==
  ASSUME NEW own \in BOOLEAN, NEW f \in Frame, NEW me \in Methods, NEW jit, f \notin jit,
         NEW ls, ls = <<InterpreterOn(f, me)>>
  PROVE  /\ Shape(own, ls, "run", jit)
         /\ ChainOf(ls, "run") = Append(<< >>, f)
         /\ Len(ls) = 1 /\ ls[1].stack = << >>
<1> DEFINE l == InterpreterOn(f, me)
<1>1. l \in LevelType /\ l.stack = << >> /\ ~ l.native /\ l.cur = f
  BY InterpreterTyped
<1> HIDE DEF l
<1>2. ls = <<l>>
  BY DEF l
<1>3. /\ ls \in Seq(LevelType) /\ Len(ls) = 1 /\ ls[1] = l /\ ls # << >> /\ Top(ls) = l
      /\ 1..Len(ls) = {1}
  BY <1>1, <1>2 DEF Top
<1>4. ~ Idle(ls, "run") /\ Bare(ls)
  BY <1>1, <1>3 DEF Idle, Bare
<1>5. ChainOf(ls, "run") = Append(<< >>, f)
  <2>1. Flat(ls) = << >>
    BY <1>3, <1>4, FlatNone
  <2> QED BY <1>1, <1>3, <1>4, <2>1 DEF ChainOf
<1>6. Nested(own, ls, "run")
  BY <1>1, <1>3 DEF Nested, Running
<1>7. OwnStacks(ls, "run", jit)
  <2>1. 1..Len(<< >>) = {}
    OBVIOUS
  <2> QED BY <1>1, <1>3, <2>1 DEF OwnStacks
<1>8. SharedStack(ls, "run", jit)
  <2>1. Append(<< >>, f)[1] = f
    OBVIOUS
  <2> QED BY <1>1, <1>3, <1>5, <2>1 DEF SharedStack
<1>9. Marked(ls, "run", jit)
  <2>1. Waiting(ls) = {}
    BY <1>1, <1>3 DEF Waiting
  <2>2. HeldBy(Append(<< >>, f)) = {f}
    BY DEF HeldBy
  <2>3. HeldBy(ChainOf(ls, "run")) \cap jit = {}
    BY <1>5, <2>2
  <2> QED BY <1>1, <1>3, <2>1, <2>3 DEF Marked
<1> QED BY <1>1, <1>3, <1>5, <1>6, <1>7, <1>8, <1>9 DEF Shape, Stacks

-----------------------------------------------------------------------------
(* One thread moves *)

(* The marks of the other threads' frames stay. *)
SameMarks(c, t, jit, jit2) ==
  \A u \in Threads \ {t} : HeldBy(c[u]) \cap jit2 = HeldBy(c[u]) \cap jit

LEMMA Moved ==
  ASSUME NEW own, NEW lv, NEW pcs, NEW jit, Threading(own, lv, pcs, jit),
         NEW t \in Threads, NEW ns, NEW p \in Stages, NEW jit2,
         Shape(own, ns, p, jit2), Bound(ns),
         SameMarks(ChainsOf(lv, pcs), t, jit, jit2)
  PROVE  /\ Threading(own, Put(lv, t, ns), Put(pcs, t, p), jit2)
         /\ ChainsOf(Put(lv, t, ns), Put(pcs, t, p)) = Put(ChainsOf(lv, pcs), t, ChainOf(ns, p))
<1> DEFINE lv2 == Put(lv, t, ns)
           pcs2 == Put(pcs, t, p)
<1>1. /\ lv \in [Threads -> Seq(LevelType)] /\ pcs \in [Threads -> Stages]
      /\ ns \in Seq(LevelType)
  BY DEF Threading, Shape
<1>2. /\ lv2 \in [Threads -> Seq(LevelType)] /\ pcs2 \in [Threads -> Stages]
      /\ lv2[t] = ns /\ pcs2[t] = p
      /\ \A u \in Threads \ {t} : lv2[u] = lv[u] /\ pcs2[u] = pcs[u]
  BY <1>1 DEF Put
<1> HIDE DEF lv2, pcs2
<1>3. ASSUME NEW u \in Threads PROVE Shape(own, lv2[u], pcs2[u], jit2) /\ Bound(lv2[u])
  <2>1. CASE u = t
    BY <1>2, <2>1
  <2>2. CASE u # t
    <3>1. Shape(own, lv[u], pcs[u], jit) /\ Bound(lv[u])
      BY DEF Threading
    <3>2. HeldBy(ChainOf(lv[u], pcs[u])) \cap jit2 = HeldBy(ChainOf(lv[u], pcs[u])) \cap jit
      BY <2>2 DEF ChainsOf, SameMarks
    <3>3. Shape(own, lv[u], pcs[u], jit2)
      BY <3>1, <3>2, ShapeMarks
    <3> QED BY <1>2, <2>2, <3>1, <3>3
  <2> QED BY <2>1, <2>2
<1>4. ChainsOf(lv2, pcs2) = Put(ChainsOf(lv, pcs), t, ChainOf(ns, p))
  BY <1>2 DEF ChainsOf, Put
<1>5. Threading(own, lv2, pcs2, jit2)
  BY <1>2, <1>3 DEF Threading
<1> QED BY <1>4, <1>5 DEF lv2, pcs2

(* The frames of all threads stay where they are. *)
LEMMA Unmoved ==
  ASSUME NEW own, NEW lv, NEW pcs, NEW jit, Threading(own, lv, pcs, jit),
         NEW t \in Threads, NEW ns, NEW p \in Stages,
         Shape(own, ns, p, jit), Bound(ns), ChainOf(ns, p) = ChainOf(lv[t], pcs[t])
  PROVE  /\ Threading(own, Put(lv, t, ns), Put(pcs, t, p), jit)
         /\ ChainsOf(Put(lv, t, ns), Put(pcs, t, p)) = ChainsOf(lv, pcs)
<1>1. /\ Threading(own, Put(lv, t, ns), Put(pcs, t, p), jit)
      /\ ChainsOf(Put(lv, t, ns), Put(pcs, t, p)) = Put(ChainsOf(lv, pcs), t, ChainOf(ns, p))
  BY Moved DEF SameMarks
<1>2. Put(ChainsOf(lv, pcs), t, ChainOf(ns, p)) = ChainsOf(lv, pcs)
  BY DEF ChainsOf, Put
<1> QED BY <1>1, <1>2

(* A step of t alone takes no thread back from its end. *)
LEMMA StillStopped ==
  ASSUME NEW pcs \in [Threads -> Stages], NEW t \in Threads, NEW p \in Stages, NEW h \in SUBSET Threads,
         pcs[t] \in Ended => p \in Ended, Stopped(h, pcs)
  PROVE  Stopped(h, Put(pcs, t, p))
<1>1. PICK u \in h : pcs[u] \in Ended
  BY DEF Stopped
<1>2. Put(pcs, t, p)[u] \in Ended
  BY <1>1 DEF Put
<1> QED BY <1>2 DEF Stopped

-----------------------------------------------------------------------------
(* Which native method a frame marked jit_called stands for *)

(* The native methods that wait for a call, by their level. *)
WaitFor(ls) == [i \in Waiting(ls) |-> ls[i].method]

(* The frames marked jit_called are those of w, in the same order. *)
Places(g, w, c, jit, mt) ==
  /\ \A i, j \in DOMAIN w : i < j => g[i] < g[j]
  /\ \A i \in DOMAIN w : c[g[i]] \in jit /\ mt[c[g[i]]] = w[i]
  /\ \A k \in DOMAIN c : c[k] \in jit => \E i \in DOMAIN w : g[i] = k
Paired(w, c, jit, mt) == \E g \in [DOMAIN w -> DOMAIN c] : Places(g, w, c, jit, mt)

(* Marks and methods of the frames of c are the same. *)
Agrees(c, jit, mt, jit2, mt2) ==
  \A k \in DOMAIN c : (c[k] \in jit2 <=> c[k] \in jit) /\ mt2[c[k]] = mt[c[k]]

LEMMA PairedStays ==
  ASSUME NEW w, NEW c, NEW jit, NEW mt, Paired(w, c, jit, mt),
         NEW jit2, NEW mt2, Agrees(c, jit, mt, jit2, mt2)
  PROVE  Paired(w, c, jit2, mt2)
<1>1. PICK g \in [DOMAIN w -> DOMAIN c] : Places(g, w, c, jit, mt)
  BY DEF Paired
<1>2. Places(g, w, c, jit2, mt2)
  BY <1>1 DEF Places, Agrees
<1> QED BY <1>2 DEF Paired

LEMMA LastFrame ==
  ASSUME NEW q, NEW r, NEW f \in Frame, Longer(q, r, f)
  PROVE  \E n, m \in Nat :
           /\ n = Len(r) /\ m = n + 1 /\ DOMAIN r = 1..n /\ DOMAIN q = 1..m /\ q[m] = f
           /\ 1..m = (1..n) \cup {m} /\ m \notin 1..n
           /\ \A k \in 1..n : q[k] = r[k] /\ k < m
<1>1. r \in Seq(Frame) /\ q = Append(r, f)
  BY DEF Longer
<1>2. PICK n \in Nat : n = Len(r)
  BY <1>1
<1>3. PICK m \in Nat : m = n + 1
  OBVIOUS
<1>4. DOMAIN r = 1..n /\ DOMAIN q = 1..m /\ q[m] = f /\ \A k \in 1..n : q[k] = r[k]
  BY <1>1, <1>2, <1>3
<1>5. 1..m = (1..n) \cup {m} /\ m \notin 1..n /\ \A k \in 1..n : k < m
  BY <1>3
<1> QED BY <1>2, <1>3, <1>4, <1>5

(* The last of the frames is not among the others. *)
LEMMA LastOnce ==
  ASSUME NEW q, NEW r, NEW f \in Frame, Longer(q, r, f), IsInjective(q)
  PROVE  f \in HeldBy(q) /\ \A h \in DOMAIN r : r[h] # f
<1>1. PICK n, m \in Nat :
        /\ n = Len(r) /\ m = n + 1 /\ DOMAIN r = 1..n /\ DOMAIN q = 1..m /\ q[m] = f
        /\ 1..m = (1..n) \cup {m} /\ m \notin 1..n
        /\ \A k \in 1..n : q[k] = r[k] /\ k < m
  BY ONLY f \in Frame, Longer(q, r, f), LastFrame
<1>2. m \in DOMAIN q /\ f \in HeldBy(q)
  BY <1>1 DEF HeldBy
<1>3. ASSUME NEW h \in DOMAIN r PROVE r[h] # f
  <2>1. h \in DOMAIN q /\ h # m /\ q[h] = r[h]
    BY <1>1
  <2>2. q[h] # q[m]
    BY <1>2, <2>1 DEF IsInjective
  <2> QED BY <1>1, <2>1, <2>2
<1> QED BY <1>2, <1>3

(* An unmarked frame is added or taken away. *)
LEMMA PairedGrows ==
  ASSUME NEW w, NEW r, NEW jit, NEW mt, Paired(w, r, jit, mt),
         NEW f \in Frame, f \notin jit, NEW q, Longer(q, r, f)
  PROVE  Paired(w, q, jit, mt)
<1>1. PICK g \in [DOMAIN w -> DOMAIN r] : Places(g, w, r, jit, mt)
  BY DEF Paired
<1>2. PICK n, m \in Nat :
        /\ n = Len(r) /\ m = n + 1 /\ DOMAIN r = 1..n /\ DOMAIN q = 1..m /\ q[m] = f
        /\ 1..m = (1..n) \cup {m} /\ m \notin 1..n
        /\ \A k \in 1..n : q[k] = r[k] /\ k < m
  BY LastFrame
<1>3. g \in [DOMAIN w -> DOMAIN q]
  BY <1>1, <1>2
<1>4. Places(g, w, q, jit, mt)
  BY <1>1, <1>2 DEF Places
<1> QED BY <1>3, <1>4 DEF Paired

LEMMA PairedShrinks ==
  ASSUME NEW w, NEW q, NEW jit, NEW mt, Paired(w, q, jit, mt),
         NEW f \in Frame, f \notin jit, NEW r, Longer(q, r, f)
  PROVE  Paired(w, r, jit, mt)
<1>1. PICK g \in [DOMAIN w -> DOMAIN q] : Places(g, w, q, jit, mt)
  BY DEF Paired
<1>2. PICK n, m \in Nat :
        /\ n = Len(r) /\ m = n + 1 /\ DOMAIN r = 1..n /\ DOMAIN q = 1..m /\ q[m] = f
        /\ 1..m = (1..n) \cup {m} /\ m \notin 1..n
        /\ \A k \in 1..n : q[k] = r[k] /\ k < m
  BY LastFrame
<1>3. \A i \in DOMAIN w : g[i] \in DOMAIN r
  BY <1>1, <1>2 DEF Places
<1>4. g \in [DOMAIN w -> DOMAIN r]
  BY <1>1, <1>3
<1>5. Places(g, w, r, jit, mt)
  BY <1>1, <1>2, <1>3 DEF Places
<1> QED BY <1>4, <1>5 DEF Paired

(* Native code at level n, above all that wait, starts to wait ... *)
WaitsToo(w2, w, n, m) ==
  /\ n \notin DOMAIN w /\ DOMAIN w2 = DOMAIN w \cup {n} /\ n \in Nat
  /\ \A i \in DOMAIN w : i \in Nat /\ i < n /\ w2[i] = w[i]
  /\ w2[n] = m

LEMMA PairedCalls ==
  ASSUME NEW w, NEW r, NEW jit, NEW mt, Paired(w, r, jit, mt),
         NEW f \in Frame, f \in jit, NEW q, Longer(q, r, f),
         NEW w2, NEW k, NEW me, WaitsToo(w2, w, k, me), mt[f] = me
  PROVE  Paired(w2, q, jit, mt)
<1>1. PICK g \in [DOMAIN w -> DOMAIN r] : Places(g, w, r, jit, mt)
  BY DEF Paired
<1>2. PICK n, m \in Nat :
        /\ n = Len(r) /\ m = n + 1 /\ DOMAIN r = 1..n /\ DOMAIN q = 1..m /\ q[m] = f
        /\ 1..m = (1..n) \cup {m} /\ m \notin 1..n
        /\ \A h \in 1..n : q[h] = r[h] /\ h < m
  BY LastFrame
<1>3. PICK h : h = [i \in DOMAIN w2 |-> IF i = k THEN m ELSE g[i]]
  OBVIOUS
<1>4. /\ \A i \in DOMAIN w : h[i] = g[i] /\ g[i] \in 1..n /\ i \in DOMAIN w2 /\ i # k
      /\ k \in DOMAIN w2 /\ h[k] = m
  BY <1>1, <1>2, <1>3 DEF WaitsToo
<1>5. h \in [DOMAIN w2 -> DOMAIN q]
  BY <1>2, <1>3, <1>4 DEF WaitsToo
<1>6. Places(h, w2, q, jit, mt)
  <2>1. ASSUME NEW i \in DOMAIN w2, NEW j \in DOMAIN w2, i < j PROVE h[i] < h[j]
    <3>1. CASE j = k
      <4>1. i \in DOMAIN w
        BY <2>1, <3>1 DEF WaitsToo
      <4> QED BY <1>2, <1>4, <3>1, <4>1
    <3>2. CASE j # k
      <4>1. j \in DOMAIN w /\ i # k
        BY <2>1, <3>2 DEF WaitsToo
      <4>2. i \in DOMAIN w
        BY <4>1 DEF WaitsToo
      <4> QED BY <1>1, <1>4, <2>1, <4>1, <4>2 DEF Places
    <3> QED BY <3>1, <3>2
  <2>2. ASSUME NEW i \in DOMAIN w2 PROVE q[h[i]] \in jit /\ mt[q[h[i]]] = w2[i]
    <3>1. CASE i = k
      BY <1>2, <1>4, <3>1 DEF WaitsToo
    <3>2. CASE i # k
      <4>1. i \in DOMAIN w
        BY <3>2 DEF WaitsToo
      <4>2. w2[i] = w[i]
        BY <4>1 DEF WaitsToo
      <4> QED BY <1>1, <1>2, <1>4, <4>1, <4>2 DEF Places
    <3> QED BY <3>1, <3>2
  <2>3. ASSUME NEW x \in DOMAIN q, q[x] \in jit PROVE \E i \in DOMAIN w2 : h[i] = x
    <3>1. CASE x = m
      BY <1>4, <3>1
    <3>2. CASE x # m
      <4>1. x \in DOMAIN r /\ r[x] \in jit
        BY <1>2, <2>3, <3>2
      <4>2. PICK i \in DOMAIN w : g[i] = x
        BY <1>1, <4>1 DEF Places
      <4> QED BY <1>4, <4>2
    <3> QED BY <3>1, <3>2
  <2> QED BY <2>1, <2>2, <2>3 DEF Places
<1> QED BY <1>5, <1>6 DEF Paired

(* ... and goes on.  The last frame is its. *)
LEMMA PairedLeaves ==
  ASSUME NEW w2, NEW q, NEW jit, NEW mt, Paired(w2, q, jit, mt),
         NEW f \in Frame, f \in jit, NEW r, Longer(q, r, f),
         NEW w, NEW k, NEW me, WaitsToo(w2, w, k, me)
  PROVE  Paired(w, r, jit, mt) /\ mt[f] = me
<1>1. PICK g \in [DOMAIN w2 -> DOMAIN q] : Places(g, w2, q, jit, mt)
  BY DEF Paired
<1>2. PICK n, m \in Nat :
        /\ n = Len(r) /\ m = n + 1 /\ DOMAIN r = 1..n /\ DOMAIN q = 1..m /\ q[m] = f
        /\ 1..m = (1..n) \cup {m} /\ m \notin 1..n
        /\ \A h \in 1..n : q[h] = r[h] /\ h < m
  BY ONLY f \in Frame, Longer(q, r, f), LastFrame
<1>3. k \in DOMAIN w2 /\ \A i \in DOMAIN w : i \in DOMAIN w2 /\ i # k /\ i < k
  BY DEF WaitsToo
<1>4. g[k] = m
  <2>1. PICK i \in DOMAIN w2 : g[i] = m
    BY <1>1, <1>2 DEF Places
  <2>2. CASE i # k
    <3>1. i \in DOMAIN w
      BY <2>2 DEF WaitsToo
    <3>2. g[i] < g[k]
      BY <1>1, <1>3, <3>1 DEF Places
    <3>3. g[k] \in 1..m
      BY <1>1, <1>2, <1>3
    <3> QED BY <2>1, <3>2, <3>3
  <2> QED BY <2>1, <2>2
<1>5. mt[f] = me
  BY <1>1, <1>2, <1>3, <1>4 DEF Places, WaitsToo
<1>6. ASSUME NEW i \in DOMAIN w PROVE g[i] \in DOMAIN r
  <2>1. g[i] < g[k] /\ g[i] \in 1..m
    BY <1>1, <1>2, <1>3 DEF Places
  <2> QED BY <1>2, <1>4, <2>1
<1>7. PICK h : h = [i \in DOMAIN w |-> g[i]]
  OBVIOUS
<1>8. h \in [DOMAIN w -> DOMAIN r] /\ \A i \in DOMAIN w : h[i] = g[i]
  BY <1>6, <1>7
<1>9. Places(h, w, r, jit, mt)
  <2>1. \A i, j \in DOMAIN w : i < j => h[i] < h[j]
    BY <1>1, <1>3, <1>8 DEF Places
  <2>2. \A i \in DOMAIN w : r[h[i]] \in jit /\ mt[r[h[i]]] = w[i]
    <3> SUFFICES ASSUME NEW i \in DOMAIN w PROVE r[h[i]] \in jit /\ mt[r[h[i]]] = w[i]
      OBVIOUS
    <3>1. h[i] = g[i] /\ g[i] \in 1..n /\ i \in DOMAIN w2 /\ w2[i] = w[i]
      BY <1>2, <1>3, <1>6, <1>8 DEF WaitsToo
    <3>2. q[g[i]] \in jit /\ mt[q[g[i]]] = w2[i]
      BY <1>1, <3>1 DEF Places
    <3>3. q[g[i]] = r[g[i]]
      BY <1>2, <3>1
    <3> QED BY <3>1, <3>2, <3>3
  <2>3. ASSUME NEW x \in DOMAIN r, r[x] \in jit PROVE \E i \in DOMAIN w : h[i] = x
    <3>1. x \in DOMAIN q /\ q[x] \in jit /\ x # m
      BY <1>2, <2>3
    <3>2. PICK i \in DOMAIN w2 : g[i] = x
      BY <1>1, <3>1 DEF Places
    <3>3. i \in DOMAIN w
      BY <1>4, <3>1, <3>2 DEF WaitsToo
    <3> QED BY <1>8, <3>2, <3>3
  <2> QED BY <2>1, <2>2, <2>3 DEF Places
<1> QED BY <1>5, <1>8, <1>9 DEF Paired

-----------------------------------------------------------------------------
(* Levels and the native methods that wait *)

(* The native method that runs, if one does. *)
TopOf(ls) == IF ls # << >> /\ Top(ls).native THEN <<Top(ls).method>> ELSE << >>

LEMMA WaitAlike ==
  ASSUME NEW ls \in Seq(LevelType), NEW rs \in Seq(LevelType), Len(rs) = Len(ls),
         \A j \in 1..Len(ls) : rs[j].native = ls[j].native /\ rs[j].method = ls[j].method
  PROVE  WaitFor(rs) = WaitFor(ls) /\ TopOf(rs) = TopOf(ls)
<1>1. Waiting(rs) = Waiting(ls)
  BY DEF Waiting
<1>2. \A i \in Waiting(ls) : rs[i].method = ls[i].method
  BY DEF Waiting
<1>3. WaitFor(rs) = WaitFor(ls)
  BY <1>1, <1>2 DEF WaitFor
<1>4. (rs = << >> <=> ls = << >>) /\ (ls # << >> => Len(ls) \in 1..Len(ls))
  OBVIOUS
<1>5. TopOf(rs) = TopOf(ls)
  <2>1. CASE ls = << >>
    BY <1>4, <2>1 DEF TopOf
  <2>2. CASE ls # << >>
    <3>1. Top(rs).native = Top(ls).native /\ Top(rs).method = Top(ls).method
      BY <1>4, <2>2 DEF Top
    <3> QED BY <1>4, <2>2, <3>1 DEF TopOf
  <2> QED BY <2>1, <2>2
<1> QED BY <1>3, <1>5

LEMMA PushWaits ==
  ASSUME NEW ls \in Seq(LevelType), NEW s \in 1..Len(ls), NEW x \in Frame,
         NEW rs, rs = Pushing(ls, s, x)
  PROVE  WaitFor(rs) = WaitFor(ls) /\ TopOf(rs) = TopOf(ls)
<1>1. PICK qs \in Seq(LevelType) :
        /\ qs = Pushing(ls, s, x) /\ Alike(ls, qs, s)
        /\ qs[s].stack = Append(ls[s].stack, x)
        /\ \A j \in 1..Len(ls) : qs[j].cur = ls[j].cur
  BY Pushes
<1>2. Len(qs) = Len(ls) /\ \A j \in 1..Len(ls) : qs[j].native = ls[j].native /\ qs[j].method = ls[j].method
  BY <1>1 DEF Alike
<1>3. WaitFor(qs) = WaitFor(ls) /\ TopOf(qs) = TopOf(ls)
  BY <1>2, WaitAlike
<1> QED BY <1>1, <1>3

LEMMA EnterWaits ==
  ASSUME NEW ls \in Seq(LevelType), NEW i \in 1..Len(ls), NEW x \in Frame,
         NEW rs, rs = SetCur(ls, i, x)
  PROVE  WaitFor(rs) = WaitFor(ls) /\ TopOf(rs) = TopOf(ls)
<1>1. PICK qs \in Seq(LevelType) :
        /\ qs = SetCur(ls, i, x) /\ Len(qs) = Len(ls)
        /\ \A j \in 1..Len(ls) : /\ qs[j].native = ls[j].native /\ qs[j].method = ls[j].method
                                 /\ qs[j].stack = ls[j].stack
        /\ qs[i].cur = x
        /\ \A j \in 1..Len(ls) : j # i => qs[j].cur = ls[j].cur
  BY SetsCurrent
<1>2. WaitFor(qs) = WaitFor(ls) /\ TopOf(qs) = TopOf(ls)
  BY <1>1, WaitAlike
<1> QED BY <1>1, <1>2

LEMMA PopWaits ==
  ASSUME NEW ls \in Seq(LevelType), NEW i \in 1..Len(ls), NEW s \in 1..Len(ls),
         ls[s].stack # << >>, NEW rs, rs = PopFrame(ls, i, s)
  PROVE  WaitFor(rs) = WaitFor(ls) /\ TopOf(rs) = TopOf(ls)
<1>1. PICK qs \in Seq(LevelType), x \in Frame :
        /\ qs = PopFrame(ls, i, s) /\ Alike(ls, qs, s)
        /\ qs[i].cur = x
        /\ \A j \in 1..Len(ls) : j # i => qs[j].cur = ls[j].cur
        /\ ls[s].stack = Append(qs[s].stack, x)
  BY Pops
<1>2. Len(qs) = Len(ls) /\ \A j \in 1..Len(ls) : qs[j].native = ls[j].native /\ qs[j].method = ls[j].method
  BY <1>1 DEF Alike
<1>3. WaitFor(qs) = WaitFor(ls) /\ TopOf(qs) = TopOf(ls)
  BY <1>2, WaitAlike
<1> QED BY <1>1, <1>3

(* Native code waits while there is an interpreter on top of it. *)
LEMMA AddedWaits ==
  ASSUME NEW ls \in Seq(LevelType), ls # << >>, NEW l \in LevelType, NEW rs, OneOn(ls, l, rs)
  PROVE  /\ ~ Top(ls).native => WaitFor(rs) = WaitFor(ls)
         /\ Top(ls).native => WaitsToo(WaitFor(rs), WaitFor(ls), Len(ls), Top(ls).method)
         /\ TopOf(rs) = (IF l.native THEN <<l.method>> ELSE << >>)
<1>1. PICK n \in Nat : n = Len(ls) /\ n # 0
  OBVIOUS
<1>2. PICK m \in Nat : m = n + 1
  OBVIOUS
<1>3. Len(rs) = m /\ rs \in Seq(LevelType) /\ rs[m] = l /\ rs # << >> /\ \A j \in 1..n : rs[j] = ls[j]
  BY <1>1, <1>2 DEF OneOn
<1>4. 1..m = (1..n) \cup {m} /\ m \notin 1..n /\ n \in 1..n /\ n # m
  BY <1>1, <1>2
<1>5. Waiting(rs) = {i \in 1..n : ls[i].native} /\ Waiting(ls) = {i \in 1..n : ls[i].native /\ i # n}
  BY <1>1, <1>3, <1>4 DEF Waiting
<1>6. Top(ls) = ls[n] /\ Top(rs) = l
  BY <1>1, <1>3 DEF Top
<1>7. \A i \in Waiting(rs) : rs[i].method = ls[i].method
  BY <1>3, <1>5
<1>8. ASSUME ~ Top(ls).native PROVE WaitFor(rs) = WaitFor(ls)
  <2>1. Waiting(rs) = Waiting(ls)
    BY <1>5, <1>6, <1>8
  <2> QED BY <1>7, <2>1 DEF WaitFor
<1>9. ASSUME Top(ls).native PROVE WaitsToo(WaitFor(rs), WaitFor(ls), Len(ls), Top(ls).method)
  <2>1. DOMAIN WaitFor(rs) = DOMAIN WaitFor(ls) \cup {n} /\ n \notin DOMAIN WaitFor(ls)
    BY <1>4, <1>5, <1>6, <1>9 DEF WaitFor
  <2>2. \A i \in DOMAIN WaitFor(ls) : i \in Nat /\ i < n
    BY <1>1, <1>5 DEF WaitFor
  <2>3. \A i \in DOMAIN WaitFor(ls) : WaitFor(rs)[i] = WaitFor(ls)[i]
    BY <1>5, <1>7 DEF WaitFor
  <2>4. WaitFor(rs)[n] = Top(ls).method
    <3>1. n \in Waiting(rs)
      BY <1>4, <1>5, <1>6, <1>9
    <3> QED BY <1>6, <1>7, <3>1 DEF WaitFor
  <2> QED BY <1>1, <2>1, <2>2, <2>3, <2>4 DEF WaitsToo
<1>10. TopOf(rs) = (IF l.native THEN <<l.method>> ELSE << >>)
  BY <1>3, <1>6 DEF TopOf
<1> QED BY <1>8, <1>9, <1>10

LEMMA InnerAdded ==
  ASSUME NEW ls \in Seq(LevelType), ls # << >>, NEW rs, Inner(ls, rs)
  PROVE  OneOn(rs, Top(ls), ls) /\ rs \in Seq(LevelType) /\ Top(ls) \in LevelType
<1>1. PICK n \in Nat : n = Len(ls) /\ n # 0
  OBVIOUS
<1>2. PICK l \in LevelType : l = ls[n]
  BY <1>1
<1>3. n - 1 \in Nat /\ rs = SubSeq(ls, 1, n - 1)
  BY <1>1 DEF Inner
<1>4. rs \in Seq(LevelType) /\ Len(rs) = n - 1 /\ \A i \in 1..(n - 1) : rs[i] = ls[i]
  BY <1>1, <1>3, SubSeqProperties
<1>5. PICK q : q = Append(rs, l)
  OBVIOUS
<1>6. q \in Seq(LevelType) /\ Len(q) = n /\ \A i \in 1..n : q[i] = ls[i]
  BY ONLY <1>1, <1>2, <1>4, <1>5, n \in Nat, l \in LevelType
<1>7. q = ls
  BY <1>1, <1>6, SeqEqual
<1> QED BY <1>1, <1>2, <1>4, <1>5, <1>7 DEF OneOn, Top

LEMMA NoneWaits == WaitFor(<< >>) = << >> /\ TopOf(<< >>) = << >>
<1>1. Waiting(<< >>) = {} /\ DOMAIN << >> = {}
  BY DEF Waiting
<1> QED BY <1>1 DEF WaitFor, TopOf

-----------------------------------------------------------------------------
(* Methods of the frames of a chain *)

Of(mt, c) == [i \in DOMAIN c |-> mt[c[i]]]

LEMMA OfStays ==
  ASSUME NEW c, NEW jit, NEW mt, NEW jit2, NEW mt2, Agrees(c, jit, mt, jit2, mt2)
  PROVE  Of(mt2, c) = Of(mt, c)
BY DEF Of, Agrees

LEMMA OfTyped ==
  ASSUME NEW mt \in [Frame -> Methods], NEW c \in Seq(Frame)
  PROVE  Of(mt, c) \in Seq(Methods) /\ Len(Of(mt, c)) = Len(c)
<1>1. DOMAIN c = 1..Len(c) /\ Len(c) \in Nat /\ \A i \in 1..Len(c) : mt[c[i]] \in Methods
  OBVIOUS
<1> QED BY <1>1 DEF Of

LEMMA OfGrows ==
  ASSUME NEW mt \in [Frame -> Methods], NEW f \in Frame, NEW r, NEW q, Longer(q, r, f)
  PROVE  Of(mt, q) = Append(Of(mt, r), mt[f])
<1>1. PICK n, m \in Nat :
        /\ n = Len(r) /\ m = n + 1 /\ DOMAIN r = 1..n /\ DOMAIN q = 1..m /\ q[m] = f
        /\ 1..m = (1..n) \cup {m} /\ m \notin 1..n
        /\ \A k \in 1..n : q[k] = r[k] /\ k < m
  BY LastFrame
<1>2. r \in Seq(Frame) /\ q \in Seq(Frame)
  BY DEF Longer
<1>3. PICK a, b \in Seq(Methods) : a = Of(mt, r) /\ b = Of(mt, q) /\ Len(a) = Len(r) /\ Len(b) = Len(q)
  BY <1>2, OfTyped
<1>4. Len(q) = m
  BY <1>1, <1>2
<1>5. (\A i \in 1..n : a[i] = b[i]) /\ b[m] = mt[f]
  BY <1>1, <1>3 DEF Of
<1>6. PICK x \in Methods : x = mt[f]
  OBVIOUS
<1>7. PICK d : d = Append(a, x)
  OBVIOUS
<1>8. d \in Seq(Methods) /\ Len(d) = m /\ \A i \in 1..m : d[i] = b[i]
  BY <1>1, <1>3, <1>5, <1>6, <1>7
<1>9. d = b
  BY <1>3, <1>4, <1>8, SeqEqual
<1> QED BY <1>3, <1>6, <1>7, <1>9

-----------------------------------------------------------------------------
(* The actions of a thread *)

(* Thread t has the levels ns and the frames q then. *)
Moves(t, ns, q) == levels' = Put(levels, t, ns) /\ Chains' = Put(Chains, t, q)

(* No native code is entered, left or called from. *)
Quiet(ls, rs) == WaitFor(rs) = WaitFor(ls) /\ TopOf(rs) = TopOf(ls)

(* GetStackFrame *)
LEMMA Taken ==
  ASSUME Variables, NEW f \in Frame, NEW m \in Methods, NEW jit \in BOOLEAN, GetStackFrame(f, m, jit)
  PROVE  \E S \in SUBSET Frame :
           /\ S \cap created = {} /\ f \in cached_frames \cup S
           /\ cached_frames' = (cached_frames \cup S) \ {f} /\ created' = created \cup S
           /\ method' \in [Frame -> Methods]
           /\ jit_called' = (IF jit THEN jit_called \cup {f} ELSE jit_called \ {f})
           /\ cached_frames' \subseteq created' /\ created' \in SUBSET Frame
           /\ jit_called' \in SUBSET Frame
<1>1. PICK S \in IF cached_frames = {} THEN Fresh ELSE {{}} :
        /\ f \in cached_frames \cup S
        /\ cached_frames' = (cached_frames \cup S) \ {f}
        /\ created' = created \cup S
  BY DEF GetStackFrame
<1>2. S \in SUBSET Frame /\ S \cap created = {}
  BY DEF Fresh
<1>3. /\ method' \in [Frame -> Methods]
      /\ jit_called' = (IF jit THEN jit_called \cup {f} ELSE jit_called \ {f})
  BY DEF GetStackFrame, Variables
<1>4. cached_frames' \subseteq created' /\ created' \in SUBSET Frame /\ jit_called' \in SUBSET Frame
  BY <1>1, <1>2, <1>3 DEF Variables
<1> QED BY <1>1, <1>2, <1>3, <1>4

(* A new frame is on no thread's chain, so what is marked there stays. *)
LEMMA NotHeld ==
  ASSUME IInv, NEW f \in Frame, NEW m \in Methods, NEW jit \in BOOLEAN, GetStackFrame(f, m, jit)
  PROVE  /\ \A u \in Threads : f \notin HeldBy(ChainOf(levels[u], pc[u]))
         /\ \A u \in Threads : Shape(OwnStack, levels[u], pc[u], jit_called')
         /\ \A u \in Threads : SameMarks(Chains, u, jit_called, jit_called')
<1>1. PICK S \in SUBSET Frame :
        /\ S \cap created = {} /\ f \in cached_frames \cup S
        /\ jit_called' = (IF jit THEN jit_called \cup {f} ELSE jit_called \ {f})
  <2>1. Variables
    BY DEF IInv
  <2> QED BY <2>1, Taken
<1>2. ASSUME NEW u \in Threads PROVE f \notin HeldBy(Chains[u])
  BY <1>1 DEF IInv, Ownership
<1>3. ASSUME NEW u \in Threads PROVE Chains[u] = ChainOf(levels[u], pc[u])
  BY DEF Chains, ChainsOf
<1>4. ASSUME NEW u \in Threads
      PROVE  HeldBy(Chains[u]) \cap jit_called' = HeldBy(Chains[u]) \cap jit_called
  BY <1>1, <1>2
<1>5. ASSUME NEW u \in Threads PROVE Shape(OwnStack, levels[u], pc[u], jit_called')
  <2>1. Shape(OwnStack, levels[u], pc[u], jit_called)
    BY DEF IInv, Threading
  <2>2. HeldBy(ChainOf(levels[u], pc[u])) \cap jit_called' = HeldBy(ChainOf(levels[u], pc[u])) \cap jit_called
    BY <1>3, <1>4
  <2> QED BY <2>1, <2>2, ShapeMarks
<1> QED BY <1>2, <1>3, <1>4, <1>5 DEF SameMarks

(* A thread takes a frame. *)
LEMMA Gained ==
  ASSUME IInv, NEW t \in Threads, NEW f \in Frame, NEW m \in Methods, NEW jit \in BOOLEAN,
         GetStackFrame(f, m, jit), pc[t] \notin Ended,
         NEW ns, NEW p \in Stages, Shape(OwnStack, ns, p, jit_called'), Bound(ns),
         ChainOf(ns, p) = Append(ChainOf(levels[t], pc[t]), f),
         levels' = Put(levels, t, ns), pc' = Put(pc, t, p),
         OwnStack' = OwnStack, halt \ {t} \subseteq halt', halt' \subseteq Threads,
         target' \in [Threads -> Methods], intpr_threads' = intpr_threads, exited' = exited
  PROVE  IInv' /\ Moves(t, ns, ChainOf(ns, p))
<1>0. Variables
  BY DEF IInv
<1>1. PICK S \in SUBSET Frame :
        /\ S \cap created = {} /\ f \in cached_frames \cup S
        /\ cached_frames' = (cached_frames \cup S) \ {f} /\ created' = created \cup S
        /\ method' \in [Frame -> Methods]
        /\ cached_frames' \subseteq created' /\ created' \in SUBSET Frame
        /\ jit_called' \in SUBSET Frame
  BY <1>0, Taken
<1>2. Variables'
  BY <1>1 DEF IInv, Variables
<1>3. /\ Threading(OwnStack, Put(levels, t, ns), Put(pc, t, p), jit_called')
      /\ ChainsOf(Put(levels, t, ns), Put(pc, t, p)) = Put(ChainsOf(levels, pc), t, ChainOf(ns, p))
  <2>1. Threading(OwnStack, levels, pc, jit_called)
    BY DEF IInv
  <2>2. SameMarks(ChainsOf(levels, pc), t, jit_called, jit_called')
    BY NotHeld DEF Chains
  <2>3. t \in Threads /\ p \in Stages /\ Shape(OwnStack, ns, p, jit_called') /\ Bound(ns)
    OBVIOUS
  <2> QED BY ONLY <2>1, <2>2, <2>3, Moved
<1>4. Chains' = Put(Chains, t, ChainOf(ns, p))
  BY <1>3 DEF Chains
<1>5. /\ Ownership(Chains', cached_frames', created')
      /\ AllHeld(Chains') = AllHeld(Chains) \cup {f}
  <2>1. Ownership(Chains, cached_frames, created) /\ cached_frames \subseteq created
    BY DEF IInv, Variables
  <2>2. PICK q : q = ChainOf(ns, p)
    OBVIOUS
  <2>3. Longer(q, Chains[t], f)
    <3>1. Chains[t] \in Seq(Frame) /\ Chains[t] = ChainOf(levels[t], pc[t])
      BY <2>1 DEF Ownership, Chains, ChainsOf
    <3> QED BY <2>2, <3>1 DEF Longer
  <2>4. S \cap created = {} /\ f \in cached_frames \cup S
    BY <1>1
  <2>5. /\ Ownership(Put(Chains, t, q), (cached_frames \cup S) \ {f}, created \cup S)
        /\ AllHeld(Put(Chains, t, q)) = AllHeld(Chains) \cup {f}
    BY ONLY f \in Frame, t \in Threads, <2>1, <2>3, <2>4, FrameTaken
  <2> QED BY <1>1, <1>4, <2>2, <2>5
<1>6. Kept(halt', pc', Chains', cached_frames', created')
  <2>1. CASE Stopped(halt, pc)
    <3>1. PICK u \in halt : pc[u] \in Ended
      BY <2>1 DEF Stopped
    <3>2. u # t /\ u \in halt' /\ pc'[u] = pc[u]
      <4>1. u \in Threads /\ pc \in [Threads -> Stages]
        BY DEF IInv, Variables, Threading
      <4> QED BY <3>1, <4>1 DEF Put
    <3>3. Stopped(halt', pc')
      BY <3>1, <3>2 DEF Stopped
    <3> QED BY <3>3 DEF Kept
  <2>2. CASE created \subseteq cached_frames \cup AllHeld(Chains)
    <3>1. created' \subseteq cached_frames' \cup AllHeld(Chains')
      BY <1>1, <1>5, <2>2
    <3> QED BY <3>1 DEF Kept
  <2> QED BY <2>1, <2>2 DEF IInv, Kept
<1> QED BY <1>2, <1>3, <1>4, <1>5, <1>6 DEF IInv, Moves

(* A thread keeps its frames. *)
LEMMA Stays ==
  ASSUME IInv, NEW t \in Threads,
         NEW ns, NEW p \in Stages, Shape(OwnStack, ns, p, jit_called), Bound(ns),
         ChainOf(ns, p) = ChainOf(levels[t], pc[t]), pc[t] \in Ended => p \in Ended,
         levels' = Put(levels, t, ns), pc' = Put(pc, t, p),
         OwnStack' = OwnStack, halt \subseteq halt', halt' \subseteq Threads,
         target' = target, intpr_threads' \subseteq Threads, exited' = exited,
         UNCHANGED frameVars
  PROVE  IInv' /\ Moves(t, ns, Chains[t])
<1>1. UNCHANGED <<cached_frames, created, method, jit_called>>
  BY DEF frameVars
<1>2. Variables'
  BY <1>1 DEF IInv, Variables
<1>3. /\ Threading(OwnStack, Put(levels, t, ns), Put(pc, t, p), jit_called)
      /\ ChainsOf(Put(levels, t, ns), Put(pc, t, p)) = ChainsOf(levels, pc)
  <2>1. Threading(OwnStack, levels, pc, jit_called)
    BY DEF IInv
  <2> QED BY <2>1, Unmoved
<1>4. Chains' = Chains
  BY <1>3 DEF Chains
<1>5. Kept(halt', pc', Chains', cached_frames', created')
  <2>1. CASE Stopped(halt, pc)
    <3>1. Stopped(halt, Put(pc, t, p))
      BY <2>1, StillStopped DEF IInv, Threading, Variables
    <3>2. Stopped(halt', pc')
      BY <3>1 DEF Stopped
    <3> QED BY <3>2 DEF Kept
  <2>2. CASE created \subseteq cached_frames \cup AllHeld(Chains)
    BY <1>1, <1>4, <2>2 DEF Kept
  <2> QED BY <2>1, <2>2 DEF IInv, Kept
<1>6. Chains' = Put(Chains, t, Chains[t])
  BY <1>4 DEF Put, Chains, ChainsOf
<1> QED BY <1>1, <1>2, <1>3, <1>4, <1>5, <1>6 DEF IInv, Moves

(* A thread gives back its last frame. *)
LEMMA GivesBack ==
  ASSUME IInv, NEW t \in Threads, NEW f, pc[t] \notin Ended,
         NEW ns, NEW p \in Stages, Shape(OwnStack, ns, p, jit_called'), Bound(ns),
         ChainOf(levels[t], pc[t]) = Append(ChainOf(ns, p), f), ChainOf(ns, p) \in Seq(Frame),
         cached_frames' = cached_frames \cup {f},
         jit_called' \subseteq jit_called, jit_called \subseteq jit_called' \cup {f},
         levels' = Put(levels, t, ns), pc' = Put(pc, t, p),
         OwnStack' = OwnStack, halt' = halt, created' = created, method' = method,
         target' = target, intpr_threads' = intpr_threads, exited' = exited
  PROVE  IInv' /\ Moves(t, ns, ChainOf(ns, p))
<1>1. Ownership(Chains, cached_frames, created) /\ Chains[t] = Append(ChainOf(ns, p), f)
  BY DEF IInv, Chains, ChainsOf
<1>2. PICK r \in Seq(Frame) : r = ChainOf(ns, p)
  OBVIOUS
<1>3. /\ Ownership(Put(Chains, t, r), cached_frames \cup {f}, created)
      /\ AllHeld(Chains) \subseteq AllHeld(Put(Chains, t, r)) \cup {f}
      /\ f \in created /\ \A u \in Threads \ {t} : f \notin HeldBy(Chains[u])
  <2>1. Ownership(Chains, cached_frames, created) /\ Longer(Chains[t], r, f)
    BY <1>1, <1>2 DEF Longer
  <2>2. Ownership(Put(Chains, t, r), cached_frames \cup {f}, created)
    BY ONLY t \in Threads, <2>1, FrameGivenBack
  <2>3. AllHeld(Chains) \subseteq AllHeld(Put(Chains, t, r)) \cup {f}
    BY ONLY t \in Threads, <2>1, FrameGivenBack
  <2>4. f \in created
    BY ONLY t \in Threads, <2>1, FrameGivenBack
  <2>5. \A u \in Threads \ {t} : f \notin HeldBy(Chains[u])
    BY ONLY t \in Threads, <2>1, FrameGivenBack
  <2> QED BY <2>2, <2>3, <2>4, <2>5
<1>4. Variables'
  BY <1>3 DEF IInv, Variables
<1>5. /\ Threading(OwnStack, Put(levels, t, ns), Put(pc, t, p), jit_called')
      /\ ChainsOf(Put(levels, t, ns), Put(pc, t, p)) = Put(ChainsOf(levels, pc), t, ChainOf(ns, p))
  <2>1. Threading(OwnStack, levels, pc, jit_called)
    BY DEF IInv
  <2>2. SameMarks(ChainsOf(levels, pc), t, jit_called, jit_called')
    BY <1>3 DEF SameMarks, Chains
  <2> QED BY <2>1, <2>2, Moved
<1>6. Chains' = Put(Chains, t, r)
  BY <1>2, <1>5 DEF Chains
<1>7. Kept(halt', pc', Chains', cached_frames', created')
  <2>1. CASE Stopped(halt, pc)
    <3>1. Stopped(halt, Put(pc, t, p))
      BY <2>1, StillStopped DEF IInv, Threading, Variables
    <3> QED BY <3>1 DEF Kept
  <2>2. CASE created \subseteq cached_frames \cup AllHeld(Chains)
    BY <1>3, <1>6, <2>2 DEF Kept
  <2> QED BY <2>1, <2>2 DEF IInv, Kept
<1> QED BY <1>2, <1>3, <1>4, <1>5, <1>6, <1>7 DEF IInv, Moves

LEMMA Here ==
  ASSUME IInv, NEW t \in Threads
  PROVE  /\ Shape(OwnStack, levels[t], pc[t], jit_called) /\ Bound(levels[t])
         /\ levels \in [Threads -> Seq(LevelType)] /\ pc \in [Threads -> Stages]
         /\ levels[t] \in Seq(LevelType) /\ pc[t] \in Stages
         /\ StackAt(t) = At(OwnStack, levels[t])
         /\ Depth(t) = Len(levels[t]) /\ Level(t) = Top(levels[t]) /\ cur(t) = Top(levels[t]).cur
         /\ IsInjective(ChainOf(levels[t], pc[t]))
<1>1. IsInjective(Chains[t])
  BY DEF IInv, Ownership
<1>2. Chains[t] = ChainOf(levels[t], pc[t])
  BY DEF Chains, ChainsOf
<1> QED BY <1>1, <1>2 DEF IInv, Threading, StackAt, Depth, At, Level, Top, cur

LEMMA BoundAt ==
  ASSUME NEW ls \in Seq(LevelType), NEW rs \in Seq(LevelType), Bound(ls), Len(rs) = Len(ls),
         NEW s, Len(rs[s].stack) <= CallStackSize,
         \A j \in 1..Len(ls) : j # s => rs[j].stack = ls[j].stack
  PROVE  Bound(rs)
<1>1. DOMAIN rs = 1..Len(ls) /\ DOMAIN ls = 1..Len(ls)
  OBVIOUS
<1> QED BY <1>1 DEF Bound

LEMMA PushBound ==
  ASSUME NEW own, NEW ls, NEW p \in {"run", "call"}, NEW jit, Shape(own, ls, p, jit), Bound(ls),
         Len(ls[At(own, ls)].stack) < CallStackSize,
         NEW rs, rs = Pushing(ls, At(own, ls), Top(ls).cur)
  PROVE  Bound(rs)
<1>1. /\ Shape(own, rs, "released", jit) /\ Len(rs) = Len(ls) /\ ls # << >>
      /\ rs[At(own, ls)].stack = Append(ls[At(own, ls)].stack, Top(ls).cur)
      /\ \A j \in 1..Len(ls) : j # At(own, ls) => rs[j].stack = ls[j].stack
  BY Push
<1>2. ls \in Seq(LevelType) /\ rs \in Seq(LevelType) /\ At(own, ls) \in 1..Len(ls)
  BY <1>1, Indices DEF Shape
<1>3. ~ Idle(ls, p)
  BY <1>1 DEF Idle, Shape, Nested
<1>4. PICK x \in Frame, q \in Seq(Frame) : x = Top(ls).cur /\ q = ls[At(own, ls)].stack
  BY <1>2, <1>3, LevelOf, ChainTyped
<1>5. Len(rs[At(own, ls)].stack) = Len(q) + 1 /\ Len(q) \in Nat
  BY <1>1, <1>4, Appended
<1>6. Len(rs[At(own, ls)].stack) <= CallStackSize
  BY <1>4, <1>5, InterpreterAssumption
<1> QED BY <1>1, <1>2, <1>6, BoundAt

LEMMA PopBound ==
  ASSUME NEW own, NEW ls, NEW jit, Shape(own, ls, "released", jit), Bound(ls),
         ls # << >>, ls[At(own, ls)].stack # << >>,
         NEW rs, rs = PopFrame(ls, Len(ls), At(own, ls))
  PROVE  Bound(rs)
<1>1. /\ Shape(own, rs, "check", jit) /\ Len(rs) = Len(ls)
      /\ rs[At(own, ls)].stack \in Seq(Frame)
      /\ Len(ls[At(own, ls)].stack) = Len(rs[At(own, ls)].stack) + 1
      /\ \A j \in 1..Len(ls) : j # At(own, ls) => rs[j].stack = ls[j].stack
  BY Pop
<1>2. ls \in Seq(LevelType) /\ rs \in Seq(LevelType) /\ At(own, ls) \in 1..Len(ls)
  BY <1>1, Indices DEF Shape
<1>3. Len(ls[At(own, ls)].stack) <= CallStackSize
  BY <1>2 DEF Bound
<1>4. Len(rs[At(own, ls)].stack) \in Nat
  BY <1>1
<1>5. Len(rs[At(own, ls)].stack) <= CallStackSize
  BY <1>1, <1>3, <1>4, InterpreterAssumption
<1> QED BY <1>1, <1>2, <1>5, BoundAt

LEMMA BoundSame ==
  ASSUME NEW ls \in Seq(LevelType), NEW rs \in Seq(LevelType), Bound(ls),
         Len(rs) <= Len(ls), \A j \in 1..Len(rs) : rs[j].stack = ls[j].stack
  PROVE  Bound(rs)
<1>1. DOMAIN rs = 1..Len(rs) /\ DOMAIN ls = 1..Len(ls) /\ Len(rs) \in Nat /\ Len(ls) \in Nat
  OBVIOUS
<1> QED BY <1>1 DEF Bound

LEMMA BoundMore ==
  ASSUME NEW ls \in Seq(LevelType), Bound(ls), NEW l \in LevelType, l.stack = << >>
  PROVE  \E rs : rs = Append(ls, l) /\ Bound(rs)
<1>1. PICK rs : rs = Append(ls, l)
  OBVIOUS
<1>2. /\ Len(ls) \in Nat /\ Len(rs) = Len(ls) + 1 /\ DOMAIN ls = 1..Len(ls)
      /\ DOMAIN rs = 1..Len(ls) + 1 /\ rs[Len(ls) + 1] = l
      /\ \A j \in 1..Len(ls) : rs[j] = ls[j]
  BY ONLY <1>1, ls \in Seq(LevelType), l \in LevelType
<1>3. Len(rs[Len(ls) + 1].stack) <= CallStackSize
  BY ONLY <1>2, l.stack = << >>, InterpreterAssumption
<1>4. \A j \in 1..Len(ls) : Len(rs[j].stack) <= CallStackSize
  BY ONLY <1>2, Bound(ls) DEF Bound
<1>5. \A j \in DOMAIN rs : j \in 1..Len(ls) \/ j = Len(ls) + 1
  BY ONLY <1>2
<1>6. Bound(rs)
  BY ONLY <1>3, <1>4, <1>5 DEF Bound
<1> QED BY ONLY <1>1, <1>6

LEMMA BoundAlone ==
  ASSUME NEW l \in LevelType, l.stack = << >>
  PROVE  \E rs : rs = <<l>> /\ Bound(rs)
<1>1. PICK rs : rs = <<l>>
  OBVIOUS
<1>2. DOMAIN rs = {1} /\ rs[1] = l
  BY ONLY <1>1
<1>3. Len(rs[1].stack) <= CallStackSize
  BY ONLY <1>2, l.stack = << >>, InterpreterAssumption
<1>4. Bound(rs)
  BY ONLY <1>2, <1>3 DEF Bound
<1> QED BY ONLY <1>1, <1>4

-----------------------------------------------------------------------------
(* Every action *)

(* A thread that runs no method goes from stage to stage. *)
LEMMA Rests ==
  ASSUME IInv, NEW u \in Threads, pc[u] \notin Running,
         NEW p \in Stages, p \notin Running, pc[u] \in Ended => p \in Ended,
         levels' = levels, pc' = [pc EXCEPT ![u] = p],
         OwnStack' = OwnStack, halt \subseteq halt', halt' \subseteq Threads,
         target' = target, intpr_threads' \subseteq Threads, exited' = exited,
         UNCHANGED frameVars
  PROVE  IInv' /\ Moves(u, levels[u], Chains[u])
<1>1. Shape(OwnStack, levels[u], pc[u], jit_called) /\ OwnStack \in BOOLEAN
  BY Here DEF IInv, Variables
<1>2. levels[u] = << >>
  BY <1>1 DEF Shape, Nested
<1>3. ChainOf(levels[u], pc[u]) = << >>
  BY <1>1, <1>2, NoLevels
<1>4. Shape(OwnStack, << >>, p, jit_called) /\ ChainOf(<< >>, p) = << >>
  BY <1>1, NoLevels
<1>5. Bound(<< >>)
  BY DEF Bound
<1>6. levels' = Put(levels, u, << >>) /\ pc' = Put(pc, u, p)
  <2>1. levels \in [Threads -> Seq(LevelType)]
    BY Here
  <2> QED BY <1>2, <2>1 DEF Put
<1>7. ChainOf(<< >>, p) = ChainOf(levels[u], pc[u])
  BY <1>3, <1>4
<1>8. IInv' /\ Moves(u, << >>, Chains[u])
  BY <1>4, <1>5, <1>6, <1>7, Stays
<1> QED BY <1>2, <1>8

LEMMA ProcessAsyncMethodCallKeeps ==
  ASSUME IInv, OwnStack' = OwnStack, NEW t \in Threads, NEW u \in Threads, ProcessAsyncMethodCall(t, u)
  PROVE  IInv' /\ Moves(u, levels[u], Chains[u])
<1>1. /\ pc[u] = "new" /\ levels' = levels /\ pc' = [pc EXCEPT ![u] = "created"]
      /\ UNCHANGED <<frameVars, target, intpr_threads, halt, exited>>
  BY DEF ProcessAsyncMethodCall, haltVars
<1>2. halt \subseteq Threads /\ intpr_threads \subseteq Threads
  BY DEF IInv, Variables
<1>3. "created" \in Stages /\ "created" \notin Running /\ "new" \notin Running /\ "new" \notin Ended
  BY DEF Stages, Running, Ended
<1> QED BY <1>1, <1>2, <1>3, Rests

LEMMA AddThreadKeeps ==
  ASSUME IInv, OwnStack' = OwnStack, NEW u \in Threads, AddThread(u)
  PROVE  IInv' /\ Moves(u, levels[u], Chains[u])
<1>1. /\ pc[u] = "created" /\ levels' = levels /\ pc' = [pc EXCEPT ![u] = "added"]
      /\ intpr_threads' = intpr_threads \cup {u}
      /\ UNCHANGED <<frameVars, target, halt, exited>>
  BY DEF AddThread
<1>2. halt \subseteq Threads /\ intpr_threads' \subseteq Threads
  BY <1>1 DEF IInv, Variables
<1>3. "added" \in Stages /\ "added" \notin Running /\ "created" \notin Running /\ "created" \notin Ended
  BY DEF Stages, Running, Ended
<1> QED BY <1>1, <1>2, <1>3, Rests

LEMMA RemoveThreadKeeps ==
  ASSUME IInv, OwnStack' = OwnStack, NEW u \in Threads, RemoveThread(u)
  PROVE  IInv' /\ Moves(u, levels[u], Chains[u])
<1>1. PICK p \in {"halting", "done"} : pc' = [pc EXCEPT ![u] = p]
  BY DEF RemoveThread
<1>2. /\ pc[u] = "leaving" /\ levels' = levels
      /\ intpr_threads' = intpr_threads \ {u}
      /\ UNCHANGED <<frameVars, target, halt, exited>>
  BY DEF RemoveThread
<1>3. halt \subseteq Threads /\ intpr_threads' \subseteq Threads
  BY <1>2 DEF IInv, Variables
<1>4. p \in Stages /\ p \notin Running /\ "leaving" \notin Running /\ p \in Ended
  BY <1>1 DEF Stages, Running, Ended
<1> QED BY <1>1, <1>2, <1>3, <1>4, Rests

LEMMA HaltAllKeeps ==
  ASSUME IInv, OwnStack' = OwnStack, HaltAll
  PROVE  IInv' /\ Moves(Main, levels[Main], Chains[Main])
<1>1. /\ pc[Main] = "halting" /\ levels' = levels /\ pc' = [pc EXCEPT ![Main] = "done"]
      /\ halt' = halt \cup intpr_threads
      /\ UNCHANGED <<frameVars, target, intpr_threads, exited>>
  BY DEF HaltAll
<1>2. halt' \subseteq Threads /\ intpr_threads' \subseteq Threads /\ halt \subseteq halt'
  BY <1>1 DEF IInv, Variables
<1>3. "done" \in Stages /\ "done" \notin Running /\ "halting" \notin Running /\ "done" \in Ended
  BY DEF Stages, Running, Ended
<1>4. Main \in Threads
  BY InterpreterAssumption
<1> QED BY <1>1, <1>2, <1>3, <1>4, Rests

LEMMA ContinueKeeps ==
  ASSUME IInv, OwnStack' = OwnStack, NEW t \in Threads, Continue(t)
  PROVE  IInv' /\ Moves(t, levels[t], Chains[t])
<1>1. /\ pc[t] = "check" /\ cur(t) \notin jit_called /\ levels' = levels /\ pc' = [pc EXCEPT ![t] = "run"]
      /\ UNCHANGED <<frameVars, target, intpr_threads, halt, exited>>
  BY DEF Continue, Leaves, haltVars
<1>2. /\ Shape(OwnStack, levels[t], "check", jit_called) /\ Bound(levels[t])
      /\ Top(levels[t]).cur \notin jit_called /\ levels \in [Threads -> Seq(LevelType)]
  BY <1>1, Here
<1>3. /\ Shape(OwnStack, levels[t], "run", jit_called)
      /\ ChainOf(levels[t], "run") = ChainOf(levels[t], pc[t])
  BY <1>1, <1>2, GoOn
<1>4. levels' = Put(levels, t, levels[t]) /\ pc' = Put(pc, t, "run")
  BY <1>1, <1>2 DEF Put
<1>5. halt \subseteq Threads /\ intpr_threads \subseteq Threads
  BY DEF IInv, Variables
<1>6. "run" \in Stages /\ "check" \notin Ended
  BY DEF Stages, Ended
<1> QED BY <1>1, <1>2, <1>3, <1>4, <1>5, <1>6, Stays

LEMMA ReleaseStackFrameKeeps ==
  ASSUME IInv, OwnStack' = OwnStack, NEW t \in Threads, ReleaseStackFrame(t)
  PROVE  IInv' /\ \E q :
           /\ Moves(t, levels[t], q) /\ Longer(Chains[t], q, cur(t))
           /\ cur(t) \in Frame /\ cur(t) \notin jit_called /\ TopOf(levels[t]) = << >>
<1>1. /\ pc[t] = "run" /\ levels' = levels /\ pc' = [pc EXCEPT ![t] = "released"]
      /\ cached_frames' = cached_frames \cup {cur(t)}
      /\ UNCHANGED <<created, method, jit_called, target, intpr_threads, halt, exited>>
  BY DEF ReleaseStackFrame, haltVars
<1>2. /\ Shape(OwnStack, levels[t], "run", jit_called) /\ Bound(levels[t])
      /\ Top(levels[t]).cur = cur(t) /\ levels \in [Threads -> Seq(LevelType)]
  BY <1>1, Here
<1>3. /\ Shape(OwnStack, levels[t], "released", jit_called)
      /\ ChainOf(levels[t], pc[t]) = Append(ChainOf(levels[t], "released"), cur(t))
  BY <1>1, <1>2, Release
<1>4. ChainOf(levels[t], "released") \in Seq(Frame)
  BY <1>3, ChainTyped
<1>5. levels' = Put(levels, t, levels[t]) /\ pc' = Put(pc, t, "released")
  BY <1>1, <1>2 DEF Put
<1>6. "released" \in Stages /\ "run" \notin Ended
  BY DEF Stages, Ended
<1>7. IInv' /\ Moves(t, levels[t], ChainOf(levels[t], "released"))
  BY <1>1, <1>2, <1>3, <1>4, <1>5, <1>6, GivesBack
<1>8. Longer(Chains[t], ChainOf(levels[t], "released"), cur(t))
  BY <1>3, <1>4 DEF Longer, Chains, ChainsOf
<1>9. cur(t) \notin jit_called /\ ~ Idle(levels[t], "run") /\ TopOf(levels[t]) = << >>
  BY <1>2 DEF Shape, Nested, Marked, Running, Idle, TopOf
<1>10. cur(t) \in Frame
  BY <1>2, <1>9, ChainTyped
<1> QED BY <1>7, <1>8, <1>9, <1>10

LEMMA RestoreCallerKeeps ==
  ASSUME IInv, OwnStack' = OwnStack, NEW t \in Threads, RestoreCaller(t)
  PROVE  IInv' /\ \E ns : Moves(t, ns, Chains[t]) /\ Quiet(levels[t], ns)
<1>1. PICK ls, s, n : ls = levels[t] /\ s = At(OwnStack, levels[t]) /\ n = Len(levels[t])
  OBVIOUS
<1>2. /\ Shape(OwnStack, ls, pc[t], jit_called) /\ Bound(ls)
      /\ levels \in [Threads -> Seq(LevelType)] /\ StackAt(t) = s /\ Depth(t) = n
  BY <1>1, Here
<1>3. PICK rs : rs = PopFrame(ls, n, s)
  OBVIOUS
<1>4. /\ pc[t] = "released" /\ ls # << >> /\ ls[s].stack # << >>
      /\ levels' = Put(levels, t, rs) /\ pc' = Put(pc, t, "check")
      /\ UNCHANGED <<frameVars, target, intpr_threads, halt, exited>>
  BY <1>1, <1>2, <1>3 DEF RestoreCaller, Alive, call_stack, haltVars, Put
<1>5. Shape(OwnStack, rs, "check", jit_called) /\ ChainOf(rs, "check") = ChainOf(ls, "released") /\ Bound(rs)
  BY <1>1, <1>2, <1>3, <1>4, Pop, PopBound
<1>6. ChainOf(rs, "check") = ChainOf(levels[t], pc[t])
  BY <1>1, <1>4, <1>5
<1>7. halt \subseteq Threads /\ intpr_threads \subseteq Threads
  BY DEF IInv, Variables
<1>8. "check" \in Stages /\ "released" \notin Ended
  BY DEF Stages, Ended
<1>9. /\ OwnStack' = OwnStack /\ halt \subseteq halt' /\ halt' \subseteq Threads
      /\ target' = target /\ intpr_threads' \subseteq Threads /\ exited' = exited
      /\ UNCHANGED frameVars /\ (pc[t] \in Ended => "check" \in Ended)
  BY <1>4, <1>7, <1>8
<1>10. IInv' /\ Moves(t, rs, Chains[t])
  BY ONLY IInv, t \in Threads, <1>4, <1>5, <1>6, <1>8, <1>9, Stays
<1>11. Quiet(ls, rs)
  <2>1. ls \in Seq(LevelType) /\ n \in 1..Len(ls) /\ s \in 1..Len(ls)
    BY <1>1, <1>2, <1>4, Indices DEF Shape
  <2> QED BY <1>3, <1>4, <2>1, PopWaits DEF Quiet
<1> QED BY <1>1, <1>10, <1>11

LEMMA LeaveInterpreterKeeps ==
  ASSUME IInv, OwnStack' = OwnStack, NEW t \in Threads, LeaveInterpreter(t)
  PROVE  IInv' /\ \E ns : Moves(t, ns, Chains[t]) /\ Quiet(levels[t], ns)
<1>1. PICK ls, s, n : ls = levels[t] /\ s = At(OwnStack, levels[t]) /\ n = Len(levels[t])
  OBVIOUS
<1>2. /\ Shape(OwnStack, ls, pc[t], jit_called)
      /\ levels \in [Threads -> Seq(LevelType)] /\ StackAt(t) = s /\ Depth(t) = n
  BY <1>1, Here
<1>3. pc[t] = "released" /\ ls # << >> /\ ls[s].stack = << >>
  BY <1>1, <1>2 DEF LeaveInterpreter, Alive, call_stack
<1>4. Len(ls) = 1 /\ SubSeq(ls, 1, Len(ls) - 1) = << >> /\ ChainOf(ls, "released") = << >>
  BY <1>1, <1>2, <1>3, LastReturn
<1>5. /\ levels' = Put(levels, t, << >>) /\ pc' = Put(pc, t, "leaving")
      /\ UNCHANGED <<frameVars, target, intpr_threads, halt, exited>>
  <2>1. Outer(t) = << >> /\ Depth(t) = 1
    BY <1>1, <1>2, <1>4 DEF Outer
  <2> QED BY <2>1 DEF LeaveInterpreter, haltVars, Put
<1>6. OwnStack \in BOOLEAN /\ "leaving" \notin Running /\ "leaving" \in Stages /\ "released" \notin Ended
  BY DEF Stages, Ended, Running, IInv, Variables
<1>7. Shape(OwnStack, << >>, "leaving", jit_called) /\ ChainOf(<< >>, "leaving") = << >>
  BY <1>6, NoLevels
<1>8. Bound(<< >>)
  BY DEF Bound
<1>9. halt \subseteq Threads /\ intpr_threads \subseteq Threads
  BY DEF IInv, Variables
<1>10. IInv' /\ Moves(t, << >>, Chains[t])
  BY <1>1, <1>3, <1>4, <1>5, <1>6, <1>7, <1>8, <1>9, Stays
<1>11. Quiet(ls, << >>)
  <2>1. Waiting(ls) = {} /\ ~ Top(ls).native
    BY <1>2, <1>3, <1>4 DEF Waiting, Shape, Nested
  <2>2. WaitFor(ls) = << >> /\ TopOf(ls) = << >>
    BY <2>1 DEF WaitFor, TopOf
  <2> QED BY <2>2, NoneWaits DEF Quiet
<1> QED BY <1>1, <1>10, <1>11

LEMMA StopHaltedKeeps ==
  ASSUME IInv, OwnStack' = OwnStack, NEW t \in Threads, StopHalted(t)
  PROVE  IInv' /\ Moves(t, << >>, << >>)
<1>1. /\ t \in halt /\ levels' = Put(levels, t, << >>) /\ pc' = Put(pc, t, "leaving")
      /\ UNCHANGED <<cached_frames, created, method, jit_called, target, intpr_threads, halt, exited>>
  BY DEF StopHalted, haltVars, frameVars, Put
<1>2. Variables'
  BY <1>1 DEF IInv, Variables
<1>3. Shape(OwnStack, << >>, "leaving", jit_called) /\ ChainOf(<< >>, "leaving") = << >>
  <2>1. OwnStack \in BOOLEAN /\ "leaving" \notin Running
    BY DEF IInv, Variables, Running
  <2> QED BY <2>1, NoLevels
<1>4. /\ Threading(OwnStack, Put(levels, t, << >>), Put(pc, t, "leaving"), jit_called)
      /\ ChainsOf(Put(levels, t, << >>), Put(pc, t, "leaving"))
           = Put(ChainsOf(levels, pc), t, ChainOf(<< >>, "leaving"))
  <2>1. Threading(OwnStack, levels, pc, jit_called)
    BY DEF IInv
  <2>2. Bound(<< >>) /\ "leaving" \in Stages /\ SameMarks(ChainsOf(levels, pc), t, jit_called, jit_called)
    BY DEF Bound, Stages, SameMarks
  <2> QED BY ONLY t \in Threads, <1>3, <2>1, <2>2, Moved
<1>5. Chains' = Put(Chains, t, << >>)
  BY <1>1, <1>3, <1>4 DEF Chains
<1>6. Ownership(Chains', cached_frames, created)
  BY <1>5, FramesDropped DEF IInv
<1>7. Kept(halt', pc', Chains', cached_frames', created')
  <2>1. pc'[t] \in Ended
    <3>1. pc \in [Threads -> Stages]
      BY Here
    <3> QED BY <1>1, <3>1 DEF Put, Ended
  <2>2. Stopped(halt', pc')
    BY <1>1, <2>1 DEF Stopped
  <2> QED BY <2>2 DEF Kept
<1> QED BY <1>1, <1>2, <1>4, <1>5, <1>6, <1>7 DEF IInv, Moves

(* The process ends: no thread moves. *)
LEMMA ExitedKeeps ==
  ASSUME IInv, OwnStack' = OwnStack, exited' \in BOOLEAN,
         UNCHANGED <<frameVars, levels, pc, target, intpr_threads, halt>>
  PROVE  IInv'
<1>1. UNCHANGED <<cached_frames, created, method, jit_called, levels, pc, target, intpr_threads, halt>>
  BY DEF frameVars
<1>2. Variables'
  BY <1>1 DEF IInv, Variables
<1>3. Chains' = Chains
  BY <1>1 DEF Chains
<1> QED BY <1>1, <1>2, <1>3 DEF IInv

LEMMA ExecuteKeeps ==
  ASSUME IInv, OwnStack' = OwnStack, NEW u \in Threads, NEW m \in Methods, Execute(u, m)
  PROVE  IInv' /\ \E f \in Frame : \E ns, q :
           /\ GetStackFrame(f, m, FALSE) /\ Longer(q, Chains[u], f)
           /\ Moves(u, ns, q) /\ Quiet(levels[u], ns) /\ TopOf(ns) = << >>
<1>1. PICK f \in Frame :
        /\ GetStackFrame(f, m, FALSE)
        /\ levels' = [levels EXCEPT ![u] = <<InterpreterOn(f, m)>>]
  BY DEF Execute
<1>2. /\ pc[u] = "added" /\ pc' = Put(pc, u, "run") /\ halt' = halt \ {u}
      /\ UNCHANGED <<target, intpr_threads, exited>>
  BY DEF Execute, Put
<1>3. f \notin jit_called'
  BY <1>1 DEF GetStackFrame
<1>4. PICK ns : ns = <<InterpreterOn(f, m)>>
  OBVIOUS
<1>5. OwnStack \in BOOLEAN /\ target \in [Threads -> Methods] /\ halt \subseteq Threads
  BY DEF IInv, Variables
<1>6. Shape(OwnStack, ns, "run", jit_called') /\ ChainOf(ns, "run") = Append(<< >>, f)
  BY <1>3, <1>4, <1>5, Start
<1>7. Bound(ns)
  <2>1. InterpreterOn(f, m) \in LevelType /\ InterpreterOn(f, m).stack = << >>
    BY InterpreterTyped
  <2>2. \E rs : rs = <<InterpreterOn(f, m)>> /\ Bound(rs)
    BY ONLY <2>1, BoundAlone
  <2> QED BY <1>4, <2>2
<1>8. ChainOf(levels[u], pc[u]) = << >>
  <2>1. Shape(OwnStack, levels[u], pc[u], jit_called) /\ "added" \notin Running
    BY Here DEF Running
  <2>2. levels[u] = << >>
    BY <1>2, <2>1 DEF Shape, Nested
  <2> QED BY <1>2, <1>5, <2>1, <2>2, NoLevels
<1>9. "run" \in Stages /\ "added" \notin Ended
  BY DEF Stages, Ended
<1>10. levels' = Put(levels, u, ns) /\ ChainOf(ns, "run") = Append(ChainOf(levels[u], pc[u]), f)
  BY <1>1, <1>4, <1>6, <1>8 DEF Put
<1>11. pc[u] \notin Ended /\ halt \ {u} \subseteq halt' /\ halt' \subseteq Threads /\ target' \in [Threads -> Methods]
  BY <1>2, <1>5, <1>9
<1>12. IInv' /\ Moves(u, ns, ChainOf(ns, "run"))
  BY <1>1, <1>2, <1>6, <1>7, <1>9, <1>10, <1>11, Gained
<1>13. Longer(ChainOf(ns, "run"), Chains[u], f)
  <2>1. Chains[u] = ChainOf(levels[u], pc[u]) /\ Chains[u] \in Seq(Frame)
    BY DEF IInv, Ownership, Chains, ChainsOf
  <2> QED BY <1>10, <2>1 DEF Longer
<1>14. Quiet(levels[u], ns) /\ TopOf(ns) = << >>
  <2>1. levels[u] = << >>
    BY <1>2, Here DEF Shape, Nested, Running
  <2>2. ~ InterpreterOn(f, m).native
    BY DEF InterpreterOn
  <2>3. Len(ns) = 1 /\ ~ Top(ns).native
    BY <1>4, <2>2 DEF Top
  <2>4. WaitFor(ns) = << >> /\ TopOf(ns) = << >>
    BY <2>3 DEF WaitFor, Waiting, TopOf
  <2> QED BY <2>1, <2>4, NoneWaits DEF Quiet
<1> QED BY <1>1, <1>12, <1>13, <1>14

LEMMA LeaveToNativeKeeps ==
  ASSUME IInv, OwnStack' = OwnStack, NEW t \in Threads, LeaveToNative(t)
  PROVE  IInv' /\ \E ns, q, k, me :
           /\ Moves(t, ns, q) /\ Longer(Chains[t], q, cur(t))
           /\ cur(t) \in Frame /\ cur(t) \in jit_called
           /\ jit_called' = jit_called \ {cur(t)} /\ method' = method
           /\ WaitsToo(WaitFor(levels[t]), WaitFor(ns), k, me)
           /\ TopOf(levels[t]) = << >> /\ TopOf(ns) = <<me>>
<1>1. PICK ls, x : ls = levels[t] /\ x = cur(t)
  OBVIOUS
<1>2. /\ Shape(OwnStack, ls, pc[t], jit_called) /\ Bound(ls) /\ IsInjective(ChainOf(ls, pc[t]))
      /\ levels \in [Threads -> Seq(LevelType)] /\ Depth(t) = Len(ls) /\ x = Top(ls).cur
      /\ ls \in Seq(LevelType)
  BY <1>1, Here
<1>3. PICK rs : rs = SubSeq(ls, 1, Len(ls) - 1)
  OBVIOUS
<1>4. /\ pc[t] = "check" /\ x \in jit_called
      /\ levels' = Put(levels, t, rs) /\ pc' = Put(pc, t, "native")
      /\ jit_called' = jit_called \ {x} /\ cached_frames' = cached_frames \cup {x}
      /\ UNCHANGED <<created, method, target, intpr_threads, halt, exited>>
  BY <1>1, <1>2, <1>3 DEF LeaveToNative, Leaves, Outer, haltVars, Put
<1>5. /\ Shape(OwnStack, rs, "native", jit_called) /\ Len(rs) = Len(ls) - 1
      /\ ChainOf(ls, "check") = Append(ChainOf(rs, "native"), x)
      /\ \A j \in 1..Len(rs) : rs[j] = ls[j]
  <2>0. Inner(ls, rs)
    BY <1>3 DEF Inner
  <2>1. /\ Shape(OwnStack, ls, "check", jit_called)
        /\ Top(ls).cur \in jit_called /\ IsInjective(ChainOf(ls, "check"))
    BY <1>2, <1>4
  <2>2. /\ Shape(OwnStack, rs, "native", jit_called) /\ Len(rs) = Len(ls) - 1
        /\ ChainOf(ls, "check") = Append(ChainOf(rs, "native"), Top(ls).cur)
        /\ \A j \in 1..Len(rs) : rs[j] = ls[j]
    BY ONLY <2>0, <2>1, Leave
  <2> QED BY <1>2, <2>2
<1>6. ChainOf(rs, "native") \in Seq(Frame) /\ rs \in Seq(LevelType)
  BY <1>5, ChainTyped DEF Shape
<1>7. Bound(rs)
  <2>1. Len(rs) <= Len(ls) /\ \A j \in 1..Len(rs) : rs[j].stack = ls[j].stack
    BY <1>2, <1>5, <1>6
  <2> QED BY <1>2, <1>6, <2>1, BoundSame
<1>8. Shape(OwnStack, rs, "native", jit_called')
  <2>1. x \notin HeldBy(ChainOf(rs, "native"))
    <3>1. PICK r \in Seq(Frame) : r = ChainOf(rs, "native")
      BY <1>6
    <3>2. Longer(Chains[t], r, x)
      BY <1>1, <1>4, <1>5, <3>1 DEF Longer, Chains, ChainsOf
    <3>3. Ownership(Chains, cached_frames, created)
      BY DEF IInv
    <3>4. x \notin HeldBy(r)
      BY ONLY t \in Threads, <3>2, <3>3, FrameGivenBack
    <3> QED BY <3>1, <3>4
  <2>2. HeldBy(ChainOf(rs, "native")) \cap jit_called' = HeldBy(ChainOf(rs, "native")) \cap jit_called
    BY <1>4, <2>1
  <2> QED BY <1>5, <2>2, ShapeMarks
<1>9. "native" \in Stages /\ pc[t] \notin Ended /\ ChainOf(levels[t], pc[t]) = Append(ChainOf(rs, "native"), x)
  BY <1>1, <1>4, <1>5 DEF Stages, Ended
<1>10. jit_called' \subseteq jit_called /\ jit_called \subseteq jit_called' \cup {x}
  BY <1>4
<1>11. IInv' /\ Moves(t, rs, ChainOf(rs, "native"))
  BY <1>4, <1>6, <1>7, <1>8, <1>9, <1>10, GivesBack
<1>12. Longer(Chains[t], ChainOf(rs, "native"), x)
  BY <1>6, <1>9 DEF Longer, Chains, ChainsOf
<1>13. ls # << >> /\ ~ Top(ls).native /\ rs # << >> /\ Top(rs).native
  BY <1>2, <1>4, <1>5 DEF Shape, Nested, Running
<1>14. x \in Frame
  <2>1. ~ Idle(ls, pc[t])
    BY <1>4, <1>13 DEF Idle
  <2> QED BY <1>2, <2>1, ChainTyped
<1>15. /\ WaitsToo(WaitFor(ls), WaitFor(rs), Len(rs), Top(rs).method)
       /\ TopOf(ls) = << >> /\ TopOf(rs) = <<Top(rs).method>>
  <2>1. Inner(ls, rs)
    BY <1>3 DEF Inner
  <2>2. OneOn(rs, Top(ls), ls) /\ Top(ls) \in LevelType
    BY ONLY <1>2, <1>13, <2>1, InnerAdded
  <2>3. WaitsToo(WaitFor(ls), WaitFor(rs), Len(rs), Top(rs).method)
    BY ONLY <1>6, <1>13, <2>2, AddedWaits
  <2> QED BY <1>13, <2>3 DEF TopOf
<1> QED BY <1>1, <1>4, <1>11, <1>12, <1>14, <1>15

LEMMA NativeReturnKeeps ==
  ASSUME IInv, OwnStack' = OwnStack, NEW t \in Threads, NativeReturn(t)
  PROVE  IInv' /\ \E ns :
           /\ Moves(t, ns, Chains[t]) /\ WaitFor(ns) = WaitFor(levels[t]) /\ TopOf(ns) = << >>
           /\ TopOf(levels[t]) = <<Level(t).method>> /\ Level(t).method \in Methods
<1>1. PICK ls : ls = levels[t]
  OBVIOUS
<1>2. /\ Shape(OwnStack, ls, pc[t], jit_called) /\ Bound(ls)
      /\ levels \in [Threads -> Seq(LevelType)] /\ Depth(t) = Len(ls)
      /\ ls \in Seq(LevelType)
  BY <1>1, Here
<1>3. PICK rs : rs = SubSeq(ls, 1, Len(ls) - 1)
  OBVIOUS
<1>4. pc[t] = "native" /\ rs = Outer(t)
  BY <1>1, <1>2, <1>3 DEF NativeReturn, Outer
<1>5. /\ Shape(OwnStack, rs, "released", jit_called) /\ Len(rs) = Len(ls) - 1
      /\ ChainOf(rs, "released") = ChainOf(ls, "native")
      /\ rs # << >> /\ rs[At(OwnStack, rs)].stack # << >>
      /\ \A j \in 1..Len(rs) : rs[j] = ls[j]
  <2>0. Inner(ls, rs)
    BY <1>3 DEF Inner
  <2>1. Shape(OwnStack, ls, "native", jit_called)
    BY <1>2, <1>4
  <2> QED BY ONLY <2>0, <2>1, CutNative
<1>6. rs \in Seq(LevelType)
  BY <1>5 DEF Shape
<1>7. Bound(rs)
  <2>1. Len(rs) <= Len(ls) /\ \A j \in 1..Len(rs) : rs[j].stack = ls[j].stack
    BY <1>2, <1>5, <1>6
  <2> QED BY <1>2, <1>6, <2>1, BoundSame
<1>8. PICK ns : ns = PopFrame(rs, Len(rs), At(OwnStack, rs))
  OBVIOUS
<1>9. /\ Shape(OwnStack, ns, "check", jit_called) /\ Bound(ns)
      /\ ChainOf(ns, "check") = ChainOf(rs, "released")
  <2>1. /\ Shape(OwnStack, rs, "released", jit_called) /\ Bound(rs)
        /\ rs # << >> /\ rs[At(OwnStack, rs)].stack # << >>
    BY <1>5, <1>7
  <2> QED BY ONLY <1>8, <2>1, Pop, PopBound
<1>10. Depth(t) - 1 = Len(rs)
  BY <1>2, <1>5
<1>11. /\ levels' = Put(levels, t, ns) /\ pc' = Put(pc, t, "check")
       /\ UNCHANGED <<frameVars, target, intpr_threads, halt, exited>>
  BY <1>4, <1>8, <1>10 DEF NativeReturn, At, haltVars, Put
<1>12. halt \subseteq Threads /\ intpr_threads \subseteq Threads
  BY DEF IInv, Variables
<1>13. "check" \in Stages /\ "native" \notin Ended
  BY DEF Stages, Ended
<1>14. ChainOf(ns, "check") = ChainOf(levels[t], pc[t])
  BY <1>1, <1>4, <1>5, <1>9
<1>15. /\ OwnStack' = OwnStack /\ halt \subseteq halt' /\ halt' \subseteq Threads
       /\ target' = target /\ intpr_threads' \subseteq Threads /\ exited' = exited
       /\ UNCHANGED frameVars /\ (pc[t] \in Ended => "check" \in Ended)
  BY <1>4, <1>11, <1>12, <1>13
<1>16. IInv' /\ Moves(t, ns, Chains[t])
  BY ONLY IInv, t \in Threads, <1>9, <1>11, <1>13, <1>14, <1>15, Stays
<1>17. /\ ls # << >> /\ Top(ls).native /\ Top(ls) \in LevelType /\ Level(t) = Top(ls)
       /\ ~ Top(rs).native
  <2>1. ls # << >> /\ Top(ls).native /\ ~ Top(rs).native
    BY <1>2, <1>4, <1>5 DEF Shape, Nested, Running
  <2>2. Len(ls) \in 1..Len(ls)
    BY <1>2, <2>1
  <2> QED BY <1>1, <1>2, <2>1, <2>2, Here DEF Top
<1>18. WaitFor(ns) = WaitFor(rs) /\ TopOf(ns) = TopOf(rs)
  <2>1. Len(rs) \in 1..Len(rs) /\ At(OwnStack, rs) \in 1..Len(rs)
    BY <1>5, Indices
  <2> QED BY <1>5, <1>6, <1>8, <2>1, PopWaits
<1>19. WaitFor(ls) = WaitFor(rs)
  <2>1. Inner(ls, rs)
    BY <1>3 DEF Inner
  <2>2. OneOn(rs, Top(ls), ls) /\ Top(ls) \in LevelType
    BY ONLY <1>2, <1>17, <2>1, InnerAdded
  <2> QED BY ONLY <1>5, <1>6, <1>17, <2>2, AddedWaits
<1>20. TopOf(rs) = << >> /\ TopOf(ls) = <<Level(t).method>> /\ Level(t).method \in Methods
  BY <1>17 DEF TopOf, LevelType
<1> QED BY <1>1, <1>16, <1>18, <1>19, <1>20

(* What a call starts with: the frame is pushed. *)
LEMMA CallPushes ==
  ASSUME IInv, NEW t \in Threads, pc[t] \in {"run", "call"}, ~ CallStackFull(t),
         NEW jit, Shape(OwnStack, levels[t], pc[t], jit),
         NEW rs, rs = Pushing(levels[t], StackAt(t), cur(t))
  PROVE  /\ Shape(OwnStack, rs, "released", jit) /\ Bound(rs)
         /\ rs # << >> /\ rs[At(OwnStack, rs)].stack # << >> /\ Len(rs) = Depth(t)
         /\ ChainOf(rs, "released") = ChainOf(levels[t], pc[t])
         /\ Quiet(levels[t], rs) /\ TopOf(rs) = << >> /\ ~ Top(rs).native
<1>1. PICK ls, s, p : ls = levels[t] /\ s = At(OwnStack, levels[t]) /\ p = pc[t]
  OBVIOUS
<1>2. /\ Shape(OwnStack, ls, p, jit) /\ Bound(ls) /\ p \in {"run", "call"}
      /\ s = StackAt(t) /\ Depth(t) = Len(ls) /\ cur(t) = Top(ls).cur
  BY <1>1, Here
<1>3. rs = Pushing(ls, s, Top(ls).cur)
  BY <1>1, <1>2
<1>4. Len(ls[s].stack) < CallStackSize
  <2>1. ls # << >> /\ ls \in Seq(LevelType)
    BY <1>2 DEF Shape, Nested, Running
  <2>2. s \in 1..Len(ls)
    BY <1>1, <1>2, <2>1, Indices
  <2>3. Len(ls[s].stack) \in Nat
    BY <2>1, <2>2, LevelOf
  <2> QED BY <1>1, <1>2, <2>3, InterpreterAssumption DEF CallStackFull, call_stack
<1>5. Shape(OwnStack, ls, p, jit) /\ Bound(ls) /\ p \in {"run", "call"} /\ s = At(OwnStack, ls)
  BY <1>1, <1>2
<1>6. /\ Shape(OwnStack, rs, "released", jit) /\ Len(rs) = Len(ls)
      /\ ChainOf(rs, "released") = ChainOf(ls, p)
      /\ rs # << >> /\ rs[At(OwnStack, rs)].stack # << >>
  BY ONLY <1>3, <1>5, Push
<1>7. Bound(rs)
  BY ONLY <1>3, <1>4, <1>5, PushBound
<1>8. Quiet(ls, rs)
  <2>1. ls # << >> /\ ls \in Seq(LevelType) /\ ~ Idle(ls, p)
    BY <1>2 DEF Shape, Nested, Running, Idle
  <2>2. s \in 1..Len(ls) /\ Top(ls).cur \in Frame
    BY <1>1, <1>2, <2>1, Indices, ChainTyped
  <2> QED BY <1>3, <2>1, <2>2, PushWaits DEF Quiet
<1>9. ~ Top(rs).native /\ TopOf(rs) = << >>
  BY <1>6 DEF Shape, Nested, TopOf
<1> QED BY <1>1, <1>2, <1>6, <1>7, <1>8, <1>9

LEMMA CallNativeKeeps ==
  ASSUME IInv, OwnStack' = OwnStack, NEW t \in Threads, NEW m \in Methods, CallNative(t, m)
  PROVE  IInv' /\ \E ns :
           /\ Moves(t, ns, Chains[t]) /\ WaitFor(ns) = WaitFor(levels[t])
           /\ TopOf(levels[t]) = << >> /\ TopOf(ns) = <<m>>
<1>1. PICK rs : rs = Pushing(levels[t], StackAt(t), cur(t))
  OBVIOUS
<1>2. Shape(OwnStack, levels[t], pc[t], jit_called) /\ levels \in [Threads -> Seq(LevelType)]
  BY Here
<1>3. pc[t] \in {"run", "call"} /\ ~ CallStackFull(t)
  BY DEF CallNative, Callable
<1>4. /\ Shape(OwnStack, rs, "released", jit_called) /\ Bound(rs)
      /\ rs # << >> /\ rs[At(OwnStack, rs)].stack # << >>
      /\ ChainOf(rs, "released") = ChainOf(levels[t], pc[t])
      /\ Quiet(levels[t], rs) /\ TopOf(rs) = << >> /\ ~ Top(rs).native
  BY <1>1, <1>2, <1>3, CallPushes
<1>5. PICK ns : ns = Append(rs, NativeCode(m))
  OBVIOUS
<1>6. Shape(OwnStack, ns, "native", jit_called) /\ ChainOf(ns, "native") = ChainOf(rs, "released")
  <2>1. OneOn(rs, NativeCode(m), ns)
    BY <1>5 DEF OneOn
  <2> QED BY ONLY m \in Methods, <1>4, <2>1, Switch
<1>7. Bound(ns)
  <2>1. rs \in Seq(LevelType) /\ Bound(rs)
    BY <1>4 DEF Shape
  <2>2. NativeCode(m) \in LevelType /\ NativeCode(m).stack = << >>
    BY NativeCodeTyped
  <2>3. \E qs : qs = Append(rs, NativeCode(m)) /\ Bound(qs)
    BY ONLY <2>1, <2>2, BoundMore
  <2> QED BY <1>5, <2>3
<1>8. /\ levels' = Put(levels, t, ns) /\ pc' = Put(pc, t, "native")
      /\ UNCHANGED <<frameVars, target, intpr_threads, halt, exited>>
  <2>1. /\ levels' = [Pushed(t) EXCEPT ![t] = Append(@, NativeCode(m))]
        /\ pc' = Put(pc, t, "native")
        /\ UNCHANGED <<frameVars, target, intpr_threads, halt, exited>>
    BY DEF CallNative, haltVars, Put
  <2>2. Pushed(t)[t] = rs
    BY <1>1, <1>2 DEF Pushed, Pushing, SetStack
  <2>3. [Pushed(t) EXCEPT ![t] = Append(@, NativeCode(m))] = Put(levels, t, ns)
    BY <1>2, <1>5, <2>2 DEF Pushed, Put
  <2> QED BY <2>1, <2>3
<1>9. halt \subseteq Threads /\ intpr_threads \subseteq Threads
  BY DEF IInv, Variables
<1>10. "native" \in Stages /\ "run" \notin Ended /\ "call" \notin Ended
  BY DEF Stages, Ended
<1>11. ChainOf(ns, "native") = ChainOf(levels[t], pc[t])
  BY <1>4, <1>6
<1>12. /\ OwnStack' = OwnStack /\ halt \subseteq halt' /\ halt' \subseteq Threads
       /\ target' = target /\ intpr_threads' \subseteq Threads /\ exited' = exited
       /\ UNCHANGED frameVars /\ (pc[t] \in Ended => "native" \in Ended)
  BY <1>3, <1>8, <1>9, <1>10
<1>13. IInv' /\ Moves(t, ns, Chains[t])
  BY ONLY IInv, t \in Threads, <1>6, <1>7, <1>8, <1>10, <1>11, <1>12, Stays
<1>14. WaitFor(ns) = WaitFor(rs) /\ TopOf(ns) = <<m>>
  <2>1. rs \in Seq(LevelType) /\ rs # << >> /\ ~ Top(rs).native
    BY <1>4 DEF Shape
  <2>2. OneOn(rs, NativeCode(m), ns)
    BY <1>5 DEF OneOn
  <2>3. NativeCode(m) \in LevelType /\ NativeCode(m).native /\ NativeCode(m).method = m
    BY NativeCodeTyped DEF NativeCode
  <2>4. /\ WaitFor(ns) = WaitFor(rs)
        /\ TopOf(ns) = (IF NativeCode(m).native THEN <<NativeCode(m).method>> ELSE << >>)
    BY ONLY <2>1, <2>2, <2>3, AddedWaits
  <2> QED BY <2>3, <2>4
<1> QED BY <1>4, <1>13, <1>14 DEF Quiet

LEMMA CallInterpretedKeeps ==
  ASSUME IInv, OwnStack' = OwnStack, NEW t \in Threads, NEW m \in Methods, CallInterpreted(t, m)
  PROVE  IInv' /\ \E f \in Frame : \E ns, q :
           /\ GetStackFrame(f, m, FALSE) /\ Longer(q, Chains[t], f)
           /\ Moves(t, ns, q) /\ Quiet(levels[t], ns) /\ TopOf(ns) = << >>
<1>1. PICK f \in Frame :
        /\ GetStackFrame(f, m, FALSE)
        /\ levels' = [Pushed(t) EXCEPT ![t][Depth(t)].cur = f]
  BY DEF CallInterpreted
<1>2. /\ pc[t] \in {"run", "call"} /\ ~ CallStackFull(t) /\ pc' = Put(pc, t, "check")
      /\ UNCHANGED <<target, intpr_threads, halt, exited>>
  BY DEF CallInterpreted, Callable, haltVars, Put
<1>3. f \notin jit_called'
  BY <1>1 DEF GetStackFrame
<1>4. Shape(OwnStack, levels[t], pc[t], jit_called') /\ levels \in [Threads -> Seq(LevelType)]
  <2>1. FALSE \in BOOLEAN /\ GetStackFrame(f, m, FALSE)
    BY <1>1
  <2>2. Shape(OwnStack, levels[t], pc[t], jit_called')
    BY ONLY IInv, t \in Threads, f \in Frame, m \in Methods, <2>1, NotHeld
  <2> QED BY <2>2, Here
<1>5. PICK rs : rs = Pushing(levels[t], StackAt(t), cur(t))
  OBVIOUS
<1>6. /\ Shape(OwnStack, rs, "released", jit_called') /\ Bound(rs)
      /\ rs # << >> /\ rs[At(OwnStack, rs)].stack # << >> /\ Len(rs) = Depth(t)
      /\ ChainOf(rs, "released") = ChainOf(levels[t], pc[t])
      /\ Quiet(levels[t], rs) /\ TopOf(rs) = << >> /\ ~ Top(rs).native
  BY <1>2, <1>4, <1>5, CallPushes
<1>7. PICK ns : ns = SetCur(rs, Len(rs), f)
  OBVIOUS
<1>8. /\ Shape(OwnStack, ns, "check", jit_called') /\ Len(ns) = Len(rs)
      /\ ChainOf(ns, "check") = Append(ChainOf(rs, "released"), f)
      /\ \A j \in 1..Len(rs) : ns[j].stack = rs[j].stack
  BY ONLY f \in Frame, <1>3, <1>6, <1>7, Enter
<1>9. Bound(ns)
  <2>1. rs \in Seq(LevelType) /\ ns \in Seq(LevelType)
    BY <1>6, <1>8 DEF Shape
  <2>2. Len(ns) <= Len(rs) /\ \A j \in 1..Len(ns) : ns[j].stack = rs[j].stack
    BY <1>8, <2>1
  <2> QED BY <1>6, <2>1, <2>2, BoundSame
<1>10. levels' = Put(levels, t, ns)
  <2>1. Pushed(t)[t] = rs
    BY <1>4, <1>5 DEF Pushed, Pushing, SetStack
  <2>2. [Pushed(t) EXCEPT ![t][Depth(t)].cur = f] = Put(levels, t, ns)
    BY <1>4, <1>6, <1>7, <2>1 DEF Pushed, Put, SetCur
  <2> QED BY <1>1, <2>2
<1>11. "check" \in Stages /\ pc[t] \notin Ended
  BY <1>2 DEF Stages, Ended
<1>12. ChainOf(ns, "check") = Append(ChainOf(levels[t], pc[t]), f)
  BY <1>6, <1>8
<1>13. halt \ {t} \subseteq halt' /\ halt' \subseteq Threads /\ target' \in [Threads -> Methods]
  BY <1>2 DEF IInv, Variables
<1>14. FALSE \in BOOLEAN /\ GetStackFrame(f, m, FALSE) /\ Shape(OwnStack, ns, "check", jit_called')
  BY <1>1, <1>8
<1>15. IInv' /\ Moves(t, ns, ChainOf(ns, "check"))
  BY ONLY IInv, OwnStack' = OwnStack, t \in Threads, f \in Frame, m \in Methods,
          <1>2, <1>9, <1>10, <1>11, <1>12, <1>13, <1>14, Gained
<1>16. Longer(ChainOf(ns, "check"), Chains[t], f)
  <2>1. Chains[t] = ChainOf(levels[t], pc[t]) /\ Chains[t] \in Seq(Frame)
    BY DEF IInv, Ownership, Chains, ChainsOf
  <2> QED BY <1>12, <2>1 DEF Longer
<1>17. Quiet(levels[t], ns) /\ TopOf(ns) = << >>
  <2>1. rs \in Seq(LevelType) /\ Len(rs) \in 1..Len(rs)
    BY <1>6, Indices DEF Shape
  <2>2. WaitFor(ns) = WaitFor(rs) /\ TopOf(ns) = TopOf(rs)
    BY <1>7, <2>1, EnterWaits
  <2> QED BY <1>6, <2>2 DEF Quiet
<1> QED BY <1>1, <1>15, <1>16, <1>17

LEMMA StackCallbackKeeps ==
  ASSUME IInv, OwnStack' = OwnStack, NEW t \in Threads, NEW m \in Methods, StackCallback(t, m)
  PROVE  IInv' /\ \E f \in Frame : \E ns, q :
           /\ GetStackFrame(f, Level(t).method, TRUE) /\ Longer(q, Chains[t], f)
           /\ Moves(t, ns, q) /\ TopOf(ns) = << >>
           /\ WaitsToo(WaitFor(ns), WaitFor(levels[t]), Depth(t), Level(t).method)
           /\ TopOf(levels[t]) = <<Level(t).method>> /\ Level(t).method \in Methods
<1>1. PICK ls, me : ls = levels[t] /\ me = Level(t).method
  OBVIOUS
<1>2. PICK f \in Frame :
        /\ GetStackFrame(f, me, TRUE)
        /\ levels' = [levels EXCEPT ![t] = Append(@, InterpreterOn(f, me))]
  BY <1>1 DEF StackCallback
<1>3. /\ pc[t] = "native" /\ pc' = Put(pc, t, "call") /\ target' = [target EXCEPT ![t] = m]
      /\ UNCHANGED <<intpr_threads, halt, exited>>
  BY DEF StackCallback, haltVars, Put
<1>4. Bound(ls) /\ levels \in [Threads -> Seq(LevelType)] /\ ls \in Seq(LevelType)
  BY <1>1, Here
<1>5. me \in Methods
  <2>1. Shape(OwnStack, ls, "native", jit_called) /\ Level(t) = Top(ls)
    BY <1>1, <1>3, Here
  <2>2. ls # << >>
    BY <2>1 DEF Shape, Nested, Running
  <2>3. Top(ls) \in LevelType
    BY <1>4, <2>2 DEF Top
  <2> QED BY <1>1, <2>1, <2>3 DEF LevelType
<1>6. f \in jit_called'
  BY <1>2 DEF GetStackFrame
<1>7. /\ Shape(OwnStack, ls, "native", jit_called')
      /\ f \notin HeldBy(ChainOf(ls, "native"))
  <2>1. TRUE \in BOOLEAN /\ GetStackFrame(f, me, TRUE)
    BY <1>2
  <2>2. /\ f \notin HeldBy(ChainOf(levels[t], pc[t]))
        /\ Shape(OwnStack, levels[t], pc[t], jit_called')
    BY ONLY IInv, t \in Threads, f \in Frame, <1>5, <2>1, NotHeld
  <2> QED BY <1>1, <1>3, <2>2
<1>8. PICK ns : ns = Append(ls, InterpreterOn(f, me))
  OBVIOUS
<1>9. Shape(OwnStack, ns, "call", jit_called') /\ ChainOf(ns, "call") = Append(ChainOf(ls, "native"), f)
  <2>0. OneOn(ls, InterpreterOn(f, me), ns)
    BY <1>8 DEF OneOn
  <2> QED BY ONLY f \in Frame, <1>5, <1>6, <1>7, <2>0, CallBack
<1>10. Bound(ns)
  <2>1. InterpreterOn(f, me) \in LevelType /\ InterpreterOn(f, me).stack = << >>
    BY <1>5, InterpreterTyped
  <2>2. \E qs : qs = Append(ls, InterpreterOn(f, me)) /\ Bound(qs)
    BY ONLY <1>4, <2>1, BoundMore
  <2> QED BY <1>8, <2>2
<1>11. levels' = Put(levels, t, ns)
  BY <1>1, <1>2, <1>8 DEF Put
<1>12. "call" \in Stages /\ pc[t] \notin Ended
  BY <1>3 DEF Stages, Ended
<1>13. ChainOf(ns, "call") = Append(ChainOf(levels[t], pc[t]), f)
  BY <1>1, <1>3, <1>9
<1>14. halt \ {t} \subseteq halt' /\ halt' \subseteq Threads /\ target' \in [Threads -> Methods]
  BY <1>3 DEF IInv, Variables
<1>15. TRUE \in BOOLEAN /\ GetStackFrame(f, me, TRUE) /\ Shape(OwnStack, ns, "call", jit_called')
  BY <1>2, <1>9
<1>16. IInv' /\ Moves(t, ns, ChainOf(ns, "call"))
  BY ONLY IInv, OwnStack' = OwnStack, t \in Threads, f \in Frame,
          <1>3, <1>5, <1>10, <1>11, <1>12, <1>13, <1>14, <1>15, Gained
<1>17. Longer(ChainOf(ns, "call"), Chains[t], f)
  <2>1. Chains[t] = ChainOf(levels[t], pc[t]) /\ Chains[t] \in Seq(Frame)
    BY DEF IInv, Ownership, Chains, ChainsOf
  <2> QED BY <1>13, <2>1 DEF Longer
<1>18. /\ WaitsToo(WaitFor(ns), WaitFor(ls), Len(ls), Top(ls).method) /\ TopOf(ns) = << >>
       /\ TopOf(ls) = <<Top(ls).method>>
  <2>1. ls # << >> /\ Top(ls).native
    BY <1>7 DEF Shape, Nested, Running
  <2>2. OneOn(ls, InterpreterOn(f, me), ns)
    BY <1>8 DEF OneOn
  <2>3. InterpreterOn(f, me) \in LevelType /\ ~ InterpreterOn(f, me).native
    BY <1>5, InterpreterTyped
  <2>4. /\ WaitsToo(WaitFor(ns), WaitFor(ls), Len(ls), Top(ls).method)
        /\ TopOf(ns) = (IF InterpreterOn(f, me).native THEN <<InterpreterOn(f, me).method>> ELSE << >>)
    BY ONLY <1>4, <2>1, <2>2, <2>3, AddedWaits
  <2> QED BY <2>1, <2>3, <2>4 DEF TopOf
<1>19. Depth(t) = Len(ls) /\ Level(t) = Top(ls)
  BY <1>1, Here
<1> QED BY <1>1, <1>2, <1>5, <1>16, <1>17, <1>18, <1>19

-----------------------------------------------------------------------------
(* The invariant of the specification *)

LEMMA Begins == Init => IInv
<1> SUFFICES ASSUME Init PROVE IInv
  OBVIOUS
<1>1. PICK f \in Preload, m \in Methods \ Native :
        /\ cached_frames = Preload \ {f}
        /\ created = Preload
        /\ method = [g \in Frame |-> m]
        /\ levels = [t \in Threads |-> IF t = Main THEN <<InterpreterOn(f, m)>> ELSE << >>]
  BY DEF Init
<1>2. /\ OwnStack \in BOOLEAN /\ jit_called = {}
      /\ pc = [t \in Threads |-> IF t = Main THEN "run" ELSE "new"]
      /\ target = [t \in Threads |-> CHOOSE m2 \in Methods : TRUE]
      /\ intpr_threads = {Main} /\ halt = {} /\ exited = FALSE
  BY DEF Init
<1>3. Main \in Threads /\ f \in Frame /\ Preload \subseteq Frame
  BY <1>1, InterpreterAssumption
<1>4. Variables
  BY <1>1, <1>2, <1>3, InterpreterAssumption DEF Variables
<1>5. PICK ns : ns = <<InterpreterOn(f, m)>>
  OBVIOUS
<1>6. Shape(OwnStack, ns, "run", jit_called) /\ ChainOf(ns, "run") = Append(<< >>, f)
  <2>1. OwnStack \in BOOLEAN /\ f \in Frame /\ m \in Methods /\ f \notin jit_called
    BY <1>2, <1>3
  <2> QED BY ONLY <1>5, <2>1, Start
<1>7. Bound(ns)
  <2>1. InterpreterOn(f, m) \in LevelType /\ InterpreterOn(f, m).stack = << >>
    BY <1>3, InterpreterTyped
  <2>2. \E rs : rs = <<InterpreterOn(f, m)>> /\ Bound(rs)
    BY ONLY <2>1, BoundAlone
  <2> QED BY <1>5, <2>2
<1>8. Shape(OwnStack, << >>, "new", jit_called) /\ ChainOf(<< >>, "new") = << >> /\ Bound(<< >>)
  <2>1. "new" \notin Running
    BY DEF Running
  <2>2. Bound(<< >>)
    BY DEF Bound
  <2> QED BY <1>2, <2>1, <2>2, NoLevels
<1>9. levels = [t \in Threads |-> IF t = Main THEN ns ELSE << >>]
  BY <1>1, <1>5
<1>10. ns \in Seq(LevelType) /\ << >> \in Seq(LevelType)
  BY <1>6 DEF Shape
<1>11. Threading(OwnStack, levels, pc, jit_called)
  <2>1. levels \in [Threads -> Seq(LevelType)] /\ pc \in [Threads -> Stages]
    BY <1>2, <1>9, <1>10 DEF Stages
  <2>2. ASSUME NEW t \in Threads PROVE Shape(OwnStack, levels[t], pc[t], jit_called) /\ Bound(levels[t])
    <3>1. CASE t = Main
      BY <1>2, <1>6, <1>7, <1>9, <3>1
    <3>2. CASE t # Main
      BY <1>2, <1>8, <1>9, <3>2
    <3> QED BY <3>1, <3>2
  <2> QED BY <2>1, <2>2 DEF Threading
<1>12. /\ Chains \in [Threads -> Seq(Frame)] /\ Chains[Main] = Append(<< >>, f)
       /\ \A t \in Threads \ {Main} : Chains[t] = << >>
  <2>1. Chains[Main] = Append(<< >>, f)
    BY <1>2, <1>3, <1>6, <1>9 DEF Chains, ChainsOf
  <2>2. ASSUME NEW t \in Threads \ {Main} PROVE Chains[t] = << >>
    BY <1>2, <1>8, <1>9 DEF Chains, ChainsOf
  <2>3. Append(<< >>, f) \in Seq(Frame) /\ << >> \in Seq(Frame)
    BY <1>3
  <2>4. \A t \in Threads : Chains[t] \in Seq(Frame)
    BY <2>1, <2>2, <2>3
  <2> QED BY <2>1, <2>2, <2>4 DEF Chains, ChainsOf
<1>13. /\ HeldBy(Append(<< >>, f)) = {f} /\ IsInjective(Append(<< >>, f))
       /\ HeldBy(<< >>) = {} /\ IsInjective(<< >>)
  BY DEF HeldBy, IsInjective
<1>14. Ownership(Chains, cached_frames, created)
  BY <1>1, <1>12, <1>13 DEF Ownership
<1>15. Kept(halt, pc, Chains, cached_frames, created)
  <2>1. f \in AllHeld(Chains)
    BY <1>3, <1>12, <1>13 DEF AllHeld
  <2> QED BY <1>1, <2>1 DEF Kept
<1> QED BY <1>4, <1>11, <1>14, <1>15 DEF IInv

LEMMA StepKeeps == IInv /\ [Next]_vars => IInv'
<1> SUFFICES ASSUME IInv, [Next]_vars PROVE IInv'
  OBVIOUS
<1>1. CASE UNCHANGED vars
  <2>1. /\ UNCHANGED <<OwnStack, frameVars, levels, pc, target, intpr_threads, halt>>
        /\ exited' \in BOOLEAN
    BY <1>1 DEF vars, haltVars, IInv, Variables
  <2> QED BY <2>1, ExitedKeeps
<1>2. CASE Next
  <2>1. Step /\ OwnStack' = OwnStack
    BY <1>2 DEF Next
  <2>2. ASSUME NEW t \in Threads, Exceeded(t) \/ Fails(t) PROVE IInv'
    BY <2>1, <2>2, ExitedKeeps DEF Exceeded, Fails
  <2>3. CASE Exit
    BY <2>1, <2>3, ExitedKeeps DEF Exit
  <2>4. ASSUME NEW t \in Threads, NativeReturn(t) PROVE IInv'
    BY <2>1, <2>4, NativeReturnKeeps
  <2>5. ASSUME NEW t \in Threads, LeaveToNative(t) PROVE IInv'
    BY <2>1, <2>5, LeaveToNativeKeeps
  <2>6. ASSUME NEW t \in Threads, Continue(t) PROVE IInv'
    BY <2>1, <2>6, ContinueKeeps
  <2>7. ASSUME NEW t \in Threads, ReleaseStackFrame(t) PROVE IInv'
    BY <2>1, <2>7, ReleaseStackFrameKeeps
  <2>8. ASSUME NEW t \in Threads, RestoreCaller(t) PROVE IInv'
    BY <2>1, <2>8, RestoreCallerKeeps
  <2>9. ASSUME NEW t \in Threads, LeaveInterpreter(t) PROVE IInv'
    BY <2>1, <2>9, LeaveInterpreterKeeps
  <2>10. ASSUME NEW t \in Threads, AddThread(t) PROVE IInv'
    BY <2>1, <2>10, AddThreadKeeps
  <2>11. ASSUME NEW t \in Threads, RemoveThread(t) PROVE IInv'
    BY <2>1, <2>11, RemoveThreadKeeps
  <2>12. ASSUME NEW t \in Threads, StopHalted(t) PROVE IInv'
    BY <2>1, <2>12, StopHaltedKeeps
  <2>13. ASSUME NEW t \in Threads, NEW m \in Methods, CallInterpreted(t, m) PROVE IInv'
    BY <2>1, <2>13, CallInterpretedKeeps
  <2>14. ASSUME NEW t \in Threads, NEW m \in Methods, CallNative(t, m) PROVE IInv'
    BY <2>1, <2>14, CallNativeKeeps
  <2>15. ASSUME NEW t \in Threads, NEW m \in Methods, StackCallback(t, m) PROVE IInv'
    BY <2>1, <2>15, StackCallbackKeeps
  <2>16. ASSUME NEW t \in Threads, NEW m \in Methods \ Native, Execute(t, m) PROVE IInv'
    BY <2>1, <2>16, ExecuteKeeps
  <2>17. ASSUME NEW t \in Threads, NEW u \in Threads, ProcessAsyncMethodCall(t, u) PROVE IInv'
    BY <2>1, <2>17, ProcessAsyncMethodCallKeeps
  <2>18. CASE HaltAll
    BY <2>1, <2>18, HaltAllKeeps
  <2> QED BY <2>1, <2>2, <2>3, <2>4, <2>5, <2>6, <2>7, <2>8, <2>9, <2>10, <2>11, <2>12,
             <2>13, <2>14, <2>15, <2>16, <2>17, <2>18 DEF Step
<1> QED BY <1>1, <1>2

LEMMA InvariantHolds == Spec => []IInv
BY Begins, StepKeeps, PTL DEF Spec

LEMMA TheChain ==
  ASSUME IInv, NEW t \in Threads
  PROVE  Chain(t) = Chains[t] /\ Held(t) = HeldBy(Chains[t])
<1>1. PICK ls, p : ls = levels[t] /\ p = pc[t]
  OBVIOUS
<1>2. Shape(OwnStack, ls, p, jit_called) /\ Level(t) = Top(ls) /\ cur(t) = Top(ls).cur
  BY <1>1, Here
<1>3. Flat(ls) \in Seq(Frame)
  BY <1>2, ChainTyped
<1>4. Chains[t] = ChainOf(ls, p)
  BY <1>1 DEF Chains, ChainsOf
<1>5. Chain(t) = Flat(ls) \o (IF Idle(ls, p) THEN << >> ELSE <<cur(t)>>)
  BY <1>1, <1>2 DEF Chain, Flat, Idle
<1>6. Chain(t) = ChainOf(ls, p)
  <2>1. CASE Idle(ls, p)
    BY <1>3, <1>5, <2>1 DEF ChainOf
  <2>2. CASE ~ Idle(ls, p)
    <3>1. PICK x \in Frame : x = cur(t)
      BY <1>2, <2>2, ChainTyped
    <3>2. Chain(t) = Flat(ls) \o <<x>>
      BY <1>5, <2>2, <3>1
    <3>3. Flat(ls) \o <<x>> = Append(Flat(ls), x)
      BY ONLY <1>3, x \in Frame
    <3> QED BY <1>2, <2>2, <3>1, <3>2, <3>3 DEF ChainOf
  <2> QED BY <2>1, <2>2
<1> QED BY <1>4, <1>6 DEF Held, HeldBy

(* Interpreters, native code and frames are well formed in every state, and  *)
(* PushFrame never leaves a call stack with more than CALL_STACK_SIZE        *)
(* frames.                                                                 *)
THEOREM InterpretersTyped == Spec => []TypeOK
<1>1. ASSUME IInv PROVE TypeOK
  BY <1>1 DEF IInv, Variables, Threading, Bound, TypeOK
<1> QED BY <1>1, InvariantHolds, PTL

(* A frame is in the cache or on one thread's call stacks, never twice, and  *)
(* unless HaltAll stopped a thread no frame is lost: what GetStackFrame      *)
(* takes, ReleaseStackFrame and the way back to native code return once.    *)
THEOREM FramesNeverShared == Spec => []FramesOwned
<1>1. ASSUME IInv PROVE FramesOwned
  <2>1. \A t \in Threads : Chain(t) = Chains[t] /\ Held(t) = HeldBy(Chains[t])
    BY <1>1, TheChain
  <2>2. Ownership(Chains, cached_frames, created) /\ cached_frames \subseteq created
    BY <1>1 DEF IInv, Variables
  <2>3. \A t \in Threads :
          /\ IsInjective(Chain(t))
          /\ Held(t) \cap cached_frames = {}
          /\ \A u \in Threads \ {t} : Held(t) \cap Held(u) = {}
    BY <2>1, <2>2 DEF Ownership
  <2>4. ASSUME halt = {} PROVE created = cached_frames \cup UNION {Held(t) : t \in Threads}
    <3>1. created \subseteq cached_frames \cup AllHeld(Chains)
      BY <1>1, <2>4 DEF IInv, Kept, Stopped
    <3>2. AllHeld(Chains) \subseteq created
      BY <2>2 DEF Ownership, AllHeld
    <3>3. AllHeld(Chains) = UNION {Held(t) : t \in Threads}
      BY <2>1 DEF AllHeld
    <3> QED BY <2>2, <3>1, <3>2, <3>3
  <2> QED BY <2>3, <2>4 DEF FramesOwned
<1> QED BY <1>1, InvariantHolds, PTL

(* A thread holds one frame marked jit_called for each native method that    *)
(* waits for a call it made, and goes on interpreting in none of them: every *)
(* nested interpreter returns to the native code that started it.           *)
THEOREM NativeCallsReturn == Spec => []TrampolinesMatch
<1>1. ASSUME IInv PROVE TrampolinesMatch
  <2> SUFFICES ASSUME NEW t \in Threads
               PROVE  /\ Cardinality(Held(t) \cap jit_called)
                           = Cardinality({i \in DOMAIN levels[t] : levels[t][i].native /\ i # Depth(t)})
                      /\ pc[t] = "run" => cur(t) \notin jit_called
    BY DEF TrampolinesMatch
  <2>1. /\ Shape(OwnStack, levels[t], pc[t], jit_called) /\ levels[t] \in Seq(LevelType)
        /\ cur(t) = Top(levels[t]).cur /\ Depth(t) = Len(levels[t])
    BY <1>1, Here
  <2>2. Marked(levels[t], pc[t], jit_called)
    BY <2>1 DEF Shape
  <2>3. Held(t) = HeldBy(ChainOf(levels[t], pc[t]))
    BY <1>1, TheChain DEF Chains, ChainsOf
  <2>4. Waiting(levels[t]) = {i \in DOMAIN levels[t] : levels[t][i].native /\ i # Depth(t)}
    <3>1. DOMAIN levels[t] = 1..Len(levels[t])
      BY <2>1
    <3> QED BY <2>1, <3>1 DEF Waiting
  <2> QED BY <2>1, <2>2, <2>3, <2>4 DEF Marked
<1> QED BY <1>1, InvariantHolds, PTL

-----------------------------------------------------------------------------
(* Calls and returns *)

(* What every thread is executing, as AbstractCalls sees it. *)
Doing == [t \in Threads |-> Activations(t)]
Executes == Doing = [t \in Threads |-> Of(method, Chains[t]) \o TopOf(levels[t])]

(* The frame native code's nested interpreter starts with is of its method. *)
Matching == \A t \in Threads : Paired(WaitFor(levels[t]), Chains[t], jit_called, method)

(* What AbstractCalls allows a step to do. *)
Goes == Matching' /\ (Calls!Next \/ Doing' = Doing)

LEMMA Executing == IInv => Executes
<1> SUFFICES ASSUME IInv, NEW t \in Threads
             PROVE  Activations(t) = Of(method, Chains[t]) \o TopOf(levels[t])
  BY DEF Executes, Doing
<1>1. Chain(t) = Chains[t] /\ Level(t) = Top(levels[t])
  BY TheChain, Here
<1> QED BY <1>1 DEF Activations, Of, TopOf

LEMMA ExecutingNext == IInv' => Executes'
BY Executing, PTL

LEMMA Joined ==
  ASSUME NEW a \in Seq(Methods), NEW m \in Methods
  PROVE  /\ a \o << >> = a /\ a \o <<m>> = Append(a, m)
         /\ Append(a, m) # << >>
         /\ SubSeq(Append(a, m), 1, Len(Append(a, m)) - 1) = a
         /\ Append(a, m) \o << >> = Append(a, m)
<1>1. Append(a, m) \in Seq(Methods) /\ Len(Append(a, m)) = Len(a) + 1
  OBVIOUS
<1>2. \A b \in Seq(Methods) : b \o << >> = b
  OBVIOUS
<1>3. a \o <<m>> = Append(a, m)
  OBVIOUS
<1>4. SubSeq(Append(a, m), 1, Len(a)) = a
  OBVIOUS
<1> QED BY <1>1, <1>2, <1>3, <1>4

LEMMA Proceeds ==
  ASSUME IInv, IInv', Matching, NEW t \in Threads, NEW ns, NEW q, Moves(t, ns, q),
         \A u \in Threads \ {t} : Agrees(Chains[u], jit_called, method, jit_called', method'),
         Paired(WaitFor(ns), q, jit_called', method')
  PROVE  /\ Matching'
         /\ Doing' = Put(Doing, t, Of(method', q) \o TopOf(ns))
         /\ Doing[t] = Of(method, Chains[t]) \o TopOf(levels[t])
<1>1. levels \in [Threads -> Seq(LevelType)] /\ Chains \in [Threads -> Seq(Frame)]
  BY DEF IInv, Threading, Ownership
<1>2. /\ levels'[t] = ns /\ Chains'[t] = q
      /\ \A u \in Threads \ {t} : levels'[u] = levels[u] /\ Chains'[u] = Chains[u]
  BY <1>1 DEF Moves, Put
<1>3. ASSUME NEW u \in Threads PROVE Paired(WaitFor(levels'[u]), Chains'[u], jit_called', method')
  <2>1. CASE u = t
    BY <1>2, <2>1
  <2>2. CASE u # t
    <3>1. Paired(WaitFor(levels[u]), Chains[u], jit_called, method)
      BY DEF Matching
    <3>2. Paired(WaitFor(levels[u]), Chains[u], jit_called', method')
      BY <2>2, <3>1, PairedStays
    <3> QED BY <1>2, <2>2, <3>2
  <2> QED BY <2>1, <2>2
<1>4. Matching'
  BY <1>3 DEF Matching
<1>5. Doing = [u \in Threads |-> Of(method, Chains[u]) \o TopOf(levels[u])]
  BY Executing DEF Executes
<1>6. Doing' = [u \in Threads |-> Of(method', Chains'[u]) \o TopOf(levels'[u])]
  BY ExecutingNext DEF Executes
<1>7. \A u \in Threads \ {t} : Of(method', Chains[u]) = Of(method, Chains[u])
  BY OfStays
<1> HIDE DEF Doing
<1>8. Doing' = Put(Doing, t, Of(method', q) \o TopOf(ns))
  BY <1>2, <1>5, <1>6, <1>7 DEF Put
<1> QED BY <1>4, <1>5, <1>8

(* The steps of AbstractCalls. *)
LEMMA CallsOrReturns ==
  ASSUME NEW t \in Threads, NEW a \in Seq(Methods), NEW m \in Methods
  PROVE  /\ Doing[t] = a /\ Doing' = Put(Doing, t, Append(a, m)) => Calls!Next
         /\ Doing[t] = Append(a, m) /\ Doing' = Put(Doing, t, a) => Calls!Next
         /\ Doing' = Put(Doing, t, << >>) => Calls!Next
         /\ Doing' = Put(Doing, t, Doing[t]) => Doing' = Doing
<1>1. ASSUME Doing[t] = a, Doing' = Put(Doing, t, Append(a, m)) PROVE Calls!Next
  <2>1. Calls!Call(t)
    BY <1>1 DEF Calls!Call, Doing, Put
  <2> QED BY <2>1 DEF Calls!Next
<1>2. ASSUME Doing[t] = Append(a, m), Doing' = Put(Doing, t, a) PROVE Calls!Next
  <2>1. Doing[t] # << >> /\ a = SubSeq(Doing[t], 1, Len(Doing[t]) - 1)
    BY <1>2, Joined
  <2>2. Calls!Return(t)
    BY <1>2, <2>1 DEF Calls!Return, Doing, Put
  <2> QED BY <2>2 DEF Calls!Next
<1>3. ASSUME Doing' = Put(Doing, t, << >>) PROVE Calls!Next
  <2>1. Calls!Stop(t)
    BY <1>3 DEF Calls!Stop, Doing, Put
  <2> QED BY <2>1 DEF Calls!Next
<1>4. Doing' = Put(Doing, t, Doing[t]) => Doing' = Doing
  BY DEF Put, Doing
<1> QED BY <1>1, <1>2, <1>3, <1>4
LEMMA Typed ==
  ASSUME IInv, NEW t \in Threads
  PROVE  /\ Chains[t] \in Seq(Frame) /\ method \in [Frame -> Methods]
         /\ Of(method, Chains[t]) \in Seq(Methods)
<1>1. Chains[t] \in Seq(Frame) /\ method \in [Frame -> Methods]
  BY DEF IInv, Ownership, Variables
<1> QED BY <1>1, OfTyped

(* No thread's frames change when another frame is taken. *)
LEMMA TakenAgrees ==
  ASSUME IInv, NEW f \in Frame, NEW m \in Methods, NEW jit \in BOOLEAN, GetStackFrame(f, m, jit)
  PROVE  /\ \A u \in Threads : Agrees(Chains[u], jit_called, method, jit_called', method')
         /\ method' \in [Frame -> Methods] /\ method'[f] = m
         /\ f \in jit_called' <=> jit
<1>1. method \in [Frame -> Methods] /\ Chains \in [Threads -> Seq(Frame)]
  BY DEF IInv, Variables, Ownership
<1>2. /\ method' = [method EXCEPT ![f] = m]
      /\ jit_called' = IF jit THEN jit_called \cup {f} ELSE jit_called \ {f}
  BY DEF GetStackFrame
<1>3. \A u \in Threads : f \notin HeldBy(Chains[u])
  BY NotHeld DEF Chains, ChainsOf
<1>4. ASSUME NEW u \in Threads, NEW k \in DOMAIN Chains[u]
      PROVE  /\ Chains[u][k] \in jit_called' <=> Chains[u][k] \in jit_called
             /\ method'[Chains[u][k]] = method[Chains[u][k]]
  <2>1. Chains[u][k] \in Frame /\ Chains[u][k] # f
    BY <1>1, <1>3 DEF HeldBy
  <2> QED BY <1>1, <1>2, <2>1
<1> QED BY <1>1, <1>2, <1>4 DEF Agrees

(* Steps that call nothing and return from nothing. *)
LEMMA GoesOn ==
  ASSUME IInv, IInv', Matching, NEW t \in Threads, NEW ns, Moves(t, ns, Chains[t]),
         Quiet(levels[t], ns), jit_called' = jit_called, method' = method
  PROVE  Goes
<1>1. \A u \in Threads : Agrees(Chains[u], jit_called, method, jit_called', method')
  BY DEF Agrees
<1>2. Paired(WaitFor(ns), Chains[t], jit_called', method')
  BY DEF Matching, Quiet
<1>3. /\ Matching' /\ Doing' = Put(Doing, t, Of(method', Chains[t]) \o TopOf(ns))
      /\ Doing[t] = Of(method, Chains[t]) \o TopOf(levels[t])
  BY ONLY IInv, IInv', Matching, t \in Threads, Moves(t, ns, Chains[t]), <1>1, <1>2, Proceeds
<1>4. Doing' = Put(Doing, t, Doing[t])
  BY <1>3 DEF Quiet
<1>5. Doing' = Doing
  BY <1>4 DEF Put, Doing
<1> QED BY <1>3, <1>5 DEF Goes

(* CallInterpreted and Execute *)
LEMMA FrameAdded ==
  ASSUME IInv, IInv', Matching, NEW t \in Threads, NEW f \in Frame, NEW m \in Methods, NEW ns, NEW q,
         GetStackFrame(f, m, FALSE), Longer(q, Chains[t], f),
         Moves(t, ns, q), Quiet(levels[t], ns), TopOf(ns) = << >>
  PROVE  Goes
<1>1. /\ \A u \in Threads : Agrees(Chains[u], jit_called, method, jit_called', method')
      /\ method' \in [Frame -> Methods] /\ method'[f] = m /\ f \notin jit_called'
  BY TakenAgrees
<1>2. Paired(WaitFor(levels[t]), Chains[t], jit_called', method')
  BY <1>1, PairedStays DEF Matching
<1>3. Paired(WaitFor(ns), q, jit_called', method')
  <2>1. Paired(WaitFor(ns), Chains[t], jit_called', method') /\ f \notin jit_called'
    BY <1>1, <1>2 DEF Quiet
  <2> QED BY ONLY <2>1, f \in Frame, Longer(q, Chains[t], f), PairedGrows
<1>4. /\ Matching' /\ Doing' = Put(Doing, t, Of(method', q) \o TopOf(ns))
      /\ Doing[t] = Of(method, Chains[t]) \o TopOf(levels[t])
  BY ONLY IInv, IInv', Matching, t \in Threads, Moves(t, ns, q), <1>1, <1>3, Proceeds
<1>5. PICK a \in Seq(Methods) : a = Of(method, Chains[t])
  BY Typed
<1>6. Of(method', q) = Append(a, m)
  <2>1. Of(method', Chains[t]) = a
    BY <1>1, <1>5, OfStays
  <2>2. Of(method', q) = Append(Of(method', Chains[t]), method'[f])
    BY ONLY <1>1, f \in Frame, Longer(q, Chains[t], f), OfGrows
  <2> QED BY <1>1, <2>1, <2>2
<1>7. Doing[t] = a /\ Doing' = Put(Doing, t, Append(a, m))
  <2>1. TopOf(levels[t]) = << >>
    BY DEF Quiet
  <2> QED BY <1>4, <1>5, <1>6, <2>1, Joined
<1>8. Calls!Next
  BY <1>7, CallsOrReturns
<1> QED BY <1>4, <1>8 DEF Goes
(* StackCallback: the frame taken stands for the native code from then on. *)
LEMMA CalledBack ==
  ASSUME IInv, IInv', Matching, NEW t \in Threads, NEW f \in Frame, NEW me \in Methods,
         NEW k, NEW ns, NEW q, GetStackFrame(f, me, TRUE), Longer(q, Chains[t], f),
         Moves(t, ns, q), WaitsToo(WaitFor(ns), WaitFor(levels[t]), k, me),
         TopOf(levels[t]) = <<me>>, TopOf(ns) = << >>
  PROVE  Goes
<1>1. /\ \A u \in Threads : Agrees(Chains[u], jit_called, method, jit_called', method')
      /\ method' \in [Frame -> Methods] /\ method'[f] = me /\ f \in jit_called'
  BY TakenAgrees
<1>2. Paired(WaitFor(levels[t]), Chains[t], jit_called', method')
  BY <1>1, PairedStays DEF Matching
<1>3. Paired(WaitFor(ns), q, jit_called', method')
  BY ONLY <1>1, <1>2, f \in Frame, Longer(q, Chains[t], f),
          WaitsToo(WaitFor(ns), WaitFor(levels[t]), k, me), PairedCalls
<1>4. /\ Matching' /\ Doing' = Put(Doing, t, Of(method', q) \o TopOf(ns))
      /\ Doing[t] = Of(method, Chains[t]) \o TopOf(levels[t])
  BY ONLY IInv, IInv', Matching, t \in Threads, Moves(t, ns, q), <1>1, <1>3, Proceeds
<1>5. PICK a \in Seq(Methods) : a = Of(method, Chains[t])
  BY Typed
<1>6. Of(method', q) = Append(a, me)
  <2>1. Of(method', Chains[t]) = a
    BY <1>1, <1>5, OfStays
  <2>2. Of(method', q) = Append(Of(method', Chains[t]), method'[f])
    BY ONLY <1>1, f \in Frame, Longer(q, Chains[t], f), OfGrows
  <2> QED BY <1>1, <2>1, <2>2
<1>7. Doing' = Put(Doing, t, Doing[t])
  <2>1. Doing[t] = a \o <<me>> /\ Doing' = Put(Doing, t, Append(a, me) \o << >>)
    BY <1>4, <1>5, <1>6
  <2> QED BY <2>1, Joined
<1>8. Doing' = Doing
  BY <1>7, CallsOrReturns, <1>5
<1> QED BY <1>4, <1>8 DEF Goes

(* LeaveToNative: and the native code goes on. *)
LEMMA LeftToNative ==
  ASSUME IInv, IInv', Matching, NEW t \in Threads, NEW f \in Frame, NEW me,
         NEW k, NEW ns, NEW q, Longer(Chains[t], q, f), f \in jit_called,
         jit_called' = jit_called \ {f}, method' = method,
         Moves(t, ns, q), WaitsToo(WaitFor(levels[t]), WaitFor(ns), k, me),
         TopOf(levels[t]) = << >>, TopOf(ns) = <<me>>
  PROVE  Goes
<1>1. Paired(WaitFor(ns), q, jit_called, method) /\ method[f] = me
  <2>1. Paired(WaitFor(levels[t]), Chains[t], jit_called, method)
    BY DEF Matching
  <2> QED BY ONLY <2>1, f \in Frame, f \in jit_called, Longer(Chains[t], q, f),
                  WaitsToo(WaitFor(levels[t]), WaitFor(ns), k, me), PairedLeaves
<1>2. f \in HeldBy(Chains[t]) /\ \A h \in DOMAIN q : q[h] # f
  <2>1. IsInjective(Chains[t])
    BY DEF IInv, Ownership
  <2> QED BY ONLY <2>1, f \in Frame, Longer(Chains[t], q, f), LastOnce
<1>3. \A u \in Threads \ {t} : \A h \in DOMAIN Chains[u] : Chains[u][h] # f
  <2>1. \A u \in Threads \ {t} : HeldBy(Chains[u]) \cap HeldBy(Chains[t]) = {}
    BY DEF IInv, Ownership
  <2> QED BY <1>2, <2>1 DEF HeldBy
<1>4. Agrees(q, jit_called, method, jit_called', method')
  BY <1>2 DEF Agrees
<1>5. \A u \in Threads \ {t} : Agrees(Chains[u], jit_called, method, jit_called', method')
  BY <1>3 DEF Agrees
<1>6. Paired(WaitFor(ns), q, jit_called', method')
  BY <1>1, <1>4, PairedStays
<1>7. /\ Matching' /\ Doing' = Put(Doing, t, Of(method', q) \o TopOf(ns))
      /\ Doing[t] = Of(method, Chains[t]) \o TopOf(levels[t])
  BY ONLY IInv, IInv', Matching, t \in Threads, Moves(t, ns, q), <1>5, <1>6, Proceeds
<1>8. PICK a \in Seq(Methods) : a = Of(method, q)
  BY Typed, OfTyped DEF Longer
<1>9. Of(method, Chains[t]) = Append(a, me) /\ me \in Methods
  <2>1. method \in [Frame -> Methods]
    BY Typed
  <2>2. Of(method, Chains[t]) = Append(Of(method, q), method[f])
    BY ONLY <2>1, f \in Frame, Longer(Chains[t], q, f), OfGrows
  <2> QED BY <1>1, <1>8, <2>1, <2>2
<1>10. Doing' = Put(Doing, t, Doing[t])
  <2>1. Doing[t] = Append(a, me) \o << >> /\ Doing' = Put(Doing, t, a \o <<me>>)
    BY <1>7, <1>8, <1>9
  <2> QED BY <1>9, <2>1, Joined
<1>11. Doing' = Doing
  BY <1>8, <1>9, <1>10, CallsOrReturns
<1> QED BY <1>7, <1>11 DEF Goes

(* CallNative and NativeReturn *)
LEMMA NativeCalled ==
  ASSUME IInv, IInv', Matching, NEW t \in Threads, NEW m \in Methods, NEW ns,
         Moves(t, ns, Chains[t]), WaitFor(ns) = WaitFor(levels[t]),
         jit_called' = jit_called, method' = method
  PROVE  /\ TopOf(levels[t]) = << >> /\ TopOf(ns) = <<m>> => Goes
         /\ TopOf(levels[t]) = <<m>> /\ TopOf(ns) = << >> => Goes
<1>1. \A u \in Threads : Agrees(Chains[u], jit_called, method, jit_called', method')
  BY DEF Agrees
<1>2. Paired(WaitFor(ns), Chains[t], jit_called', method')
  BY DEF Matching
<1>3. /\ Matching' /\ Doing' = Put(Doing, t, Of(method', Chains[t]) \o TopOf(ns))
      /\ Doing[t] = Of(method, Chains[t]) \o TopOf(levels[t])
  BY ONLY IInv, IInv', Matching, t \in Threads, Moves(t, ns, Chains[t]), <1>1, <1>2, Proceeds
<1>4. PICK a \in Seq(Methods) : a = Of(method, Chains[t])
  BY Typed
<1>5. ASSUME TopOf(levels[t]) = << >>, TopOf(ns) = <<m>> PROVE Goes
  <2>1. Doing[t] = a \o << >> /\ Doing' = Put(Doing, t, a \o <<m>>)
    BY <1>3, <1>4, <1>5
  <2>2. Doing[t] = a /\ Doing' = Put(Doing, t, Append(a, m))
    BY <2>1, Joined
  <2> QED BY <1>3, <2>2, CallsOrReturns DEF Goes
<1>6. ASSUME TopOf(levels[t]) = <<m>>, TopOf(ns) = << >> PROVE Goes
  <2>1. Doing[t] = a \o <<m>> /\ Doing' = Put(Doing, t, a \o << >>)
    BY <1>3, <1>4, <1>6
  <2>2. Doing[t] = Append(a, m) /\ Doing' = Put(Doing, t, a)
    BY <2>1, Joined
  <2> QED BY <1>3, <2>2, CallsOrReturns DEF Goes
<1> QED BY <1>5, <1>6

(* ReleaseStackFrame *)
LEMMA FrameReleased ==
  ASSUME IInv, IInv', Matching, NEW t \in Threads, NEW f \in Frame, f \notin jit_called, NEW q,
         Moves(t, levels[t], q), Longer(Chains[t], q, f), TopOf(levels[t]) = << >>,
         jit_called' = jit_called, method' = method
  PROVE  Goes
<1>1. \A u \in Threads : Agrees(Chains[u], jit_called, method, jit_called', method')
  BY DEF Agrees
<1>2. Paired(WaitFor(levels[t]), q, jit_called', method')
  <2>1. Paired(WaitFor(levels[t]), Chains[t], jit_called, method)
    BY DEF Matching
  <2>2. Paired(WaitFor(levels[t]), q, jit_called, method)
    BY ONLY <2>1, f \in Frame, f \notin jit_called, Longer(Chains[t], q, f), PairedShrinks
  <2> QED BY <2>2
<1>3. /\ Matching' /\ Doing' = Put(Doing, t, Of(method', q) \o TopOf(levels[t]))
      /\ Doing[t] = Of(method, Chains[t]) \o TopOf(levels[t])
  BY ONLY IInv, IInv', Matching, t \in Threads, Moves(t, levels[t], q), <1>1, <1>2, Proceeds
<1>4. PICK a \in Seq(Methods) : a = Of(method, q)
  BY Typed, OfTyped DEF Longer
<1>5. PICK m \in Methods : m = method[f]
  BY Typed
<1>6. Of(method, Chains[t]) = Append(a, m)
  <2>1. method \in [Frame -> Methods]
    BY Typed
  <2>2. Of(method, Chains[t]) = Append(Of(method, q), method[f])
    BY ONLY <2>1, f \in Frame, Longer(Chains[t], q, f), OfGrows
  <2> QED BY <1>4, <1>5, <2>2
<1>7. Doing[t] = Append(a, m) /\ Doing' = Put(Doing, t, a)
  BY <1>3, <1>4, <1>6, Joined
<1> QED BY <1>3, <1>7, CallsOrReturns DEF Goes

(* No frame, no native method that waits. *)
LEMMA NothingPaired ==
  ASSUME NEW jit, NEW mt
  PROVE  Paired(<< >>, << >>, jit, mt)
<1>1. PICK g : g = << >>
  OBVIOUS
<1>2. g \in [DOMAIN << >> -> DOMAIN << >>]
  BY <1>1
<1>3. Places(g, << >>, << >>, jit, mt)
  BY DEF Places
<1> QED BY <1>2, <1>3 DEF Paired

(* StopHalted *)
LEMMA ThreadStopped ==
  ASSUME IInv, IInv', Matching, NEW t \in Threads, Moves(t, << >>, << >>),
         jit_called' = jit_called, method' = method
  PROVE  Goes
<1>1. \A u \in Threads : Agrees(Chains[u], jit_called, method, jit_called', method')
  BY DEF Agrees
<1>2. WaitFor(<< >>) = << >> /\ TopOf(<< >>) = << >>
  BY NoneWaits
<1>3. Paired(WaitFor(<< >>), << >>, jit_called', method')
  BY NothingPaired, <1>2
<1>4. Matching' /\ Doing' = Put(Doing, t, Of(method', << >>) \o TopOf(<< >>))
  BY ONLY IInv, IInv', Matching, t \in Threads, Moves(t, << >>, << >>), <1>1, <1>3, Proceeds
<1>5. Of(method', << >>) \o << >> = << >>
  BY DEF Of
<1>6. Calls!Stop(t)
  BY <1>2, <1>4, <1>5 DEF Calls!Stop, Doing, Put
<1> QED BY <1>4, <1>6 DEF Goes, Calls!Next
LEMMA StepGoes ==
  ASSUME IInv, Matching, [Next]_vars
  PROVE  Goes
<1>0. IInv'
  BY StepKeeps
<1>1. ASSUME UNCHANGED <<levels, pc, method, jit_called>> PROVE Goes
  <2>1. Chains' = Chains
    BY <1>1 DEF Chains
  <2>2. Matching'
    BY <1>1, <2>1 DEF Matching
  <2>3. Executes /\ Executes'
    BY <1>0, Executing, ExecutingNext
  <2>4. Doing' = Doing
    BY ONLY <1>1, <2>1, <2>3 DEF Executes
  <2> QED BY <2>2, <2>4 DEF Goes
<1>2. CASE UNCHANGED vars
  BY <1>1, <1>2 DEF vars, frameVars
<1>3. CASE Next
  <2>1. Step /\ OwnStack' = OwnStack
    BY <1>3 DEF Next
  <2>2. \A t \in Threads : Quiet(levels[t], levels[t])
    BY DEF Quiet
  <2>3. ASSUME NEW t \in Threads, Exceeded(t) \/ Fails(t) PROVE Goes
    BY <1>1, <2>3 DEF Exceeded, Fails, frameVars
  <2>4. CASE Exit
    BY <1>1, <2>4 DEF Exit, frameVars
  <2>5. ASSUME NEW t \in Threads, NativeReturn(t) PROVE Goes
    <3>1. PICK ns :
            /\ Moves(t, ns, Chains[t]) /\ WaitFor(ns) = WaitFor(levels[t]) /\ TopOf(ns) = << >>
            /\ TopOf(levels[t]) = <<Level(t).method>> /\ Level(t).method \in Methods
      BY <2>1, <2>5, NativeReturnKeeps
    <3>2. jit_called' = jit_called /\ method' = method
      BY <2>5 DEF NativeReturn, frameVars
    <3>3. PICK m \in Methods : m = Level(t).method
      BY <3>1
    <3> QED BY <1>0, <3>1, <3>2, <3>3, NativeCalled
  <2>6. ASSUME NEW t \in Threads, LeaveToNative(t) PROVE Goes
    <3>1. PICK ns, q, k, me :
            /\ Moves(t, ns, q) /\ Longer(Chains[t], q, cur(t))
            /\ cur(t) \in Frame /\ cur(t) \in jit_called
            /\ jit_called' = jit_called \ {cur(t)} /\ method' = method
            /\ WaitsToo(WaitFor(levels[t]), WaitFor(ns), k, me)
            /\ TopOf(levels[t]) = << >> /\ TopOf(ns) = <<me>>
      BY <2>1, <2>6, LeaveToNativeKeeps
    <3>2. PICK f \in Frame : f = cur(t)
      BY <3>1
    <3> QED BY <1>0, <3>1, <3>2, LeftToNative
  <2>7. ASSUME NEW t \in Threads, Continue(t) PROVE Goes
    <3>1. Moves(t, levels[t], Chains[t])
      BY <2>1, <2>7, ContinueKeeps
    <3>2. jit_called' = jit_called /\ method' = method
      BY <2>7 DEF Continue, frameVars
    <3> QED BY <1>0, <2>2, <3>1, <3>2, GoesOn
  <2>8. ASSUME NEW t \in Threads, ReleaseStackFrame(t) PROVE Goes
    <3>1. PICK q :
            /\ Moves(t, levels[t], q) /\ Longer(Chains[t], q, cur(t))
            /\ cur(t) \in Frame /\ cur(t) \notin jit_called /\ TopOf(levels[t]) = << >>
      BY <2>1, <2>8, ReleaseStackFrameKeeps
    <3>2. jit_called' = jit_called /\ method' = method
      BY <2>8 DEF ReleaseStackFrame
    <3>3. PICK f \in Frame : f = cur(t)
      BY <3>1
    <3> QED BY <1>0, <3>1, <3>2, <3>3, FrameReleased
  <2>9. ASSUME NEW t \in Threads, RestoreCaller(t) PROVE Goes
    <3>1. PICK ns : Moves(t, ns, Chains[t]) /\ Quiet(levels[t], ns)
      BY <2>1, <2>9, RestoreCallerKeeps
    <3>2. jit_called' = jit_called /\ method' = method
      BY <2>9 DEF RestoreCaller, frameVars
    <3> QED BY <1>0, <3>1, <3>2, GoesOn
  <2>10. ASSUME NEW t \in Threads, LeaveInterpreter(t) PROVE Goes
    <3>1. PICK ns : Moves(t, ns, Chains[t]) /\ Quiet(levels[t], ns)
      BY <2>1, <2>10, LeaveInterpreterKeeps
    <3>2. jit_called' = jit_called /\ method' = method
      BY <2>10 DEF LeaveInterpreter, frameVars
    <3> QED BY <1>0, <3>1, <3>2, GoesOn
  <2>11. ASSUME NEW t \in Threads, AddThread(t) \/ RemoveThread(t) PROVE Goes
    <3>1. Moves(t, levels[t], Chains[t])
      BY <2>1, <2>11, AddThreadKeeps, RemoveThreadKeeps
    <3>2. jit_called' = jit_called /\ method' = method
      BY <2>11 DEF AddThread, RemoveThread, frameVars
    <3> QED BY <1>0, <2>2, <3>1, <3>2, GoesOn
  <2>12. ASSUME NEW t \in Threads, StopHalted(t) PROVE Goes
    <3>1. Moves(t, << >>, << >>)
      BY <2>1, <2>12, StopHaltedKeeps
    <3>2. jit_called' = jit_called /\ method' = method
      BY <2>12 DEF StopHalted, frameVars
    <3> QED BY <1>0, <3>1, <3>2, ThreadStopped
  <2>13. ASSUME NEW t \in Threads, NEW m \in Methods, CallInterpreted(t, m) \/ Execute(t, m) PROVE Goes
    <3>1. PICK f, ns, q :
            /\ f \in Frame /\ GetStackFrame(f, m, FALSE) /\ Longer(q, Chains[t], f)
            /\ Moves(t, ns, q) /\ Quiet(levels[t], ns) /\ TopOf(ns) = << >>
      BY <2>1, <2>13, CallInterpretedKeeps, ExecuteKeeps
    <3> QED BY <1>0, <3>1, FrameAdded
  <2>14. ASSUME NEW t \in Threads, NEW m \in Methods, CallNative(t, m) PROVE Goes
    <3>1. PICK ns :
            /\ Moves(t, ns, Chains[t]) /\ WaitFor(ns) = WaitFor(levels[t])
            /\ TopOf(levels[t]) = << >> /\ TopOf(ns) = <<m>>
      BY <2>1, <2>14, CallNativeKeeps
    <3>2. jit_called' = jit_called /\ method' = method
      BY <2>14 DEF CallNative, frameVars
    <3> QED BY <1>0, <3>1, <3>2, NativeCalled
  <2>15. ASSUME NEW t \in Threads, NEW m \in Methods, StackCallback(t, m) PROVE Goes
    <3>1. PICK f, ns, q :
            /\ f \in Frame /\ GetStackFrame(f, Level(t).method, TRUE) /\ Longer(q, Chains[t], f)
            /\ Moves(t, ns, q) /\ TopOf(ns) = << >>
            /\ WaitsToo(WaitFor(ns), WaitFor(levels[t]), Depth(t), Level(t).method)
            /\ TopOf(levels[t]) = <<Level(t).method>> /\ Level(t).method \in Methods
      BY <2>1, <2>15, StackCallbackKeeps
    <3>2. PICK me, k : me \in Methods /\ me = Level(t).method /\ k = Depth(t)
      BY <3>1
    <3> QED BY <1>0, <3>1, <3>2, CalledBack
  <2>16. ASSUME NEW t \in Threads, NEW u \in Threads, ProcessAsyncMethodCall(t, u) PROVE Goes
    <3>1. Moves(u, levels[u], Chains[u])
      BY <2>1, <2>16, ProcessAsyncMethodCallKeeps
    <3>2. jit_called' = jit_called /\ method' = method
      BY <2>16 DEF ProcessAsyncMethodCall, frameVars
    <3> QED BY <1>0, <2>2, <3>1, <3>2, GoesOn
  <2>17. CASE HaltAll
    <3>1. Moves(Main, levels[Main], Chains[Main]) /\ Main \in Threads
      BY <2>1, <2>17, HaltAllKeeps, InterpreterAssumption
    <3>2. jit_called' = jit_called /\ method' = method
      BY <2>17 DEF HaltAll, frameVars
    <3> QED BY <1>0, <2>2, <3>1, <3>2, GoesOn
  <2> QED BY <2>1, <2>3, <2>4, <2>5, <2>6, <2>7, <2>8, <2>9, <2>10, <2>11, <2>12,
             <2>13, <2>14, <2>15, <2>16, <2>17 DEF Step
<1> QED BY <1>2, <1>3
(* No frame is marked, no native method waits. *)
LEMMA UnmarkedPaired ==
  ASSUME NEW c, NEW mt
  PROVE  Paired(<< >>, c, {}, mt)
<1>1. << >> \in [DOMAIN << >> -> DOMAIN c]
  OBVIOUS
<1>2. Places(<< >>, << >>, c, {}, mt)
  BY DEF Places
<1> QED BY <1>1, <1>2 DEF Paired

LEMMA BeginsToo == Init => Matching /\ Calls!Init
<1> SUFFICES ASSUME Init PROVE Matching /\ Calls!Init
  OBVIOUS
<1>1. PICK f \in Preload, m \in Methods \ Native :
        levels = [t \in Threads |-> IF t = Main THEN <<InterpreterOn(f, m)>> ELSE << >>]
  BY DEF Init
<1>2. /\ IInv /\ jit_called = {} /\ OwnStack \in BOOLEAN /\ Main \in Threads /\ f \in Frame
      /\ pc = [t \in Threads |-> IF t = Main THEN "run" ELSE "new"]
  BY <1>1, Begins, InterpreterAssumption DEF Init
<1>3. PICK ns : ns = <<InterpreterOn(f, m)>>
  OBVIOUS
<1>4. ChainOf(ns, "run") = Append(<< >>, f)
  <2>1. OwnStack \in BOOLEAN /\ f \in Frame /\ m \in Methods /\ f \notin jit_called
    BY <1>2
  <2> QED BY ONLY <1>3, <2>1, Start
<1>5. WaitFor(ns) = << >> /\ TopOf(ns) = << >>
  <2>1. Len(ns) = 1 /\ ns # << >> /\ Top(ns) = InterpreterOn(f, m)
    BY <1>3 DEF Top
  <2>2. Waiting(ns) = {} /\ ~ Top(ns).native
    BY <2>1 DEF Waiting, InterpreterOn
  <2> QED BY <2>2, NoneWaits DEF WaitFor, TopOf, Waiting
<1>6. ASSUME NEW t \in Threads
      PROVE  /\ WaitFor(levels[t]) = << >> /\ TopOf(levels[t]) = << >>
             /\ Chains[t] = (IF t = Main THEN Append(<< >>, f) ELSE << >>)
  <2>1. CASE t = Main
    <3>1. levels[t] = ns /\ pc[t] = "run"
      BY <1>1, <1>2, <1>3, <2>1
    <3> QED BY <1>4, <1>5, <2>1, <3>1 DEF Chains, ChainsOf
  <2>2. CASE t # Main
    <3>1. levels[t] = << >>
      BY <1>1, <2>2
    <3>2. ChainOf(<< >>, pc[t]) = << >>
      BY FlatEmpty DEF ChainOf, Idle
    <3> QED BY <2>2, <3>1, <3>2, NoneWaits DEF Chains, ChainsOf
  <2> QED BY <2>1, <2>2
<1>7. Matching
  <2> SUFFICES ASSUME NEW t \in Threads PROVE Paired(<< >>, Chains[t], {}, method)
    BY <1>2, <1>6 DEF Matching
  <2> QED BY UnmarkedPaired
<1>8. ASSUME NEW t \in Threads PROVE Doing[t] \in {<<n>> : n \in Methods} \cup {<< >>}
  <2>1. Doing[t] = Of(method, Chains[t]) \o << >>
    BY <1>2, <1>6, Executing DEF Executes
  <2>2. CASE t = Main
    <3>1. PICK n \in Methods : n = method[f]
      BY <1>2, Typed
    <3>2. Of(method, Append(<< >>, f)) = <<n>>
      BY <1>2, <3>1 DEF Of
    <3> QED BY <1>6, <2>1, <2>2, <3>2
  <2>3. CASE t # Main
    <3>1. Of(method, << >>) = << >>
      BY DEF Of
    <3> QED BY <1>6, <2>1, <2>3, <3>1
  <2> QED BY <2>2, <2>3
<1>9. Calls!Init
  BY <1>8 DEF Calls!Init, Doing
<1> QED BY <1>7, <1>9

(* Whoever executes the methods - the interpreter, native code, or the       *)
(* interpreter native code starts for one call - a call starts the method   *)
(* called on top of its caller, and a return goes back to that caller.      *)
THEOREM CallsImplemented == Spec => CallsSpec
<1>1. Init => IInv /\ Matching /\ Calls!Init
  BY Begins, BeginsToo
<1>2. IInv /\ Matching /\ [Next]_vars =>
        IInv' /\ Matching' /\ [Calls!Next]_([t \in Threads |-> Activations(t)])
  BY StepKeeps, StepGoes DEF Goes, Doing
<1> QED BY <1>1, <1>2, PTL DEF Spec, CallsSpec, Calls!Spec
=============================================================================
