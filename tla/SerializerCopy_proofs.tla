------------------------ MODULE SerializerCopy_proofs ------------------------
(***************************************************************************)
(* What the deserializer makes of what the serializer wrote, for object    *)
(* graphs of every shape: copies of the blocks, one for each, that refer   *)
(* to one another as these do.                                             *)
(***************************************************************************)
EXTENDS Serializer_proofs

-----------------------------------------------------------------------------
(* What the words of an object are read from *)

\* The words of a variable have its type.
LEMMA WordsAt ==
  ASSUME NEW h \in Heaps, NEW b \in DOMAIN h.heap, NEW block, block = h.heap[b], block.cls # 0,
         NEW types, types = Classes[block.cls], NEW all, all = WordTypes(block.cls),
         NEW j \in 1..Len(types), NEW i \in 1..Size(types[j])
  PROVE  Words0(types, j - 1) + i <= Words(types) /\ all[Words0(types, j - 1) + i] = types[j]
<1>1. block.cls \in DOMAIN Classes
  <2>1. block \in [cls : {0} \cup DOMAIN Classes, mem : Seq(Int)]
    BY Program
  <2> QED BY <2>1
<1>2. IsSeq(types)
  BY <1>1, SerializerAssumption DEF IsSeq
<1>3. PICK k : k = Len(types)
  OBVIOUS
<1>4. k \in Nat /\ k <= Len(types)
  BY <1>2, <1>3, SeqHas
<1>5. all = Types0(types, k) /\ Words(types) = Words0(types, k)
  BY <1>2, <1>3, AllOf DEF WordTypes
<1>6. \A n \in 1..k : \A l \in 1..Size(types[n]) :
        /\ Words0(types, n - 1) + l <= Words0(types, k)
        /\ Types0(types, k)[Words0(types, n - 1) + l] = types[n]
  BY <1>2, <1>4, Layout, ZenonT(60)
<1> QED BY <1>3, <1>5, <1>6

\* item is what is written for variable n of a block, the words from p on
IsVariable(block, n, p, item) ==
  LET types == Classes[block.cls] IN
  /\ p \in Nat /\ p >= 1 /\ Place(types, n + 1) = p + Size(types[n])
  /\ item.type = types[n] /\ IsSeq(item.words) /\ Len(item.words) = Size(types[n])
  /\ \A i \in 1..Size(types[n]) :
       /\ p + i - 1 \in DOMAIN block.mem /\ WordTypes(block.cls)[p + i - 1] = types[n]
       /\ item.words[i] = block.mem[p + i - 1]

\* Where a variable of an object that was met is, in its block and in what is written.
LEMMA VariableAt ==
  ASSUME NEW h \in Heaps, NEW met, Good(h, met), NEW b \in met, NEW n \in 1..Len(Classes[h.heap[b].cls])
  PROVE  IsVariable(h.heap[b], n, Place(Classes[h.heap[b].cls], n), Items(h.heap[b])[n])
<1>1. PICK block : block = h.heap[b]
  OBVIOUS
<1>2. PICK types : types = Classes[block.cls]
  OBVIOUS
<1>3. PICK p : p = Place(types, n)
  OBVIOUS
<1>4. PICK item : item = Items(block)[n]
  OBVIOUS
<1>5. n \in 1..Len(types)
  BY <1>1, <1>2
<1>6. b \in DOMAIN h.heap /\ block.cls # 0
  BY <1>1, MetBlock
<1>7. PICK all : all = WordTypes(block.cls)
  OBVIOUS
<1>8. IsSeq(types) /\ Len(types) \in Nat /\ DOMAIN types = 1..Len(types)
  BY <1>6, <1>7, <1>1, <1>2, ObjectWords
<1>9. IsSeq(block.mem) /\ Len(block.mem) = Words(types) /\ Words(types) \in Nat /\ DOMAIN block.mem = 1..Words(types)
  BY <1>6, <1>7, <1>1, <1>2, ObjectWords
<1>10. \A j \in 1..Len(types) : \A i \in 1..Size(types[j]) :
        /\ Words0(types, j - 1) + i <= Words(types) /\ all[Words0(types, j - 1) + i] = types[j]
  <2> SUFFICES ASSUME NEW j \in 1..Len(types), NEW i \in 1..Size(types[j])
               PROVE  /\ Words0(types, j - 1) + i <= Words(types) /\ all[Words0(types, j - 1) + i] = types[j]
    OBVIOUS
  <2> QED BY <1>6, <1>7, <1>1, <1>2, WordsAt, SMTT(30)
<1>11. \A j \in 1..Len(types) : Words0(types, j - 1) \in Nat
  BY <1>6, <1>7, <1>1, <1>2, ObjectWords
<1>12. \A j \in 1..Len(types) : types[j] # "OBJ_ARY_PARM"
  BY <1>1, <1>2, MetBlock
<1>13. PICK q : q = Words0(types, n - 1)
  OBVIOUS
<1>14. q \in Nat
  BY <1>11, <1>13, <1>5
<1>15. n - 1 \in Nat /\ n - 1 <= Len(types) /\ n \in Nat /\ n <= Len(types) /\ (n - 1) + 1 = n /\ (n + 1) - 1 = n
  BY <1>8, <1>5
<1>16. p = 1 + q
  <2>1. Place(types, n) = 1 + Ahead0(types, n - 1)
    BY <1>8, AllOf
  <2>2. Ahead0(types, n - 1) = Words0(types, n - 1)
    BY <1>8, <1>12, <1>15, InPlace
  <2> QED BY <1>13, <1>3, <2>1, <2>2
<1>17. PICK size : size = Size(types[n])
  OBVIOUS
<1>18. size \in {1, 2} /\ Step(types[n]) = size
  <2>1. types[n] # "OBJ_ARY_PARM"
    BY <1>12, <1>5
  <2> QED BY <1>17, <2>1 DEF Size, Step
<1>19. Place(types, n + 1) = p + size
  <2>1. Place(types, n + 1) = 1 + Ahead0(types, n)
    <3>1. \A i : Place(types, i) = 1 + Ahead0(types, i - 1)
      BY <1>8, AllOf
    <3>2. PICK i : i = n + 1
      OBVIOUS
    <3>3. i - 1 = n
      BY <1>15, <3>2
    <3> QED BY <3>1, <3>2, <3>3
  <2>2. Ahead0(types, n) = Words0(types, n)
    BY <1>8, <1>12, <1>15, InPlace
  <2>3. Words0(types, n) = AddSize(q, types[n])
    <3>1. PICK k : k = n - 1
      OBVIOUS
    <3>2. k \in Nat /\ k + 1 <= Len(types) /\ k + 1 = n
      BY <1>15, <3>1
    <3>3. Words0(types, k + 1) = AddSize(Words0(types, k), types[k + 1])
      BY <1>8, <3>2, OneMoreOf
    <3> QED BY <1>13, <3>1, <3>2, <3>3
  <2>4. Words0(types, n) = q + size
    BY <1>17, <2>3 DEF AddSize
  <2> QED BY <1>14, <1>16, <1>18, <2>1, <2>2, <2>4
<1>20. \A i \in 1..size : q + i <= Words(types) /\ all[q + i] = types[n]
  BY <1>10, <1>13, <1>17, <1>5
<1>21. ASSUME NEW i \in 1..size
       PROVE  p + i - 1 \in DOMAIN block.mem /\ all[p + i - 1] = types[n]
  <2>1. p + i - 1 = q + i
    BY <1>14, <1>16, <1>18
  <2>2. q + i <= Words(types) /\ all[q + i] = types[n]
    BY <1>20
  <2>3. q + i \in 1..Words(types)
    BY <1>9, <1>14, <1>18, <2>2
  <2> QED BY <1>9, <2>1, <2>2, <2>3
<1>22. PICK words : words = SubSeq(block.mem, p, p + size - 1)
  OBVIOUS
<1>23. item = Item(types[n], words)
  <2>1. Items(block)[n] = Item(types[n], SubSeq(block.mem, Place(types, n), Place(types, n) + Step(types[n]) - 1))
    <3>1. n \in DOMAIN types
      BY <1>8, <1>5
    <3> QED BY <1>6, <1>2, <3>1 DEF Items
  <2> QED BY <1>18, <1>22, <1>3, <1>4, <2>1
<1>24. PICK e : e = p + size - 1
  OBVIOUS
<1>25. e \in Nat /\ e <= Len(block.mem) /\ p \in 1..(e + 1) /\ e - p + 1 = size
  <2>1. size \in 1..size
    BY <1>18
  <2>2. q + size <= Words(types)
    BY <1>20, <2>1
  <2> QED BY <1>9, <1>14, <1>16, <1>18, <1>24, <2>2
<1>26. /\ IsSeq(words) /\ Len(words) = size
       /\ \A i \in 1..size : words[i] = block.mem[p + i - 1]
  <2>1. words = SubSeq(block.mem, p, e)
    BY <1>22, <1>24
  <2>2. PICK mem : mem = block.mem
    OBVIOUS
  <2>3. IsSeq(mem) /\ e \in Nat /\ e <= Len(mem) /\ p \in 1..(e + 1)
    BY <1>9, <1>25, <2>2
  <2>4. /\ IsSeq(SubSeq(mem, p, e)) /\ Len(SubSeq(mem, p, e)) = e - p + 1
        /\ \A i \in 1..(e - p + 1) : SubSeq(mem, p, e)[i] = mem[p + i - 1]
    BY <2>3, PartOf
  <2> QED BY <1>25, <2>1, <2>2, <2>4
<1>27. item.type = types[n] /\ item.words = words
  BY <1>23 DEF Item
<1>28. p \in Nat /\ p >= 1
  BY <1>14, <1>16
<1>29. \A i \in 1..size : p + i - 1 \in DOMAIN block.mem /\ all[p + i - 1] = types[n]
  BY <1>21
<1> HIDE DEF Place, Size
<1>30. /\ Place(types, n + 1) = p + Size(types[n])
       /\ IsSeq(item.words) /\ Len(item.words) = Size(types[n])
  BY <1>17, <1>19, <1>26, <1>27
<1>31. \A i \in 1..Size(types[n]) :
              /\ p + i - 1 \in DOMAIN block.mem /\ WordTypes(block.cls)[p + i - 1] = types[n]
              /\ item.words[i] = block.mem[p + i - 1]
  BY <1>7, <1>17, <1>26, <1>27, <1>29
<1>32. IsVariable(block, n, p, item)
  BY <1>27, <1>28, <1>30, <1>31, <1>2 DEF IsVariable
<1> QED BY <1>1, <1>2, <1>3, <1>4, <1>32

\* Where the first variable is, and what follows the last one.
LEMMA PlacesEnd ==
  ASSUME NEW h \in Heaps, NEW met, Good(h, met), NEW b \in met, NEW block, block = h.heap[b],
         NEW types, types = Classes[block.cls]
  PROVE  /\ Place(types, 1) = 1 /\ Place(types, Len(types) + 1) = Len(block.mem) + 1
         /\ Len(block.mem) = Words(types) /\ Words(types) \in Nat /\ DOMAIN block.mem = 1..Len(block.mem)
<1>1. b \in DOMAIN h.heap /\ block.cls # 0
  BY MetBlock
<1>2. PICK all : all = WordTypes(block.cls)
  OBVIOUS
<1>3. IsSeq(types) /\ Len(types) \in Nat /\ DOMAIN types = 1..Len(types)
  BY <1>1, <1>2, ObjectWords
<1>4. Len(block.mem) = Words(types) /\ Words(types) \in Nat /\ DOMAIN block.mem = 1..Words(types)
  BY <1>1, <1>2, ObjectWords
<1>5. \A j \in 1..Len(types) : types[j] # "OBJ_ARY_PARM"
  BY MetBlock
<1>6. \A i : Place(types, i) = 1 + Ahead0(types, i - 1)
  BY <1>3, AllOf
<1>7. Place(types, 1) = 1
  <2>1. Ahead0(types, 0) = 0
    BY <1>3, NoneOf
  <2>2. 1 - 1 = 0
    OBVIOUS
  <2>3. Place(types, 1) = 1 + Ahead0(types, 1 - 1)
    BY <1>6
  <2> QED BY <2>1, <2>2, <2>3
<1>8. Place(types, Len(types) + 1) = Words(types) + 1
  <2>1. PICK k : k = Len(types)
    OBVIOUS
  <2>2. k \in Nat /\ k <= Len(types) /\ (k + 1) - 1 = k
    BY <1>3, <2>1
  <2>3. Place(types, k + 1) = 1 + Ahead0(types, (k + 1) - 1)
    BY <1>6
  <2>4. Ahead0(types, k) = Words0(types, k)
    BY <1>3, <1>5, <2>2, InPlace
  <2>5. Words(types) = Words0(types, Len(types))
    BY <1>3, AllOf
  <2>6. Place(types, k + 1) = 1 + Words(types)
    BY <2>1, <2>2, <2>3, <2>4, <2>5
  <2> HIDE DEF Place, Words
  <2> QED BY <1>4, <2>1, <2>6
<1> QED BY <1>4, <1>7, <1>8

-----------------------------------------------------------------------------
(* Copies of blocks, and how they are filled in *)

\* m takes each of its blocks of h to a block of the same shape among where, in the heap g
Twins(h, g, m, where) ==
  /\ DOMAIN m \subseteq DOMAIN h.heap
  /\ \A a \in DOMAIN m : /\ m[a] \in where /\ g[m[a]].cls = h.heap[a].cls
                         /\ g[m[a]].mem = [p \in DOMAIN h.heap[a].mem |-> g[m[a]].mem[p]]
  /\ \A a, b \in DOMAIN m : m[a] = m[b] => a = b
\* v is what is to be in the copy of word p of block a
Right(h, m, a, p, v) ==
  LET x == h.heap[a].mem[p] IN
  IF p \in References(h.heap[a]) /\ x # 0 THEN x \in DOMAIN m /\ v = m[x] ELSE v = x
\* a reader has not come to word p of block a
Open(levels, rs, a, p) == \E n \in DOMAIN rs : rs[n].cls # 0 /\ levels[n].of = a /\ p >= rs[n].instance_pos
Filling(h, g, m, levels, rs) ==
  \A a \in DOMAIN m : \A p \in DOMAIN h.heap[a].mem :
    Open(levels, rs, a, p) \/ Right(h, m, a, p, g[m[a]].mem[p])
\* the heap g is G but for words of block i, and blocks that are new
Wrote(g, G, i, from, words) ==
  /\ DOMAIN g \subseteq DOMAIN G /\ \A b \in DOMAIN g : b # i => G[b] = g[b]
  /\ G[i].cls = g[i].cls
  /\ G[i].mem = [n \in DOMAIN g[i].mem |-> IF n \in from .. from + Len(words) - 1 THEN words[n - from + 1]
                                           ELSE g[i].mem[n]]
\* M takes more blocks than m, to new ones that are filled in
Extends(m, M) == \A a \in DOMAIN m : a \in DOMAIN M /\ M[a] = m[a]
Grown(h, g, G, m, M) ==
  /\ Extends(m, M) /\ DOMAIN M \subseteq DOMAIN h.heap
  /\ \A a \in DOMAIN M \ DOMAIN m :
       /\ M[a] \in DOMAIN G \ DOMAIN g /\ G[M[a]].cls = h.heap[a].cls
       /\ G[M[a]].mem = [p \in DOMAIN h.heap[a].mem |-> G[M[a]].mem[p]]
  /\ \A a, b \in DOMAIN M \ DOMAIN m : M[a] = M[b] => a = b
\* what m takes blocks to keeps its shape
Formed(g, G, m) ==
  \A a \in DOMAIN m : /\ G[m[a]].cls = g[m[a]].cls
                      /\ G[m[a]].mem = [p \in DOMAIN g[m[a]].mem |-> G[m[a]].mem[p]]
\* the reader n has gone, or goes on from behind the words up to to
Passes(h, levels, rs, RS, n, j, to) ==
  \/ n \in DOMAIN RS /\ RS[n].cls # 0 /\ RS[n].instance_pos = rs[n].instance_pos
  \/ n = j /\ n \in DOMAIN RS /\ RS[n].cls # 0 /\ RS[n].instance_pos = to + 1
  \/ \A p \in DOMAIN h.heap[levels[n].of].mem : ~(p >= rs[n].instance_pos)

\* blocks are as they were
Remain(old, g, G) == old \subseteq DOMAIN G /\ \A b \in old : G[b] = g[b]
\* readers are yet to come to all words of the new copies, the others to what they were to come to
Ready(h, levels, rs, lv, RS, fresh) ==
  /\ \A a \in fresh : \A p \in DOMAIN h.heap[a].mem : Open(lv, RS, a, p)
  /\ \A n \in DOMAIN rs : rs[n].cls # 0 =>
       n \in DOMAIN RS /\ RS[n].cls # 0 /\ lv[n].of = levels[n].of /\ RS[n].instance_pos = rs[n].instance_pos

\* What is right stays so when more blocks are copied.
LEMMA RightStays ==
  ASSUME NEW h, NEW m, NEW M, Extends(m, M), NEW a, NEW p, NEW v, Right(h, m, a, p, v)
  PROVE  Right(h, M, a, p, v)
BY DEF Right, Extends

\* Blocks that are copied stay so when others are filled in.
LEMMA TwinsGrow ==
  ASSUME NEW h, NEW g, NEW G, NEW m, NEW M, NEW old, old \subseteq DOMAIN g,
         Twins(h, g, m, DOMAIN g \ old), Grown(h, g, G, m, M), DOMAIN g \subseteq DOMAIN G, Formed(g, G, m)
  PROVE  Twins(h, G, M, DOMAIN G \ old)
<1>1. DOMAIN M \subseteq DOMAIN h.heap
  BY DEF Grown
<1>2. ASSUME NEW a \in DOMAIN M
      PROVE  /\ M[a] \in DOMAIN G \ old /\ G[M[a]].cls = h.heap[a].cls
             /\ G[M[a]].mem = [p \in DOMAIN h.heap[a].mem |-> G[M[a]].mem[p]]
  <2>1. CASE a \in DOMAIN m
    <3>1. M[a] = m[a] /\ m[a] \in DOMAIN g \ old /\ g[m[a]].cls = h.heap[a].cls
      BY <2>1 DEF Grown, Extends, Twins
    <3>2. PICK mem : mem = g[m[a]].mem
      OBVIOUS
    <3>3. mem = [p \in DOMAIN h.heap[a].mem |-> mem[p]]
      BY <2>1, <3>2 DEF Twins
    <3>4. DOMAIN mem = DOMAIN h.heap[a].mem
      BY <3>3
    <3>5. G[m[a]].cls = g[m[a]].cls /\ G[m[a]].mem = [p \in DOMAIN mem |-> G[m[a]].mem[p]]
      BY <2>1, <3>2 DEF Formed
    <3> QED BY <3>1, <3>4, <3>5
  <2>2. CASE a \notin DOMAIN m
    BY <2>2 DEF Grown
  <2> QED BY <2>1, <2>2
<1>3. ASSUME NEW a \in DOMAIN M, NEW b \in DOMAIN M, M[a] = M[b] PROVE a = b
  <2>1. ASSUME NEW c \in DOMAIN m PROVE M[c] = m[c] /\ M[c] \in DOMAIN g
    BY DEF Grown, Extends, Twins
  <2>2. ASSUME NEW c \in DOMAIN M \ DOMAIN m PROVE M[c] \notin DOMAIN g
    BY DEF Grown
  <2>3. CASE a \in DOMAIN m /\ b \in DOMAIN m
    BY <1>3, <2>1, <2>3 DEF Twins
  <2>4. CASE a \notin DOMAIN m /\ b \notin DOMAIN m
    BY <1>3, <2>4 DEF Grown
  <2>5. CASE (a \in DOMAIN m /\ b \notin DOMAIN m) \/ (a \notin DOMAIN m /\ b \in DOMAIN m)
    BY <1>3, <2>1, <2>5, <2>2
  <2> QED BY <2>3, <2>4, <2>5
<1> QED BY <1>1, <1>2, <1>3 DEF Twins

\* Words are put into the copy that reader j works on: what was filled in stays, and so are they.
LEMMA Fills ==
  ASSUME NEW h, NEW g, NEW G, NEW m, NEW M, NEW old, old \subseteq DOMAIN g,
         Twins(h, g, m, DOMAIN g \ old), Grown(h, g, G, m, M),
         NEW levels, NEW rs, NEW RS, NEW j, j \in DOMAIN rs, Filling(h, g, m, levels, rs),
         NEW a0, a0 = levels[j].of, a0 \in DOMAIN m, \A p \in DOMAIN h.heap[a0].mem : p \in Nat,
         NEW from \in Nat, from = rs[j].instance_pos, NEW words, Len(words) \in Nat,
         Wrote(g, G, m[a0], from, words),
         \A p \in DOMAIN h.heap[a0].mem :
           p \in from .. from + Len(words) - 1 => Right(h, M, a0, p, words[p - from + 1]),
         \A a \in DOMAIN M \ DOMAIN m : \A p \in DOMAIN h.heap[a].mem : Right(h, M, a, p, G[M[a]].mem[p]),
         \A n \in DOMAIN rs : rs[n].cls # 0 => Passes(h, levels, rs, RS, n, j, from + Len(words) - 1)
  PROVE  Twins(h, G, M, DOMAIN G \ old) /\ Filling(h, G, M, levels, RS)
<1> DEFINE to == from + Len(words) - 1
           i  == m[a0]
<1>1. DOMAIN g \subseteq DOMAIN G /\ \A b \in DOMAIN g : b # i => G[b] = g[b]
  BY DEF Wrote
<1>2. /\ G[i].cls = g[i].cls
      /\ G[i].mem = [n \in DOMAIN g[i].mem |-> IF n \in from .. to THEN words[n - from + 1] ELSE g[i].mem[n]]
  BY DEF Wrote
<1>3. PICK mem : mem = g[i].mem
  OBVIOUS
<1>4. DOMAIN mem = DOMAIN h.heap[a0].mem
  <2>1. mem = [p \in DOMAIN h.heap[a0].mem |-> mem[p]]
    BY <1>3 DEF Twins
  <2> QED BY <2>1
<1>5. PICK words0 : words0 = G[i].mem
  OBVIOUS
<1>6. words0 = [n \in DOMAIN mem |-> IF n \in from .. to THEN words[n - from + 1] ELSE mem[n]]
  BY <1>2, <1>3, <1>5, SMTT(30)
<1>7. ASSUME NEW p \in DOMAIN h.heap[a0].mem
      PROVE  words0[p] = IF p \in from .. to THEN words[p - from + 1] ELSE mem[p]
  BY <1>4, <1>6
<1>8. words0 = [p \in DOMAIN mem |-> words0[p]]
  BY <1>6
<1>9. ASSUME NEW a \in DOMAIN m, a # a0 PROVE G[m[a]] = g[m[a]]
  <2>1. m[a] # i /\ m[a] \in DOMAIN g
    BY <1>9 DEF Twins
  <2> QED BY <1>1, <2>1
<1>10. ASSUME NEW a \in DOMAIN m
       PROVE  /\ G[m[a]].cls = g[m[a]].cls /\ G[m[a]].mem = [p \in DOMAIN g[m[a]].mem |-> G[m[a]].mem[p]]
  <2>1. CASE a = a0
    BY <1>2, <1>3, <1>5, <1>8, <2>1
  <2>2. CASE a # a0
    <3>1. PICK own : own = g[m[a]].mem
      OBVIOUS
    <3>2. own = [p \in DOMAIN h.heap[a].mem |-> own[p]]
      BY <3>1 DEF Twins
    <3>3. own = [p \in DOMAIN own |-> own[p]]
      BY <3>2
    <3> QED BY <1>9, <2>2, <3>1, <3>3
  <2> QED BY <2>1, <2>2
<1>11. Twins(h, G, M, DOMAIN G \ old)
  <2>1. Formed(g, G, m)
    BY <1>10 DEF Formed
  <2> QED BY <1>1, <2>1, TwinsGrow
<1>12. Extends(m, M)
  BY DEF Grown
<1>13. ASSUME NEW a \in DOMAIN m, NEW p \in DOMAIN h.heap[a].mem
       PROVE  Open(levels, RS, a, p) \/ Right(h, M, a, p, G[M[a]].mem[p])
  <2>1. M[a] = m[a]
    BY <1>12 DEF Extends
  <2>2. CASE a = a0 /\ p \in from .. to
    BY <1>5, <1>7, <2>1, <2>2
  <2>3. CASE ~(a = a0 /\ p \in from .. to)
    <3>1. G[m[a]].mem[p] = g[m[a]].mem[p]
      <4>1. CASE a = a0
        BY <1>3, <1>5, <1>7, <2>3, <4>1
      <4>2. CASE a # a0
        BY <1>9, <4>2
      <4> QED BY <4>1, <4>2
    <3>2. CASE Right(h, m, a, p, g[m[a]].mem[p])
      BY <1>12, <2>1, <3>1, <3>2, RightStays
    <3>3. CASE Open(levels, rs, a, p)
      <4>1. PICK n \in DOMAIN rs : rs[n].cls # 0 /\ levels[n].of = a /\ p >= rs[n].instance_pos
        BY <3>3 DEF Open
      <4>2. Passes(h, levels, rs, RS, n, j, to)
        BY <4>1
      <4>3. CASE n \in DOMAIN RS /\ RS[n].cls # 0 /\ RS[n].instance_pos = rs[n].instance_pos
        BY <4>1, <4>3 DEF Open
      <4>4. CASE n = j /\ n \in DOMAIN RS /\ RS[n].cls # 0 /\ RS[n].instance_pos = to + 1
        <5>1. a = a0 /\ p >= from /\ p \in Nat
          BY <4>1, <4>4
        <5>2. ~(p \in from .. to)
          BY <2>3, <5>1
        <5>3. p >= to + 1
          BY <5>1, <5>2
        <5> QED BY <4>1, <4>4, <5>3 DEF Open
      <4>5. CASE \A q \in DOMAIN h.heap[levels[n].of].mem : ~(q >= rs[n].instance_pos)
        BY <4>1, <4>5
      <4> QED BY <4>2, <4>3, <4>4, <4>5 DEF Passes
    <3> QED BY <3>2, <3>3 DEF Filling
  <2> QED BY <2>2, <2>3
<1>14. Filling(h, G, M, levels, RS)
  BY <1>13 DEF Filling
<1> QED BY <1>11, <1>14

\* A new copy that is still to be filled in by a reader that begins.
LEMMA Opens ==
  ASSUME NEW h, NEW g, NEW G, NEW m, NEW M, NEW old, old \subseteq DOMAIN g,
         Twins(h, g, m, DOMAIN g \ old), Grown(h, g, G, m, M), Remain(DOMAIN g, g, G),
         NEW levels, NEW rs, Filling(h, g, m, levels, rs), NEW lv, NEW RS,
         Ready(h, levels, rs, lv, RS, DOMAIN M \ DOMAIN m)
  PROVE  Twins(h, G, M, DOMAIN G \ old) /\ Filling(h, G, M, lv, RS)
<1>1. ASSUME NEW a \in DOMAIN m
      PROVE  /\ G[m[a]] = g[m[a]]
             /\ G[m[a]].cls = g[m[a]].cls /\ G[m[a]].mem = [p \in DOMAIN g[m[a]].mem |-> G[m[a]].mem[p]]
  <2>1. G[m[a]] = g[m[a]]
    BY DEF Twins, Remain
  <2>2. PICK own : own = g[m[a]].mem
    OBVIOUS
  <2>3. own = [p \in DOMAIN h.heap[a].mem |-> own[p]]
    BY <2>2 DEF Twins
  <2>4. own = [p \in DOMAIN own |-> own[p]]
    BY <2>3
  <2> QED BY <2>1, <2>2, <2>4
<1>2. Twins(h, G, M, DOMAIN G \ old)
  <2>1. Formed(g, G, m)
    BY <1>1 DEF Formed
  <2>2. DOMAIN g \subseteq DOMAIN G
    BY DEF Remain
  <2> QED BY <2>1, <2>2, TwinsGrow
<1>3. Extends(m, M)
  BY DEF Grown
<1>4. ASSUME NEW a \in DOMAIN m, NEW p \in DOMAIN h.heap[a].mem
      PROVE  Open(lv, RS, a, p) \/ Right(h, M, a, p, G[M[a]].mem[p])
  <2>1. M[a] = m[a]
    BY <1>3 DEF Extends
  <2>2. CASE Right(h, m, a, p, g[m[a]].mem[p])
    BY <1>1, <1>3, <2>1, <2>2, RightStays
  <2>3. CASE Open(levels, rs, a, p)
    <3>1. PICK n \in DOMAIN rs : rs[n].cls # 0 /\ levels[n].of = a /\ p >= rs[n].instance_pos
      BY <2>3 DEF Open
    <3> QED BY <3>1 DEF Open, Ready
  <2> QED BY <2>2, <2>3 DEF Filling
<1>5. Filling(h, G, M, lv, RS)
  <2>1. ASSUME NEW a \in DOMAIN M, NEW p \in DOMAIN h.heap[a].mem, a \notin DOMAIN m PROVE Open(lv, RS, a, p)
    BY <2>1 DEF Ready
  <2> QED BY <1>4, <2>1 DEF Filling
<1> QED BY <1>2, <1>5

-----------------------------------------------------------------------------
(* The readers of a graph at work *)

\* the numbers of the writer and the cache of the reader give the copies of the blocks
Mapped(m, w, d) == DOMAIN m = DOMAIN w.ids /\ \A a \in DOMAIN m : m[a] = d.mem_cache[w.ids[a]]
\* a reader that waits for a copy of the block inner is about
Waits(h, d, level, inner) ==
  /\ d.instance_pos \in References(h.heap[level.of]) /\ h.heap[level.of].mem[d.instance_pos] = inner.of
  /\ Place(Classes[d.cls], d.dclr_pos) = d.instance_pos + 1
\* each reader is about a block and works on its copy, the innermost one on the variable it has come to
Placed(h, m, levels, rs, w) ==
  LET k == Len(rs)  d == rs[k] IN
  /\ \A n \in 1..k : rs[n].cls # 0 => levels[n].of \in DOMAIN m /\ rs[n].instance = m[levels[n].of]
  /\ \A n \in 1..(k - 1) : rs[n].cls # 0 /\ Waits(h, rs[n], levels[n], levels[n + 1])
  /\ IF d.cls = 0 THEN levels[k].of = About(w) /\ d.instance_pos = 1
     ELSE d.instance_pos = Place(Classes[d.cls], d.dclr_pos)
Work(h, g, old, w, levels, rs, m) ==
  /\ Twins(h, g, m, DOMAIN g \ old) /\ Filling(h, g, m, levels, rs)
  /\ Mapped(m, w, rs[Len(rs)]) /\ Placed(h, m, levels, rs, w)

\* The words a reader puts into its instance.
LEMMA PutIs ==
  ASSUME NEW h \in Heaps, NEW met, Walk(h, met), NEW d, d.instance \in DOMAIN heap, NEW words
  PROVE  /\ Wrote(heap, Put(d, words), d.instance, d.instance_pos, words)
         /\ DOMAIN Put(d, words) = DOMAIN heap
<1> DEFINE g == Put(d, words)
           i == d.instance
<1>1. DOMAIN heap[i] = {"cls", "mem"}
  BY DEF Walk, Basic, Keeps, IsBlock
<1>2. DOMAIN g = DOMAIN heap /\ \A b \in DOMAIN heap : b # i => g[b] = heap[b]
  BY DEF Put
<1>3. g[i].cls = heap[i].cls
  BY <1>1 DEF Put
<1>4. g[i].mem = [n \in DOMAIN heap[i].mem |->
        IF n \in d.instance_pos .. d.instance_pos + Len(words) - 1 THEN words[n - d.instance_pos + 1]
        ELSE heap[i].mem[n]]
  BY <1>1 DEF Put
<1> HIDE DEF g
<1>5. Wrote(heap, g, i, d.instance_pos, words)
  BY <1>2, <1>3, <1>4, SMTT(30) DEF Wrote
<1> QED BY <1>2, <1>5 DEF g

\* The variable the innermost reader has come to, in the block it is about.
LEMMA AtVariable ==
  ASSUME NEW h \in Heaps, NEW met, Walk(h, met), Good(h, met), status = "read", readers # <<>>, r.cls # 0,
         NEW steps, NEW last, Complete(h, met, steps, last), NEW w \in steps, NEW levels,
         Follow(h, met, w, levels, readers), r.dclr_pos <= Len(declared),
         NEW m, Placed(h, m, levels, readers, w),
         NEW b, b = levels[Len(readers)].of, NEW block, block = h.heap[b],
         NEW type, type = declared[r.dclr_pos], NEW p, p = r.instance_pos
  PROVE  /\ b \in met /\ b \in DOMAIN m /\ r.instance = m[b] /\ r.cls = block.cls
         /\ p \in Nat /\ p >= 1 /\ Place(declared, r.dclr_pos + 1) = p + Size(type)
         /\ Head(w.todo) = Items(block)[r.dclr_pos] /\ r.dclr_pos \in 1..Len(declared)
         /\ Head(w.todo).type = type /\ IsSeq(Head(w.todo).words) /\ Len(Head(w.todo).words) = Size(type)
         /\ \A i \in 1..Size(type) :
              /\ p + i - 1 \in DOMAIN block.mem /\ WordTypes(block.cls)[p + i - 1] = type
              /\ Head(w.todo).words[i] = block.mem[p + i - 1]
         /\ \A n \in DOMAIN block.mem : n \in Nat
<1> DEFINE k == Len(readers)
<1>1. k \in Nat /\ k > 0 /\ k \in 1..k /\ r = readers[k] /\ IsReader(DOMAIN heap \ DOMAIN h.heap, Len(buffer), r)
  BY Innermost
<1>2. b \in met /\ r.cls = block.cls
  BY <1>1 DEF Follow
<1>3. b \in DOMAIN m /\ r.instance = m[b] /\ p = Place(declared, r.dclr_pos)
  BY <1>1 DEF Placed, declared
<1>4. declared = Classes[block.cls]
  BY <1>2 DEF declared
<1>5. PICK types : types = declared
  OBVIOUS
<1>6. PICK n : n = r.dclr_pos
  BY SMTT(30)
<1>7. Len(types) \in Nat
  BY <1>2, <1>4, <1>5, MetBlock
<1>8. n \in 1..Len(types)
  <2>1. n \in Nat \ {0} /\ n <= Len(types)
    BY <1>1, <1>5, <1>6 DEF IsReader
  <2> QED BY <1>7, <2>1
<1>9. PICK item : item = Items(block)[n]
  OBVIOUS
<1>10. Head(w.todo) = item
  BY <1>6, <1>9, ReadyFor, SMTT(30)
<1>11. types = Classes[block.cls] /\ type = types[n] /\ p = Place(types, n)
  BY <1>3, <1>4, <1>5, <1>6, ZenonT(60)
<1>12. types = Classes[block.cls]
  BY <1>11, ZenonT(60)
<1>13. p = Place(types, n)
  BY <1>11, Zenon
<1>14. b \in met
  BY <1>2
<1>15. IsVariable(block, n, p, item)
  <2>1. h.heap[b] = block /\ Classes[h.heap[b].cls] = types
    BY <1>12
  <2>2. n \in 1..Len(Classes[h.heap[b].cls])
    BY <1>8, <2>1
  <2>3. IsVariable(h.heap[b], n, Place(Classes[h.heap[b].cls], n), Items(h.heap[b])[n])
    BY <1>14, <2>2, VariableAt, SMTT(30)
  <2> QED BY <1>9, <1>13, <2>1, <2>3
<1>16. /\ p \in Nat /\ p >= 1 /\ Place(types, n + 1) = p + Size(types[n])
       /\ item.type = types[n] /\ IsSeq(item.words) /\ Len(item.words) = Size(types[n])
  BY <1>12, <1>15, ZenonT(60) DEF IsVariable
<1>17. \A i \in 1..Size(types[n]) :
              /\ p + i - 1 \in DOMAIN block.mem /\ WordTypes(block.cls)[p + i - 1] = types[n]
              /\ item.words[i] = block.mem[p + i - 1]
  BY <1>12, <1>15, Zenon DEF IsVariable
<1>18. \A q \in DOMAIN block.mem : q \in Nat
  <2>1. DOMAIN block.mem = 1..Len(block.mem)
    BY <1>2, <1>11, PlacesEnd, ZenonT(60)
  <2> QED BY <2>1, SMTT(30)
<1> HIDE DEF k
<1>19. p \in Nat /\ p >= 1 /\ Place(declared, r.dclr_pos + 1) = p + Size(type)
  BY <1>5, <1>6, <1>11, <1>16, ZenonT(60)
<1>20. /\ Head(w.todo) = Items(block)[r.dclr_pos] /\ r.dclr_pos \in 1..Len(declared)
       /\ Head(w.todo).type = type /\ IsSeq(Head(w.todo).words) /\ Len(Head(w.todo).words) = Size(type)
  BY <1>5, <1>6, <1>8, <1>9, <1>10, <1>11, <1>16, ZenonT(60)
<1>21. \A i \in 1..Size(type) :
              /\ p + i - 1 \in DOMAIN block.mem /\ WordTypes(block.cls)[p + i - 1] = type
              /\ Head(w.todo).words[i] = block.mem[p + i - 1]
  BY <1>10, <1>11, <1>17, Zenon
<1> QED BY <1>2, <1>3, <1>18, <1>19, <1>20, <1>21, Zenon

\* Its words are put into the instance, the reader comes to the next one.
LEMMA VariableWork ==
  ASSUME NEW h \in Heaps, NEW met, Walk(h, met), Good(h, met), status = "read", readers # <<>>, r.cls # 0,
         NEW steps, NEW last, Complete(h, met, steps, last), NEW w \in steps, NEW levels,
         Follow(h, met, w, levels, readers), r.dclr_pos <= Len(declared),
         NEW old, old \subseteq DOMAIN heap, NEW m, Work(h, heap, old, w, levels, readers, m),
         NEW b, b = levels[Len(readers)].of, NEW p, p = r.instance_pos,
         NEW G, NEW M, Grown(h, heap, G, m, M), NEW words, Len(words) = Size(declared[r.dclr_pos]),
         Wrote(heap, G, r.instance, p, words),
         \A i \in 1..Len(words) : Right(h, M, b, p + i - 1, words[i]),
         \A a \in DOMAIN M \ DOMAIN m : \A q \in DOMAIN h.heap[a].mem : Right(h, M, a, q, G[M[a]].mem[q]),
         NEW d, d.cls = r.cls, d.dclr_pos = r.dclr_pos + 1, d.instance_pos = p + Len(words),
         d.instance = r.instance, NEW v, Mapped(M, v, d), NEW RS, RS = Replaced(d)
  PROVE  Work(h, G, old, v, levels, RS, M)
<1>1. PICK k : k = Len(readers)
  OBVIOUS
<1>2. /\ k \in Nat /\ k > 0 /\ k \in 1..k /\ r = readers[k] /\ DOMAIN readers = 1..k
      /\ IsSeq(RS) /\ Len(RS) = k /\ RS[k] = d /\ \A n \in 1..(k - 1) : RS[n] = readers[n]
  <2>1. k \in Nat /\ k > 0 /\ r = readers[k] /\ DOMAIN readers = 1..k
    BY <1>1, Innermost
  <2>2. IsSeq(Replaced(d)) /\ Len(Replaced(d)) = Len(readers) /\ Replaced(d)[Len(readers)] = d
    BY Innermost
  <2>3. \A n \in 1..(Len(readers) - 1) : Replaced(d)[n] = readers[n]
    BY Innermost
  <2> QED BY <1>1, <2>1, <2>2, <2>3
<1>3. DOMAIN RS = 1..k
  BY <1>2, SeqHas
<1>4. /\ Twins(h, heap, m, DOMAIN heap \ old) /\ Filling(h, heap, m, levels, readers)
      /\ Placed(h, m, levels, readers, w)
  BY DEF Work
<1>5. PICK block : block = h.heap[b]
  OBVIOUS
<1>6. PICK type : type = declared[r.dclr_pos]
  OBVIOUS
<1>7. /\ b \in met /\ b \in DOMAIN m /\ r.instance = m[b] /\ r.cls = block.cls
      /\ p \in Nat /\ p >= 1 /\ Place(declared, r.dclr_pos + 1) = p + Size(type)
      /\ \A n \in DOMAIN block.mem : n \in Nat
  BY <1>4, <1>5, <1>6, AtVariable
<1>8. Len(words) \in Nat /\ Len(words) = Size(type)
  BY <1>6 DEF Size
<1>9. PICK to : to = p + Len(words) - 1
  OBVIOUS
<1>10. to + 1 = p + Len(words)
  BY <1>7, <1>8, <1>9
<1>11. ASSUME NEW n \in DOMAIN readers, readers[n].cls # 0
       PROVE  Passes(h, levels, readers, RS, n, k, to)
  <2>1. CASE n = k
    BY <1>2, <1>3, <1>10, <1>11, <2>1 DEF Passes
  <2>2. CASE n # k
    <3>1. n \in 1..(k - 1)
      BY <1>2, <2>2
    <3>2. RS[n] = readers[n] /\ n \in DOMAIN RS
      BY <1>2, <1>3, <3>1
    <3> QED BY <1>11, <3>2 DEF Passes
  <2> QED BY <2>1, <2>2
<1>12. ASSUME NEW q \in DOMAIN h.heap[b].mem, q \in p .. to
       PROVE  Right(h, M, b, q, words[q - p + 1])
  <2>1. PICK i : i = q - p + 1
    OBVIOUS
  <2>2. i \in 1..Len(words) /\ p + i - 1 = q
    BY <1>7, <1>8, <1>9, <1>12, <2>1
  <2> QED BY <2>1, <2>2
<1>13. Twins(h, G, M, DOMAIN G \ old) /\ Filling(h, G, M, levels, RS)
  <2>1. b = levels[k].of /\ k \in DOMAIN readers /\ p = readers[k].instance_pos
    BY <1>1, <1>2
  <2>2. Wrote(heap, G, m[b], p, words)
    BY <1>7
  <2>3. \A n \in DOMAIN readers : readers[n].cls # 0 => Passes(h, levels, readers, RS, n, k, p + Len(words) - 1)
    BY <1>9, <1>11
  <2>4. \A q \in DOMAIN h.heap[b].mem : q \in p .. p + Len(words) - 1 => Right(h, M, b, q, words[q - p + 1])
    BY <1>9, <1>12
  <2>5. \A q \in DOMAIN h.heap[b].mem : q \in Nat
    BY <1>5, <1>7
  <2> QED BY <1>4, <1>7, <1>8, <2>1, <2>2, <2>3, <2>4, <2>5, Fills
<1>14. Extends(m, M)
  BY DEF Grown
<1>15. ASSUME NEW n \in 1..k, RS[n].cls # 0
       PROVE  levels[n].of \in DOMAIN M /\ RS[n].instance = M[levels[n].of]
  <2>1. readers[n].cls # 0 /\ RS[n].instance = readers[n].instance
    <3>1. CASE n = k
      BY <1>2, <3>1
    <3>2. CASE n # k
      <4>1. n \in 1..(k - 1)
        BY <1>2, <3>2
      <4> QED BY <1>2, <1>15, <4>1
    <3> QED BY <3>1, <3>2
  <2>2. levels[n].of \in DOMAIN m /\ readers[n].instance = m[levels[n].of]
    BY <1>1, <1>4, <2>1 DEF Placed
  <2> QED BY <1>14, <2>1, <2>2 DEF Extends
<1>16. \A n \in 1..(k - 1) : RS[n].cls # 0 /\ Waits(h, RS[n], levels[n], levels[n + 1])
  BY <1>1, <1>2, <1>4 DEF Placed
<1>17. d.cls # 0 /\ d.instance_pos = Place(Classes[d.cls], d.dclr_pos)
  <2>1. d.instance_pos = Place(declared, r.dclr_pos + 1)
    BY <1>7, <1>8
  <2> QED BY <2>1 DEF declared
<1>18. Placed(h, M, levels, RS, v)
  BY <1>2, <1>15, <1>16, <1>17 DEF Placed
<1> QED BY <1>2, <1>13, <1>18 DEF Work

-----------------------------------------------------------------------------
(* A variable of an object is read *)

\* integers are as wide as they are written, texts have no NUL
Neat(h, met) ==
  \A b \in met : \A n \in 1..Len(Classes[h.heap[b].cls]) :
    LET item == Items(h.heap[b])[n]  a == item.words[1] IN
    /\ item.type = "INT_PARM" => Narrow(a) = a
    /\ item.type \in Arrays /\ a # 0 => Contents(item.type, h.heap[a].mem) = h.heap[a].mem
\* one block more, with its copy
With(m, a, x) == [b \in DOMAIN m \cup {a} |-> IF b = a THEN x ELSE m[b]]

\* The values that are read for a variable.
LEMMA TokenValues ==
  ASSUME NEW h, NEW w, NEW at \in Nat, at = w.at, IsAt(Tokens(h, w), at), w.todo # <<>>,
         NEW type, type = Head(w.todo).type, NEW a, a = About(w)
  PROVE  /\ type = "INT_PARM" => Read(at) = Narrow(a)
         /\ type = "FLOAT_PARM" => Read(at) = Head(w.todo).words
         /\ type \in Arrays /\ a # 0 /\ a \notin DOMAIN w.ids => Read(at + 2) = Contents(type, h.heap[a].mem)
<1>1. ASSUME type = "INT_PARM" PROVE Read(at) = Narrow(a)
  <2>1. PICK x : x = IntBytes(Narrow(a))
    OBVIOUS
  <2>2. Tokens(h, w) = <<x>>
    BY <1>1, <2>1 DEF Tokens
  <2>3. buffer[at] = x
    BY <2>2, OneAt
  <2> QED BY <2>1, <2>3 DEF Read, IntBytes, Token
<1>2. ASSUME type = "FLOAT_PARM" PROVE Read(at) = Head(w.todo).words
  <2>1. PICK x : x = Token("float", Head(w.todo).words)
    OBVIOUS
  <2>2. Tokens(h, w) = <<x>>
    BY <1>2, <2>1 DEF Tokens
  <2>3. buffer[at] = x
    BY <2>2, OneAt
  <2> QED BY <2>1, <2>3 DEF Read, Token
<1>3. ASSUME type \in Arrays, a # 0, a \notin DOMAIN w.ids PROVE Read(at + 2) = Contents(type, h.heap[a].mem)
  <2>1. PICK x, y, z :
          x = OneByte(1) /\ y = IntBytes(Numbering(w, a)) /\ z = Token("array", Contents(type, h.heap[a].mem))
    OBVIOUS
  <2>2. Tokens(h, w) = <<x, y, z>>
    BY <1>3, <2>1 DEF Tokens, Arrays
  <2>3. buffer[at + 2] = z
    BY <2>2, ThreeAt
  <2> QED BY <2>1, <2>3 DEF Read, Token
<1> QED BY <1>1, <1>2, <1>3

\* The numbers after the step.
LEMMA AfterIds ==
  ASSUME NEW h, NEW w, w.todo # <<>>
  PROVE  After(h, w).ids = Ids(w)
BY DEF After, Config

\* No block more.
LEMMA MappedSame ==
  ASSUME NEW h, NEW m, NEW w, w.todo # <<>>, ~Fresh(w), NEW c, Mapped(m, w, c), NEW d, d.mem_cache = c.mem_cache
  PROVE  Mapped(m, After(h, w), d)
<1>1. PICK v : v = After(h, w)
  OBVIOUS
<1>2. v.ids = w.ids
  BY <1>1, AfterIds DEF Ids
<1>3. Mapped(m, v, d)
  BY <1>2 DEF Mapped
<1> QED BY <1>1, <1>3

\* The block that got a number, and its copy in the cache.
LEMMA MappedMore ==
  ASSUME NEW h, NEW met, NEW w, IsConfig(h, met, w), w.todo # <<>>, Fresh(w), NEW m, NEW c, Mapped(m, w, c),
         NEW a, a = About(w), NEW x, NEW id, id = w.next + 1,
         NEW d, d.mem_cache = With(c.mem_cache, id, x),
         DOMAIN c.mem_cache = 1..w.next
  PROVE  Mapped(With(m, a, x), After(h, w), d)
<1>1. PICK ids : ids = After(h, w).ids
  OBVIOUS
<1>2. ids = [b \in DOMAIN w.ids \cup {a} |-> IF b = a THEN id ELSE w.ids[b]]
  BY <1>1, AfterIds DEF Ids
<1>3. PICK M : M = With(m, a, x)
  OBVIOUS
<1>4. DOMAIN M = DOMAIN ids
  BY <1>2, <1>3 DEF With, Mapped
<1>5. ASSUME NEW b \in DOMAIN M PROVE M[b] = d.mem_cache[ids[b]]
  <2>1. CASE b = a
    BY <1>2, <1>3, <2>1 DEF With
  <2>2. CASE b # a
    <3>1. b \in DOMAIN m /\ M[b] = m[b]
      BY <1>3, <1>5, <2>2 DEF With
    <3>2. b \in DOMAIN w.ids /\ ids[b] = w.ids[b] /\ m[b] = c.mem_cache[w.ids[b]]
      BY <1>2, <2>2, <3>1 DEF Mapped
    <3>3. w.ids[b] \in 1..w.next /\ w.next \in Nat
      BY <3>2 DEF IsConfig
    <3>4. w.ids[b] # id
      BY <3>3
    <3> QED BY <3>1, <3>2, <3>3, <3>4 DEF With
  <2> QED BY <2>1, <2>2
<1> QED BY <1>1, <1>3, <1>4, <1>5 DEF Mapped

\* Nothing more is copied.
LEMMA GrownSame ==
  ASSUME NEW h, NEW g, NEW G, NEW m, NEW where, Twins(h, g, m, where)
  PROVE  Grown(h, g, G, m, m)
BY DEF Grown, Twins, Extends

\* A copy has the shape of the block.
Shaped(block, copy) ==
  /\ copy.cls = block.cls /\ DOMAIN copy.mem = DOMAIN block.mem
  /\ copy.mem = [p \in DOMAIN copy.mem |-> copy.mem[p]]

\* One block more is copied.
LEMMA GrownBy ==
  ASSUME NEW h, NEW g, NEW G, NEW m, NEW where, Twins(h, g, m, where), NEW a \in DOMAIN h.heap, a \notin DOMAIN m,
         NEW x \in DOMAIN G \ DOMAIN g, Shaped(h.heap[a], G[x]),
         NEW M, M = With(m, a, x)
  PROVE  Grown(h, g, G, m, M) /\ a \in DOMAIN M /\ M[a] = x /\ DOMAIN M \ DOMAIN m = {a}
<1>1. DOMAIN M = DOMAIN m \cup {a} /\ M[a] = x /\ \A b \in DOMAIN m : M[b] = m[b]
  BY DEF With
<1>2. Extends(m, M) /\ DOMAIN M \subseteq DOMAIN h.heap
  BY <1>1 DEF Extends, Twins
<1>3. DOMAIN M \ DOMAIN m = {a}
  BY <1>1
<1>4. \A b \in DOMAIN M \ DOMAIN m : b = a
  BY <1>3
<1>5. G[x].cls = h.heap[a].cls /\ G[x].mem = [p \in DOMAIN h.heap[a].mem |-> G[x].mem[p]]
  BY DEF Shaped
<1>6. Grown(h, g, G, m, M)
  BY <1>1, <1>2, <1>4, <1>5 DEF Grown
<1> QED BY <1>1, <1>3, <1>6

\* Words that are no references are right as they are.
LEMMA PlainRight ==
  ASSUME NEW h, NEW m, NEW b, NEW q, NEW v, v = h.heap[b].mem[q],
         WordTypes(h.heap[b].cls)[q] \in {"INT_PARM", "FLOAT_PARM"} \/ v = 0 \/ h.heap[b].cls = 0
  PROVE  Right(h, m, b, q, v)
BY DEF Right, References, Reference, Arrays

\* References are right if they refer to the copy.
LEMMA ReferenceRight ==
  ASSUME NEW h, NEW m, NEW b, NEW q \in DOMAIN h.heap[b].mem, h.heap[b].cls # 0,
         WordTypes(h.heap[b].cls)[q] \in Arrays \cup {"OBJ_PARM"},
         NEW a, a = h.heap[b].mem[q], a # 0, a \in DOMAIN m
  PROVE  Right(h, m, b, q, m[a]) /\ q \in References(h.heap[b])
BY DEF Right, References, Reference

\* A reader at work inside a graph, the writer in configuration w, m the copies so far.
Busy(h, met, steps, last, w, levels, old, m) ==
  /\ Walk(h, met) /\ Good(h, met) /\ Neat(h, met) /\ status = "read" /\ readers # <<>>
  /\ Complete(h, met, steps, last) /\ w \in steps /\ w.turn = turn /\ Follow(h, met, w, levels, readers)
  /\ DOMAIN h.heap \subseteq old /\ old \subseteq DOMAIN heap /\ Work(h, heap, old, w, levels, readers, m)

\* What a reader in its loop knows.
LEMMA InVariable ==
  ASSUME NEW h \in Heaps, NEW met, NEW steps, NEW last, NEW w, NEW levels, NEW old, NEW m,
         Busy(h, met, steps, last, w, levels, old, m), r.cls # 0, r.dclr_pos <= Len(declared),
         NEW b, b = levels[Len(readers)].of, NEW type, type = declared[r.dclr_pos], NEW p, p = r.instance_pos,
         NEW a, a = About(w), NEW at, at = r.offset
  PROVE  /\ b \in met /\ b \in DOMAIN m /\ r.instance = m[b] /\ r.instance \in DOMAIN heap \ old
         /\ p \in Nat /\ p >= 1 /\ Place(declared, r.dclr_pos + 1) = p + Size(type) /\ h.heap[b].cls # 0
         /\ Head(w.todo).type = type /\ Len(Head(w.todo).words) = Size(type)
         /\ \A i \in 1..Size(type) :
              /\ p + i - 1 \in DOMAIN h.heap[b].mem /\ WordTypes(h.heap[b].cls)[p + i - 1] = type
              /\ Head(w.todo).words[i] = h.heap[b].mem[p + i - 1]
         /\ type = "INT_PARM" => Narrow(a) = a
         /\ type \in Arrays /\ a # 0 => Contents(type, h.heap[a].mem) = h.heap[a].mem
         /\ at \in Nat /\ w.at = at /\ w.todo # <<>> /\ IsAt(Tokens(h, w), at) /\ IsConfig(h, met, w)
         /\ type \in Arrays => a \in {0} \cup (DOMAIN h.heap \ Objects(h.heap))
         /\ Mapped(m, w, r) /\ DOMAIN r.mem_cache = 1..w.next /\ DOMAIN r = Fields
<1> DEFINE k == Len(readers)
<1>1. /\ Walk(h, met) /\ Good(h, met) /\ Neat(h, met) /\ status = "read" /\ readers # <<>>
      /\ Complete(h, met, steps, last) /\ w \in steps /\ w.turn = turn /\ Follow(h, met, w, levels, readers)
      /\ DOMAIN h.heap \subseteq old /\ old \subseteq DOMAIN heap
  BY DEF Busy
<1>2. Twins(h, heap, m, DOMAIN heap \ old) /\ Mapped(m, w, readers[k]) /\ Placed(h, m, levels, readers, w)
  BY DEF Busy, Work
<1>3. PICK block : block = h.heap[b]
  OBVIOUS
<1>4. /\ b \in met /\ b \in DOMAIN m /\ r.instance = m[b] /\ r.cls = block.cls
      /\ p \in Nat /\ p >= 1 /\ Place(declared, r.dclr_pos + 1) = p + Size(type)
      /\ Head(w.todo) = Items(block)[r.dclr_pos] /\ r.dclr_pos \in 1..Len(declared)
      /\ Head(w.todo).type = type /\ IsSeq(Head(w.todo).words) /\ Len(Head(w.todo).words) = Size(type)
      /\ \A i \in 1..Size(type) :
           /\ p + i - 1 \in DOMAIN block.mem /\ WordTypes(block.cls)[p + i - 1] = type
           /\ Head(w.todo).words[i] = block.mem[p + i - 1]
      /\ \A n \in DOMAIN block.mem : n \in Nat
  BY <1>1, <1>2, <1>3, AtVariable, SMTT(60)
<1>5. \A i \in 1..Size(type) :
              /\ p + i - 1 \in DOMAIN block.mem /\ WordTypes(block.cls)[p + i - 1] = type
              /\ Head(w.todo).words[i] = block.mem[p + i - 1]
  BY <1>4
<1>6. r.instance \in DOMAIN heap \ old
  BY <1>2, <1>4 DEF Twins
<1>7. h.heap[b].cls # 0
  BY <1>1, <1>4 DEF Good
<1>8. /\ type = "INT_PARM" => Narrow(a) = a
      /\ type \in Arrays /\ a # 0 => Contents(type, h.heap[a].mem) = h.heap[a].mem
  <2>1. PICK n, item : n = r.dclr_pos /\ item = Head(w.todo)
    OBVIOUS
  <2>2. n \in 1..Len(Classes[h.heap[b].cls])
    BY <1>3, <1>4, <2>1, Zenon DEF declared
  <2>3. item = Items(h.heap[b])[n] /\ item.type = type /\ a = item.words[1]
    BY <1>3, <1>4, <2>1 DEF About
  <2> QED BY <1>1, <1>4, <2>2, <2>3, ZenonT(60) DEF Neat
<1>9. /\ w.todo # <<>> /\ w.at = at /\ IsAt(Tokens(h, w), w.at) /\ Fits(h, met, Head(w.todo))
  BY <1>1, ReadyFor
<1>10. at \in Nat
  BY <1>1, AtWork
<1>11. IsConfig(h, met, w)
  BY <1>1, GoesToNext
<1>12. k \in Nat /\ k > 0 /\ r = readers[k] /\ IsReader(DOMAIN heap \ DOMAIN h.heap, Len(buffer), r)
  BY <1>1, Innermost
<1>13. DOMAIN r.mem_cache = 1..w.next /\ DOMAIN r = Fields
  BY <1>1, <1>12 DEF Follow, IsReader
<1>14. Mapped(m, w, r)
  BY <1>2, <1>12
<1>15. type \in Arrays => a \in {0} \cup (DOMAIN h.heap \ Objects(h.heap))
  BY <1>4, <1>9 DEF Fits, About
<1> HIDE DEF k
<1>16. \A i \in 1..Size(type) :
              /\ p + i - 1 \in DOMAIN h.heap[b].mem /\ WordTypes(h.heap[b].cls)[p + i - 1] = type
              /\ Head(w.todo).words[i] = h.heap[b].mem[p + i - 1]
  BY <1>3, <1>5
<1>17. IsAt(Tokens(h, w), at)
  BY <1>9
<1> QED BY <1>4, <1>6, <1>7, <1>8, <1>9, <1>10, <1>11, <1>13, <1>14, <1>15, <1>16, <1>17

\* The words are put into the copy.
LEMMA VariableCopied ==
  ASSUME NEW h \in Heaps, NEW met, NEW steps, NEW last, NEW w, NEW levels, NEW old, NEW m,
         Busy(h, met, steps, last, w, levels, old, m), r.cls # 0, r.dclr_pos <= Len(declared),
         NEW M, Grown(h, heap, heap', m, M), NEW words, Len(words) = Size(declared[r.dclr_pos]),
         Wrote(heap, heap', r.instance, r.instance_pos, words),
         \A i \in 1..Len(words) : Right(h, M, levels[Len(readers)].of, r.instance_pos + i - 1, words[i]),
         \A a \in DOMAIN M \ DOMAIN m : \A q \in DOMAIN h.heap[a].mem : Right(h, M, a, q, heap'[M[a]].mem[q]),
         NEW d, d.cls = r.cls, d.dclr_pos = r.dclr_pos + 1, d.instance_pos = r.instance_pos + Len(words),
         d.instance = r.instance, Mapped(M, After(h, w), d), readers' = Replaced(d)
  PROVE  Work(h, heap', old, After(h, w), levels, readers', M) /\ Remain(old, heap, heap')
<1>1. /\ Walk(h, met) /\ Good(h, met) /\ status = "read" /\ readers # <<>>
      /\ Complete(h, met, steps, last) /\ w \in steps /\ Follow(h, met, w, levels, readers)
      /\ old \subseteq DOMAIN heap /\ Work(h, heap, old, w, levels, readers, m)
  BY DEF Busy
<1>2. PICK G, RS, v : G = heap' /\ RS = Replaced(d) /\ v = After(h, w)
  OBVIOUS
<1>3. PICK b, p : b = levels[Len(readers)].of /\ p = r.instance_pos
  OBVIOUS
<1>4. Grown(h, heap, G, m, M) /\ Wrote(heap, G, r.instance, p, words) /\ Mapped(M, v, d)
  BY <1>2, <1>3
<1>5. \A i \in 1..Len(words) : Right(h, M, b, p + i - 1, words[i])
  BY <1>3
<1>6. \A a \in DOMAIN M \ DOMAIN m : \A q \in DOMAIN h.heap[a].mem : Right(h, M, a, q, G[M[a]].mem[q])
  BY <1>2
<1>7. d.instance_pos = p + Len(words)
  BY <1>3
<1>8. Work(h, G, old, v, levels, RS, M)
  BY <1>1, <1>2, <1>3, <1>4, <1>5, <1>6, <1>7, VariableWork
<1>9. r.instance \notin old
  BY InVariable
<1>10. Remain(old, heap, G)
  BY <1>1, <1>4, <1>9 DEF Wrote, Remain
<1> QED BY <1>2, <1>8, <1>10

\* The copies after a step of the innermost reader.
Continues(h, old, w, levels) ==
  (\E M : Work(h, heap', old, After(h, w), levels, readers', M)) /\ Remain(old, heap, heap')

\* An integer or a float.
LEMMA ValueCopied ==
  ASSUME NEW h \in Heaps, NEW met, NEW steps, NEW last, NEW w, NEW levels, NEW old, NEW m,
         Busy(h, met, steps, last, w, levels, old, m), DeserializeValue
  PROVE  Continues(h, old, w, levels)
<1> DEFINE words == IF Ahead1("int") THEN <<Read(r.offset)>> ELSE Read(r.offset)
           d == [Moved(next, Len(words)) EXCEPT !.offset = @ + 1]
<1>1. /\ r.cls # 0 /\ r.dclr_pos <= Len(declared) /\ declared[r.dclr_pos] \in {"INT_PARM", "FLOAT_PARM"}
      /\ heap' = Put(r, words) /\ readers' = Replaced(d)
  BY DEF DeserializeValue, Reads, InLoop
<1>2. PICK b, type, p, a, at : b = levels[Len(readers)].of /\ type = declared[r.dclr_pos] /\ p = r.instance_pos
                               /\ a = About(w) /\ at = r.offset
  OBVIOUS
<1>3. /\ r.instance \in DOMAIN heap /\ p \in Nat /\ p >= 1
      /\ Head(w.todo).type = type /\ Len(Head(w.todo).words) = Size(type)
      /\ type = "INT_PARM" => Narrow(a) = a
      /\ at \in Nat /\ w.at = at /\ w.todo # <<>> /\ IsAt(Tokens(h, w), at)
      /\ Mapped(m, w, r) /\ DOMAIN r = Fields
  BY <1>1, <1>2, InVariable
<1>4. \A i \in 1..Size(type) :
              /\ p + i - 1 \in DOMAIN h.heap[b].mem /\ WordTypes(h.heap[b].cls)[p + i - 1] = type
              /\ Head(w.todo).words[i] = h.heap[b].mem[p + i - 1]
  <2> HIDE DEF words, d
  <2>1. r.cls # 0 /\ r.dclr_pos <= Len(declared)
    BY <1>1
  <2>2. b = levels[Len(readers)].of /\ type = declared[r.dclr_pos] /\ p = r.instance_pos
    BY <1>2
  <2> QED BY <2>1, <2>2, InVariable
<1>5. ~Fresh(w)
  BY <1>1, <1>2, <1>3 DEF Fresh, Arrays
<1>6. PICK list : list = words
  OBVIOUS
<1>7. Len(list) = Size(type) /\ \A i \in 1..Len(list) : list[i] = Head(w.todo).words[i]
  <2>1. CASE type = "INT_PARM"
    <3>1. Holds(at, "int") /\ Read(at) = Narrow(a)
      BY <1>2, <1>3, <2>1, TokensAt, TokenValues
    <3>2. Ahead1("int")
      BY <1>2, <1>3, <3>1, AheadOf DEF Ahead1
    <3>3. list = <<a>>
      BY <1>2, <1>3, <1>6, <2>1, <3>1, <3>2
    <3>4. Len(list) = 1 /\ list[1] = a
      BY <3>3
    <3>5. a = Head(w.todo).words[1] /\ Size(type) = 1
      BY <1>2, <2>1 DEF About, Size
    <3> QED BY <3>4, <3>5
  <2>2. CASE type = "FLOAT_PARM"
    <3>1. Holds(at, "float") /\ Read(at) = Head(w.todo).words
      BY <1>2, <1>3, <2>2, TokensAt, TokenValues
    <3>2. ~Ahead1("int")
      <4>1. Ahead1("int") => buffer[at].kind = "int"
        BY <1>2, <1>3, AheadAre DEF Ahead1
      <4> QED BY <3>1, <4>1 DEF Holds
    <3>3. list = Head(w.todo).words
      BY <1>2, <1>6, <3>1, <3>2
    <3> QED BY <1>3, <3>3
  <2> QED BY <1>1, <1>2, <2>1, <2>2
<1>8. ASSUME NEW i \in 1..Len(list) PROVE Right(h, m, b, p + i - 1, list[i])
  <2>1. /\ WordTypes(h.heap[b].cls)[p + i - 1] = type /\ list[i] = h.heap[b].mem[p + i - 1]
    BY <1>4, <1>7
  <2>2. PICK q, v : q = p + i - 1 /\ v = list[i]
    OBVIOUS
  <2>3. v = h.heap[b].mem[q] /\ WordTypes(h.heap[b].cls)[q] \in {"INT_PARM", "FLOAT_PARM"}
    BY <1>1, <1>2, <2>1, <2>2
  <2>4. Right(h, m, b, q, v)
    BY <2>3, PlainRight
  <2> QED BY <2>2, <2>4
<1>9. /\ d.cls = r.cls /\ d.dclr_pos = r.dclr_pos + 1 /\ d.instance_pos = r.instance_pos + Len(list)
      /\ d.instance = r.instance /\ d.mem_cache = r.mem_cache
  BY <1>3, <1>6 DEF Moved, next, Fields
<1>10. heap' = Put(r, list)
  BY <1>1, <1>6
<1> HIDE DEF words
<1>11. PICK e : e = d
  OBVIOUS
<1>12. readers' = Replaced(e) /\ e.cls = r.cls /\ e.dclr_pos = r.dclr_pos + 1 /\ e.instance = r.instance
       /\ e.instance_pos = r.instance_pos + Len(list) /\ e.mem_cache = r.mem_cache
  BY <1>1, <1>9, <1>11
<1> HIDE DEF d
<1>13. Wrote(heap, heap', r.instance, r.instance_pos, list)
  BY <1>3, <1>10, PutIs DEF Busy
<1>14. Grown(h, heap, heap', m, m)
  BY GrownSame DEF Busy, Work
<1>15. Mapped(m, After(h, w), e)
  BY <1>3, <1>5, <1>12, MappedSame
<1>16. \A i \in 1..Len(list) : Right(h, m, levels[Len(readers)].of, r.instance_pos + i - 1, list[i])
  BY <1>2, <1>8
<1>17. Len(list) = Size(declared[r.dclr_pos])
  BY <1>2, <1>7
<1>18. \A c \in DOMAIN m \ DOMAIN m : \A q \in DOMAIN h.heap[c].mem : Right(h, m, c, q, heap'[m[c]].mem[q])
  OBVIOUS
<1>19. Work(h, heap', old, After(h, w), levels, readers', m) /\ Remain(old, heap, heap')
  BY <1>1, <1>12, <1>13, <1>14, <1>15, <1>16, <1>17, <1>18, VariableCopied
<1> QED BY <1>19 DEF Continues

\* One word that refers to nothing, or to a block with a copy already.
LEMMA WordCopied ==
  ASSUME NEW h \in Heaps, NEW met, NEW steps, NEW last, NEW w, NEW levels, NEW old, NEW m,
         Busy(h, met, steps, last, w, levels, old, m), r.cls # 0, r.dclr_pos <= Len(declared),
         NEW type, type = declared[r.dclr_pos], type \in Arrays \cup {"OBJ_PARM"}, ~Fresh(w),
         NEW v, heap' = Put(r, <<v>>), NEW a, a = About(w), IF a = 0 THEN v = 0 ELSE a \in DOMAIN m /\ v = m[a],
         NEW d, d.cls = r.cls, d.dclr_pos = r.dclr_pos + 1, d.instance_pos = r.instance_pos + 1,
         d.instance = r.instance, d.mem_cache = r.mem_cache, readers' = Replaced(d)
  PROVE  Continues(h, old, w, levels)
<1>1. PICK b, p, at : b = levels[Len(readers)].of /\ p = r.instance_pos /\ at = r.offset
  OBVIOUS
<1>2. /\ r.instance \in DOMAIN heap /\ p \in Nat /\ p >= 1 /\ h.heap[b].cls # 0
      /\ w.todo # <<>> /\ Mapped(m, w, r)
  BY <1>1, InVariable
<1>3. \A i \in 1..Size(type) :
              /\ p + i - 1 \in DOMAIN h.heap[b].mem /\ WordTypes(h.heap[b].cls)[p + i - 1] = type
              /\ Head(w.todo).words[i] = h.heap[b].mem[p + i - 1]
  BY <1>1, InVariable, SMTT(30)
<1>4. Size(type) = 1
  BY DEF Size, Arrays
<1>5. p \in DOMAIN h.heap[b].mem /\ WordTypes(h.heap[b].cls)[p] = type /\ a = h.heap[b].mem[p]
  <2>1. p + 1 - 1 = p /\ 1 \in 1..Size(type)
    BY <1>2, <1>4
  <2> QED BY <1>3, <2>1 DEF About
<1>6. Right(h, m, b, p, v)
  <2>1. CASE a = 0
    BY <1>5, <2>1, PlainRight
  <2>2. CASE a # 0
    BY <1>2, <1>5, <2>2, ReferenceRight
  <2> QED BY <2>1, <2>2
<1>7. PICK list : list = <<v>>
  OBVIOUS
<1>8. Len(list) = 1 /\ list[1] = v
  BY <1>7
<1>9. ASSUME NEW i \in 1..Len(list) PROVE Right(h, m, b, p + i - 1, list[i])
  <2>1. i = 1 /\ p + i - 1 = p
    BY <1>2, <1>8
  <2> QED BY <1>6, <1>8, <2>1
<1>10. heap' = Put(r, list)
  BY <1>7
<1>11. Wrote(heap, heap', r.instance, r.instance_pos, list)
  BY <1>2, <1>10, PutIs DEF Busy
<1>12. Grown(h, heap, heap', m, m)
  BY GrownSame DEF Busy, Work
<1>13. Mapped(m, After(h, w), d)
  BY <1>2, MappedSame
<1>14. \A i \in 1..Len(list) : Right(h, m, levels[Len(readers)].of, r.instance_pos + i - 1, list[i])
  BY <1>1, <1>9
<1>15. Len(list) = Size(declared[r.dclr_pos]) /\ d.instance_pos = r.instance_pos + Len(list)
  BY <1>4, <1>8
<1>16. \A c \in DOMAIN m \ DOMAIN m : \A q \in DOMAIN h.heap[c].mem : Right(h, m, c, q, heap'[m[c]].mem[q])
  OBVIOUS
<1>17. Work(h, heap', old, After(h, w), levels, readers', m) /\ Remain(old, heap, heap')
  BY <1>11, <1>12, <1>13, <1>14, <1>15, <1>16, VariableCopied
<1> QED BY <1>17 DEF Continues

\* Nil.
LEMMA NilCopied ==
  ASSUME NEW h \in Heaps, NEW met, NEW steps, NEW last, NEW w, NEW levels, NEW old, NEW m,
         Busy(h, met, steps, last, w, levels, old, m), Nil
  PROVE  Continues(h, old, w, levels)
<1> DEFINE d == [Moved(next, 1) EXCEPT !.offset = @ + 1]
<1>1. /\ r.cls # 0 /\ r.dclr_pos <= Len(declared) /\ declared[r.dclr_pos] \in Arrays \cup {"OBJ_PARM"}
      /\ Read(r.offset) = 0 /\ heap' = Put(r, <<0>>) /\ readers' = Replaced(d)
  BY DEF Nil, Reads, InLoop
<1>2. PICK type, a, at : type = declared[r.dclr_pos] /\ a = About(w) /\ at = r.offset
  OBVIOUS
<1>3. /\ Head(w.todo).type = type /\ at \in Nat /\ w.at = at /\ w.todo # <<>> /\ IsAt(Tokens(h, w), at)
      /\ DOMAIN r = Fields
  BY <1>1, <1>2, InVariable
<1>4. a = 0
  <2>1. type \in Arrays \cup {"OBJ_PARM"} => (Read(at) = 0 <=> a = 0)
    BY <1>2, <1>3, TokensAt
  <2> QED BY <1>1, <1>2, <2>1
<1>5. ~Fresh(w)
  BY <1>2, <1>4 DEF Fresh
<1>6. /\ d.cls = r.cls /\ d.dclr_pos = r.dclr_pos + 1 /\ d.instance_pos = r.instance_pos + 1
      /\ d.instance = r.instance /\ d.mem_cache = r.mem_cache
  BY <1>3 DEF Moved, next, Fields
<1> HIDE DEF d
<1>7. type \in Arrays \cup {"OBJ_PARM"}
  BY <1>1, <1>2
<1> QED BY <1>1, <1>2, <1>4, <1>5, <1>6, <1>7, WordCopied

\* An array that was read before.
LEMMA OldArrayCopied ==
  ASSUME NEW h \in Heaps, NEW met, NEW steps, NEW last, NEW w, NEW levels, NEW old, NEW m,
         Busy(h, met, steps, last, w, levels, old, m), KnownArray
  PROVE  Continues(h, old, w, levels)
<1> DEFINE d == [Moved(next, 1) EXCEPT !.offset = @ + 2]
<1>1. /\ r.cls # 0 /\ r.dclr_pos <= Len(declared) /\ declared[r.dclr_pos] \in Arrays
      /\ Read(r.offset) # 0 /\ mem_id >= 0
  BY DEF KnownArray, Refers, Reads, InLoop
<1>2. PICK type, a, at : type = declared[r.dclr_pos] /\ a = About(w) /\ at = r.offset
  OBVIOUS
<1>3. /\ Head(w.todo).type = type /\ at \in Nat /\ w.at = at /\ w.todo # <<>> /\ IsAt(Tokens(h, w), at)
      /\ DOMAIN r = Fields /\ IsConfig(h, met, w) /\ Mapped(m, w, r) /\ DOMAIN r.mem_cache = 1..w.next
  BY <1>1, <1>2, InVariable
<1>4. a # 0 /\ mem_id = Numbering(w, a)
  <2>1. type \in Arrays \cup {"OBJ_PARM"} => (Read(at) = 0 <=> a = 0)
    BY <1>2, <1>3, TokensAt
  <2>2. type \in Arrays /\ a # 0 => Read(at + 1) = Numbering(w, a)
    BY <1>2, <1>3, TokensAt
  <2> QED BY <1>1, <1>2, <2>1, <2>2 DEF mem_id
<1>5. a \in DOMAIN w.ids /\ mem_id = w.ids[a] /\ mem_id \in DOMAIN r.mem_cache
  <2>1. a \notin DOMAIN w.ids => ~(Numbering(w, a) >= 0)
    <3>1. a \notin DOMAIN w.ids => Numbering(w, a) = -(w.next + 1)
      BY DEF Numbering
    <3>2. w.next \in Nat
      BY <1>3 DEF IsConfig
    <3> QED BY <3>1, <3>2
  <2>2. a \in DOMAIN w.ids
    BY <1>1, <1>4, <2>1
  <2>3. Numbering(w, a) = w.ids[a] /\ w.ids[a] \in 1..w.next
    BY <1>3, <2>2 DEF Numbering, IsConfig
  <2> QED BY <1>3, <1>4, <2>2, <2>3
<1>6. ~Fresh(w)
  BY <1>2, <1>5 DEF Fresh
<1>7. PICK v : v = Found(mem_id)
  OBVIOUS
<1>8. heap' = Put(r, <<v>>) /\ readers' = Replaced(d)
  BY <1>5, <1>7 DEF KnownArray
<1>9. a \in DOMAIN m /\ v = m[a]
  BY <1>3, <1>5, <1>7 DEF Found, Mapped
<1>10. /\ d.cls = r.cls /\ d.dclr_pos = r.dclr_pos + 1 /\ d.instance_pos = r.instance_pos + 1
      /\ d.instance = r.instance /\ d.mem_cache = r.mem_cache
  BY <1>3 DEF Moved, next, Fields
<1> HIDE DEF d
<1>11. type \in Arrays \cup {"OBJ_PARM"}
  BY <1>1, <1>2
<1> QED BY <1>1, <1>2, <1>4, <1>6, <1>8, <1>9, <1>10, <1>11, WordCopied

\* An array of a program, as it is read back.
LEMMA ArrayIs ==
  ASSUME NEW h \in Heaps, NEW a \in DOMAIN h.heap, h.heap[a].cls = 0, NEW mem, mem = h.heap[a].mem
  PROVE  /\ Array(mem).cls = 0 /\ Array(mem).mem = mem /\ IsBlock(Array(mem))
         /\ mem = [q \in DOMAIN mem |-> mem[q]]
<1>1. mem \in Seq(Int)
  <2>1. h.heap[a] \in [cls : {0} \cup DOMAIN Classes, mem : Seq(Int)]
    BY Program
  <2> QED BY <2>1
<1>2. Len(mem) \in Nat /\ DOMAIN mem = 1..Len(mem) /\ mem = [q \in DOMAIN mem |-> mem[q]]
  BY <1>1
<1>3. mem[1] \in Nat /\ mem[2] \in Nat /\ Len(mem) = 2 + mem[2] + mem[1]
  BY HeapsAssumption
<1>4. PICK block : block = Array(mem)
  OBVIOUS
<1>5. block.cls = 0 /\ DOMAIN block = {"cls", "mem"}
      /\ block.mem = [n \in 1 .. 2 + mem[2] + mem[1] |-> IF n <= Len(mem) THEN mem[n] ELSE 0]
  BY <1>4 DEF Array
<1>6. block.mem = mem
  <2>1. block.mem = [n \in 1..Len(mem) |-> IF n <= Len(mem) THEN mem[n] ELSE 0]
    BY <1>3, <1>5
  <2>2. \A n \in 1..Len(mem) : n <= Len(mem)
    BY <1>2
  <2>3. [n \in 1..Len(mem) |-> IF n <= Len(mem) THEN mem[n] ELSE 0] = [n \in 1..Len(mem) |-> mem[n]]
    BY <2>2
  <2>4. mem = [n \in 1..Len(mem) |-> mem[n]]
    BY <1>2
  <2> QED BY <2>1, <2>3, <2>4
<1> QED BY <1>2, <1>4, <1>5, <1>6 DEF IsBlock

\* A new array.
LEMMA NewArrayCopied ==
  ASSUME NEW h \in Heaps, NEW met, NEW steps, NEW last, NEW w, NEW levels, NEW old, NEW m,
         Busy(h, met, steps, last, w, levels, old, m), AllocateArray
  PROVE  Continues(h, old, w, levels)
<1> DEFINE d == Cached([Moved(next, 1) EXCEPT !.offset = @ + 3], -mem_id, New)
<1>1. /\ r.cls # 0 /\ r.dclr_pos <= Len(declared) /\ declared[r.dclr_pos] \in Arrays
      /\ Read(r.offset) # 0 /\ mem_id < 0 /\ readers' = Replaced(d)
      /\ heap' = Append(Put(r, <<New>>), Array(Read(r.offset + 2)))
  BY DEF AllocateArray, Refers, Reads, InLoop
<1>2. PICK b, type, p, a, at : b = levels[Len(readers)].of /\ type = declared[r.dclr_pos] /\ p = r.instance_pos
                               /\ a = About(w) /\ at = r.offset
  OBVIOUS
<1>3. r.cls # 0 /\ r.dclr_pos <= Len(declared)
  BY <1>1
<1>4. b = levels[Len(readers)].of /\ type = declared[r.dclr_pos] /\ p = r.instance_pos
       /\ a = About(w) /\ at = r.offset
  BY <1>2
<1> HIDE DEF d
<1>5. /\ r.instance \in DOMAIN heap /\ p \in Nat /\ p >= 1 /\ h.heap[b].cls # 0 /\ Head(w.todo).type = type
      /\ at \in Nat /\ w.at = at /\ w.todo # <<>> /\ IsAt(Tokens(h, w), at)
      /\ DOMAIN r = Fields /\ IsConfig(h, met, w) /\ Mapped(m, w, r) /\ DOMAIN r.mem_cache = 1..w.next
  BY <1>3, <1>4, InVariable
<1>6. \A i \in 1..Size(type) :
              /\ p + i - 1 \in DOMAIN h.heap[b].mem /\ WordTypes(h.heap[b].cls)[p + i - 1] = type
              /\ Head(w.todo).words[i] = h.heap[b].mem[p + i - 1]
  BY <1>3, <1>4, InVariable
<1>7. /\ type \in Arrays => a \in {0} \cup (DOMAIN h.heap \ Objects(h.heap))
      /\ type \in Arrays /\ a # 0 => Contents(type, h.heap[a].mem) = h.heap[a].mem
  BY <1>3, <1>4, InVariable
<1>8. a # 0 /\ mem_id = Numbering(w, a)
  <2>1. type \in Arrays \cup {"OBJ_PARM"} => (Read(at) = 0 <=> a = 0)
    BY <1>2, <1>5, TokensAt
  <2>2. type \in Arrays /\ a # 0 => Read(at + 1) = Numbering(w, a)
    BY <1>2, <1>5, TokensAt
  <2> QED BY <1>1, <1>2, <2>1, <2>2 DEF mem_id
<1>9. PICK id : id = w.next + 1
  OBVIOUS
<1>10. a \notin DOMAIN w.ids /\ -mem_id = id
  <2>1. /\ w.next \in Nat
        /\ a \in DOMAIN w.ids => Numbering(w, a) \in 1..w.next
        /\ a \notin DOMAIN w.ids => -Numbering(w, a) = w.next + 1
    BY <1>5, Numbered
  <2>2. CASE a \in DOMAIN w.ids
    BY <1>1, <1>8, <2>1, <2>2
  <2>3. CASE a \notin DOMAIN w.ids
    BY <1>8, <1>9, <2>1, <2>3
  <2> QED BY <2>2, <2>3
<1>11. Fresh(w)
  BY <1>1, <1>2, <1>5, <1>8, <1>10 DEF Fresh
<1>12. PICK mem : mem = h.heap[a].mem
  OBVIOUS
<1>13. Read(at + 2) = mem
  <2>1. type \in Arrays /\ a # 0 /\ a \notin DOMAIN w.ids => Read(at + 2) = Contents(type, h.heap[a].mem)
    BY <1>2, <1>5, TokenValues
  <2> QED BY <1>1, <1>2, <1>7, <1>8, <1>10, <1>12, <2>1
<1>14. a \in DOMAIN h.heap /\ h.heap[a].cls = 0
  BY <1>1, <1>2, <1>7, <1>8 DEF Objects
<1>15. PICK block : block = Array(mem)
  OBVIOUS
<1>16. block.cls = 0 /\ block.mem = mem /\ IsBlock(block) /\ mem = [q \in DOMAIN mem |-> mem[q]]
  BY <1>12, <1>14, <1>15, ArrayIs
<1>17. PICK x : x = New
  OBVIOUS
<1>18. PICK list : list = <<x>>
  OBVIOUS
<1>19. Len(list) = 1 /\ list[1] = x
  BY <1>18
<1>20. PICK P : P = Put(r, list)
  OBVIOUS
<1>21. PICK G : G = Append(P, block)
  OBVIOUS
<1>22. heap' = G
  BY <1>1, <1>2, <1>13, <1>15, <1>17, <1>18, <1>20, <1>21
<1>23. Walk(h, met) /\ status = "read" /\ readers # <<>> /\ old \subseteq DOMAIN heap
       /\ Twins(h, heap, m, DOMAIN heap \ old)
  BY DEF Busy, Work
<1>24. Wrote(heap, P, r.instance, p, list) /\ DOMAIN P = DOMAIN heap
  BY <1>2, <1>5, <1>20, <1>23, PutIs
<1>25. Keeps(h, P) /\ Len(P) = Len(heap)
  BY <1>20, <1>23, AtWork, PutWalks
<1>26. /\ Len(P) + 1 \in DOMAIN G /\ DOMAIN P \subseteq DOMAIN G /\ G[Len(P) + 1] = block
       /\ \A c \in DOMAIN P : G[c] = P[c]
  BY <1>16, <1>21, <1>25, NewKeeps
<1>27. x = Len(P) + 1 /\ x \notin DOMAIN heap
  <2>1. IsSeq(heap)
    BY <1>23, AtWork
  <2>2. Len(heap) \in Nat /\ DOMAIN heap = 1..Len(heap)
    BY <2>1, SeqHas
  <2> QED BY <1>17, <1>25, <2>2 DEF New
<1>28. x \in DOMAIN G \ DOMAIN heap /\ G[x] = block
  BY <1>26, <1>27
<1>29. Wrote(heap, G, r.instance, p, list)
  BY <1>5, <1>24, <1>26 DEF Wrote
<1>30. PICK M : M = With(m, a, x)
  OBVIOUS
<1>31. a \notin DOMAIN m
  BY <1>5, <1>10 DEF Mapped
<1>32. Grown(h, heap, G, m, M) /\ a \in DOMAIN M /\ M[a] = x /\ DOMAIN M \ DOMAIN m = {a}
  <2>1. G[x].cls = h.heap[a].cls
    BY <1>14, <1>16, <1>28
  <2>2. DOMAIN G[x].mem = DOMAIN h.heap[a].mem
    BY <1>12, <1>16, <1>28
  <2>3. G[x].mem = [q \in DOMAIN G[x].mem |-> G[x].mem[q]]
    BY <1>16, <1>28
  <2>4. Shaped(h.heap[a], G[x])
    BY <2>1, <2>2, <2>3 DEF Shaped
  <2> QED BY <1>14, <1>23, <1>28, <1>30, <1>31, <2>4, GrownBy
<1>33. ASSUME NEW c \in DOMAIN M \ DOMAIN m, NEW q \in DOMAIN h.heap[c].mem
       PROVE  Right(h, M, c, q, G[M[c]].mem[q])
  <2>1. c = a /\ G[M[c]].mem = h.heap[c].mem /\ h.heap[c].cls = 0
    BY <1>12, <1>14, <1>16, <1>28, <1>32
  <2>2. PICK v : v = G[M[c]].mem[q]
    OBVIOUS
  <2>3. v = h.heap[c].mem[q]
    BY <2>1, <2>2
  <2> QED BY <2>1, <2>2, <2>3, PlainRight
<1>34. Size(type) = 1 /\ type \in Arrays
  BY <1>1, <1>2 DEF Size, Arrays
<1>35. p \in DOMAIN h.heap[b].mem /\ WordTypes(h.heap[b].cls)[p] = type /\ a = h.heap[b].mem[p]
  <2>1. p + 1 - 1 = p /\ 1 \in 1..Size(type)
    BY <1>5, <1>34
  <2> QED BY <1>2, <1>6, <2>1 DEF About
<1>36. Right(h, M, b, p, x)
  <2>1. Right(h, M, b, p, M[a])
    BY <1>5, <1>8, <1>32, <1>34, <1>35, ReferenceRight
  <2> QED BY <1>32, <2>1
<1>37. ASSUME NEW i \in 1..Len(list) PROVE Right(h, M, b, p + i - 1, list[i])
  <2>1. i = 1 /\ p + i - 1 = p
    BY <1>5, <1>19
  <2> QED BY <1>19, <1>36, <2>1
<1>38. PICK e : e = d
  OBVIOUS
<1>39. /\ e.cls = r.cls /\ e.dclr_pos = r.dclr_pos + 1 /\ e.instance_pos = r.instance_pos + 1
       /\ e.instance = r.instance
       /\ e.mem_cache = With(r.mem_cache, id, x)
  BY <1>5, <1>10, <1>17, <1>38 DEF With, d, Cached, Moved, next, Fields
<1>40. readers' = Replaced(e)
  BY <1>1, <1>38
<1>41. Mapped(M, After(h, w), e)
  <2>1. e.mem_cache = With(r.mem_cache, id, x)
    BY <1>39
  <2>2. IsConfig(h, met, w) /\ w.todo # <<>> /\ Mapped(m, w, r) /\ DOMAIN r.mem_cache = 1..w.next
    BY <1>5
  <2>3. a = About(w)
    BY <1>2
  <2>4. Mapped(With(m, a, x), After(h, w), e)
    BY <1>9, <1>11, <2>1, <2>2, <2>3, MappedMore
  <2> QED BY <1>30, <2>4
<1>42. \A i \in 1..Len(list) : Right(h, M, levels[Len(readers)].of, r.instance_pos + i - 1, list[i])
  BY <1>2, <1>37
<1>43. Len(list) = Size(declared[r.dclr_pos]) /\ e.instance_pos = r.instance_pos + Len(list)
  BY <1>2, <1>19, <1>34, <1>39
<1>44. Grown(h, heap, heap', m, M) /\ Wrote(heap, heap', r.instance, r.instance_pos, list)
  BY <1>2, <1>22, <1>29, <1>32
<1>45. \A c \in DOMAIN M \ DOMAIN m : \A q \in DOMAIN h.heap[c].mem : Right(h, M, c, q, heap'[M[c]].mem[q])
  BY <1>22, <1>33
<1>46. Work(h, heap', old, After(h, w), levels, readers', M) /\ Remain(old, heap, heap')
  BY <1>3, <1>39, <1>40, <1>41, <1>42, <1>43, <1>44, <1>45, VariableCopied
<1> QED BY <1>46 DEF Continues

\* A nested reader begins, for the block that its outer reader waits for.
LEMMA InnerWork ==
  ASSUME NEW h \in Heaps, NEW met, NEW steps, NEW last, NEW w, NEW levels, NEW old, NEW m,
         Busy(h, met, steps, last, w, levels, old, m), DeserializeInner
  PROVE  Work(h, heap', old, w, Level(levels, Len(readers) + 1, About(w), Tail(w.todo)), readers', m)
<1>1. /\ r.cls # 0 /\ r.dclr_pos <= Len(declared) /\ declared[r.dclr_pos] = "OBJ_PARM" /\ heap' = heap
      /\ readers' = Append(Replaced([next EXCEPT !.offset = @ + 1]), Reader(r.base, r.offset + 1, r.mem_cache))
  BY DEF DeserializeInner, Refers, Reads, InLoop
<1>2. PICK k, d, e, rs, qs : k = Len(readers) /\ d = [next EXCEPT !.offset = @ + 1]
        /\ e = Reader(r.base, r.offset + 1, r.mem_cache) /\ rs = Replaced(d) /\ qs = Append(rs, e)
  OBVIOUS
<1>3. /\ Walk(h, met) /\ status = "read" /\ readers # <<>>
      /\ Twins(h, heap, m, DOMAIN heap \ old) /\ Filling(h, heap, m, levels, readers)
      /\ Placed(h, m, levels, readers, w) /\ old \subseteq DOMAIN heap
  BY DEF Busy, Work
<1>4. PICK b, type, p, a : b = levels[Len(readers)].of /\ type = declared[r.dclr_pos] /\ p = r.instance_pos
                           /\ a = About(w)
  OBVIOUS
<1>5. /\ p \in Nat /\ p >= 1 /\ Place(declared, r.dclr_pos + 1) = p + Size(type) /\ h.heap[b].cls # 0
      /\ DOMAIN r = Fields /\ Mapped(m, w, r)
  BY <1>1, <1>4, InVariable
<1>6. \A i \in 1..Size(type) :
              /\ p + i - 1 \in DOMAIN h.heap[b].mem /\ WordTypes(h.heap[b].cls)[p + i - 1] = type
              /\ Head(w.todo).words[i] = h.heap[b].mem[p + i - 1]
  <2>1. r.cls # 0 /\ r.dclr_pos <= Len(declared)
    BY <1>1
  <2>2. b = levels[Len(readers)].of /\ type = declared[r.dclr_pos] /\ p = r.instance_pos
    BY <1>4
  <2> QED BY <2>1, <2>2, InVariable
<1>7. Size(type) = 1 /\ type = "OBJ_PARM"
  BY <1>1, <1>4 DEF Size
<1>8. p \in References(h.heap[b]) /\ h.heap[b].mem[p] = a
  <2>1. p + 1 - 1 = p /\ 1 \in 1..Size(type)
    BY <1>5, <1>7
  <2>2. p \in DOMAIN h.heap[b].mem /\ WordTypes(h.heap[b].cls)[p] = type /\ a = h.heap[b].mem[p]
    BY <1>4, <1>6, <2>1 DEF About
  <2> QED BY <1>5, <1>7, <2>2 DEF References, Reference
<1>9. k \in Nat /\ k > 0 /\ r = readers[k] /\ DOMAIN readers = 1..k
  BY <1>2, <1>3, Innermost
<1>10. /\ d.cls = r.cls /\ d.dclr_pos = r.dclr_pos + 1 /\ d.instance_pos = p /\ d.instance = r.instance
  BY <1>2, <1>4, <1>5 DEF next, Fields
<1>11. e.cls = 0 /\ e.mem_cache = r.mem_cache /\ e.instance_pos = 1
  BY <1>2 DEF Reader
<1>12. IsSeq(rs) /\ Len(rs) = k /\ rs[k] = d /\ \A n \in 1..(k - 1) : rs[n] = readers[n]
  <2>1. IsSeq(Replaced(d)) /\ Len(Replaced(d)) = Len(readers) /\ Replaced(d)[Len(readers)] = d
    BY <1>3, Innermost
  <2>2. \A n \in 1..(Len(readers) - 1) : Replaced(d)[n] = readers[n]
    BY <1>3, Innermost
  <2> QED BY <1>2, <2>1, <2>2
<1>13. IsSeq(qs) /\ Len(qs) = k + 1 /\ qs[k + 1] = e /\ \A n \in 1..k : qs[n] = rs[n]
  <2>1. qs = Append(rs, e)
    BY <1>2
  <2>2. IsSeq(qs) /\ Len(qs) = Len(rs) + 1 /\ qs[Len(rs) + 1] = e
    BY <1>12, <2>1, Longer, ZenonT(60)
  <2>3. \A n \in 1..Len(rs) : qs[n] = rs[n]
    BY <1>12, <2>1, Longer
  <2> QED BY <1>12, <2>2, <2>3
<1>14. DOMAIN qs = 1..(k + 1)
  BY <1>13, SeqHas
<1>15. PICK lv : lv = Level(levels, k + 1, a, Tail(w.todo))
  OBVIOUS
<1>16. lv[k + 1].of = a /\ \A n \in 1..k : lv[n] = levels[n]
  BY <1>9, <1>15 DEF Level
<1>17. ASSUME NEW n \in 1..k
       PROVE  /\ n \in DOMAIN qs /\ qs[n].cls = readers[n].cls /\ qs[n].instance = readers[n].instance
              /\ qs[n].instance_pos = readers[n].instance_pos
  <2>1. n \in DOMAIN qs
    BY <1>9, <1>14
  <2>2. CASE n = k
    <3>1. qs[n] = d /\ readers[n] = r
      BY <1>9, <1>12, <1>13, <2>2
    <3>2. r.instance_pos = p
      BY <1>4
    <3> QED BY <1>10, <2>1, <3>1, <3>2
  <2>3. CASE n # k
    <3>1. n \in 1..(k - 1)
      BY <1>9, <2>3
    <3> QED BY <1>12, <1>13, <2>1, <3>1
  <2> QED BY <2>2, <2>3
<1>18. Twins(h, heap, m, DOMAIN heap \ old) /\ Filling(h, heap, m, lv, qs)
  <2>1. Grown(h, heap, heap, m, m)
    BY <1>3, GrownSame
  <2>2. \A n \in DOMAIN readers : readers[n].cls # 0 =>
          n \in DOMAIN qs /\ qs[n].cls # 0 /\ lv[n].of = levels[n].of /\ qs[n].instance_pos = readers[n].instance_pos
    BY <1>9, <1>16, <1>17
  <2>3. Ready(h, levels, readers, lv, qs, DOMAIN m \ DOMAIN m)
    BY <2>2 DEF Ready
  <2>4. Remain(DOMAIN heap, heap, heap)
    BY DEF Remain
  <2>5. old \subseteq DOMAIN heap
    BY <1>3
  <2>6. Twins(h, heap, m, DOMAIN heap \ old)
    BY <1>3
  <2>7. Filling(h, heap, m, levels, readers)
    BY <1>3
  <2> QED BY <2>1, <2>3, <2>4, <2>5, <2>6, <2>7, Opens
<1>19. ASSUME NEW n \in 1..(k + 1), qs[n].cls # 0
       PROVE  lv[n].of \in DOMAIN m /\ qs[n].instance = m[lv[n].of]
  <2>1. n # k + 1
    BY <1>11, <1>13, <1>19
  <2>2. n \in 1..k
    BY <1>9, <2>1
  <2>3. readers[n].cls # 0 /\ lv[n] = levels[n] /\ qs[n].instance = readers[n].instance
    BY <1>16, <1>17, <1>19, <2>2
  <2> QED BY <1>2, <1>3, <2>2, <2>3 DEF Placed
<1>20. ASSUME NEW n \in 1..k
       PROVE  qs[n].cls # 0 /\ Waits(h, qs[n], lv[n], lv[n + 1])
  <2>1. CASE n = k
    <3>1. qs[n] = d /\ lv[n].of = b /\ lv[n + 1].of = a
      <4>1. lv[n] = levels[k]
        BY <1>16, <2>1
      <4> QED BY <1>2, <1>4, <1>12, <1>13, <1>16, <2>1, <4>1
    <3>2. Place(Classes[d.cls], d.dclr_pos) = p + 1
      BY <1>5, <1>7, <1>10 DEF declared
    <3> QED BY <1>1, <1>8, <1>10, <3>1, <3>2 DEF Waits
  <2>2. CASE n # k
    <3>1. n \in 1..(k - 1) /\ n + 1 \in 1..k /\ n \in 1..k
      BY <1>9, <2>2
    <3>2. qs[n] = readers[n] /\ lv[n] = levels[n] /\ lv[n + 1] = levels[n + 1]
      BY <1>12, <1>13, <1>16, <3>1
    <3> QED BY <1>2, <1>3, <3>1, <3>2 DEF Placed
  <2> QED BY <2>1, <2>2
<1>21. Placed(h, m, lv, qs, w)
  <2>1. (k + 1) - 1 = k
    BY <1>9
  <2> QED BY <1>4, <1>11, <1>13, <1>16, <1>19, <1>20, <2>1 DEF Placed
<1>22. Mapped(m, w, qs[Len(qs)])
  BY <1>5, <1>11, <1>13 DEF Mapped
<1>23. Work(h, heap, old, w, lv, qs, m)
  BY <1>18, <1>21, <1>22 DEF Work
<1> QED BY <1>1, <1>2, <1>4, <1>15, <1>23

\* A new object, of which no variable has been read.
LEMMA NewWork ==
  ASSUME NEW h \in Heaps, NEW met, NEW steps, NEW last, NEW w, NEW levels, NEW old, NEW m,
         Busy(h, met, steps, last, w, levels, old, m), AllocateObject
  PROVE  /\ \E M : Work(h, heap', old, After(h, w), Level(levels, Len(readers), About(w), Tail(w.todo)), readers', M)
         /\ Remain(old, heap, heap')
<1>1. /\ status = "read" /\ readers # <<>> /\ r.cls = 0 /\ mem_id < 0
      /\ heap' = Append(heap, [cls |-> Read(r.offset), mem |-> [n \in 1..Words(Classes[Read(r.offset)]) |-> 0]])
      /\ readers' = Replaced([Cached(Skipped(2), -mem_id, New) EXCEPT !.cls = Read(r.offset), !.instance = New])
  BY DEF AllocateObject, Entering
<1>2. PICK k, a, cls, x : k = Len(readers) /\ a = About(w) /\ cls = Read(r.offset) /\ x = New
  OBVIOUS
<1>3. /\ Walk(h, met) /\ Good(h, met) /\ Complete(h, met, steps, last) /\ w \in steps
      /\ Follow(h, met, w, levels, readers) /\ old \subseteq DOMAIN heap
      /\ Twins(h, heap, m, DOMAIN heap \ old) /\ Filling(h, heap, m, levels, readers)
      /\ Placed(h, m, levels, readers, w) /\ Mapped(m, w, readers[k])
  BY <1>2 DEF Busy, Work
<1>4. /\ a \in met /\ h.heap[a].cls \in DOMAIN Classes
      /\ Read(r.offset) = h.heap[a].cls /\ mem_id = Numbering(w, a)
      /\ w.todo # <<>> /\ Head(w.todo).type = "OBJ_PARM" /\ a # 0 /\ IsSeq(Tail(w.todo))
      /\ IsConfig(h, met, w) /\ DOMAIN r.mem_cache = 1..w.next
  BY <1>1, <1>2, <1>3, AtObject
<1>5. PICK id : id = w.next + 1
  OBVIOUS
<1>6. a \notin DOMAIN w.ids /\ -mem_id = id
  <2>1. /\ w.next \in Nat
        /\ a \in DOMAIN w.ids => Numbering(w, a) \in 1..w.next
        /\ a \notin DOMAIN w.ids => -Numbering(w, a) = w.next + 1
    BY <1>4, Numbered
  <2>2. CASE a \in DOMAIN w.ids
    BY <1>1, <1>4, <2>1, <2>2
  <2>3. CASE a \notin DOMAIN w.ids
    BY <1>4, <1>5, <2>1, <2>3
  <2> QED BY <2>2, <2>3
<1>7. Fresh(w)
  BY <1>2, <1>4, <1>6 DEF Fresh
<1>8. k \in Nat /\ k > 0 /\ r = readers[k] /\ DOMAIN readers = 1..k /\ DOMAIN r = Fields /\ r.dclr_pos = 1
  BY <1>1, <1>2, <1>3, Innermost DEF IsReader
<1>9. levels[k].of = a /\ r.instance_pos = 1
  BY <1>1, <1>2, <1>3, <1>8 DEF Placed
<1>10. PICK block : block = [cls |-> cls, mem |-> [n \in 1..Words(Classes[cls]) |-> 0]]
  OBVIOUS
<1>11. PICK d : d = [Cached(Skipped(2), -mem_id, New) EXCEPT !.cls = cls, !.instance = New]
  OBVIOUS
<1>12. PICK G, rs : G = Append(heap, block) /\ rs = Replaced(d)
  OBVIOUS
<1>13. heap' = G /\ readers' = rs
  BY <1>1, <1>2, <1>10, <1>11, <1>12
<1>14. /\ d.cls = cls /\ d.instance = x /\ d.instance_pos = 1 /\ d.dclr_pos = 1
       /\ d.mem_cache = With(r.mem_cache, id, x)
  BY <1>2, <1>6, <1>8, <1>9, <1>11 DEF Cached, Skipped, Fields, With
<1>15. cls = h.heap[a].cls /\ cls # 0 /\ a \in DOMAIN h.heap
  BY <1>2, <1>3, <1>4, MetBlock
<1>16. DOMAIN h.heap[a].mem = 1..Words(Classes[cls]) /\ Place(Classes[cls], 1) = 1
  <2>1. PICK own, types : own = h.heap[a] /\ types = Classes[own.cls]
    OBVIOUS
  <2>2. own = h.heap[a]
    BY <2>1
  <2>3. types = Classes[own.cls]
    BY <2>1
  <2>4. Place(types, 1) = 1 /\ Len(own.mem) = Words(types) /\ DOMAIN own.mem = 1..Len(own.mem)
    BY <1>3, <1>4, <2>2, <2>3, PlacesEnd
  <2> QED BY <1>15, <2>2, <2>3, <2>4
<1>17. block.cls = cls /\ DOMAIN block.mem = 1..Words(Classes[cls]) /\ IsBlock(block)
       /\ block.mem = [n \in DOMAIN block.mem |-> block.mem[n]]
  BY <1>4, <1>10, <1>15 DEF IsBlock
<1>18. Keeps(h, heap)
  BY <1>3 DEF Walk, Basic
<1>19. x = Len(heap) + 1 /\ x \notin DOMAIN heap
  <2>1. IsSeq(heap)
    BY <1>18 DEF Keeps
  <2>2. Len(heap) \in Nat /\ DOMAIN heap = 1..Len(heap)
    BY <2>1, SeqHas
  <2> QED BY <1>2, <2>2 DEF New
<1>20. x \in DOMAIN G \ DOMAIN heap /\ G[x] = block /\ DOMAIN heap \subseteq DOMAIN G
       /\ \A c \in DOMAIN heap : G[c] = heap[c]
  <2>1. /\ Len(heap) + 1 \in DOMAIN G /\ DOMAIN heap \subseteq DOMAIN G /\ G[Len(heap) + 1] = block
        /\ \A c \in DOMAIN heap : G[c] = heap[c]
    BY <1>12, <1>17, <1>18, NewKeeps
  <2> QED BY <1>19, <2>1
<1>21. PICK M : M = With(m, a, x)
  OBVIOUS
<1>22. a \notin DOMAIN m
  BY <1>3, <1>6 DEF Mapped
<1>23. Grown(h, heap, G, m, M) /\ a \in DOMAIN M /\ M[a] = x /\ DOMAIN M \ DOMAIN m = {a}
  <2>1. G[x].cls = h.heap[a].cls
    BY <1>15, <1>17, <1>20
  <2>2. DOMAIN G[x].mem = DOMAIN h.heap[a].mem
    BY <1>16, <1>17, <1>20
  <2>3. G[x].mem = [q \in DOMAIN G[x].mem |-> G[x].mem[q]]
    BY <1>17, <1>20
  <2>4. x \in DOMAIN G \ DOMAIN heap
    BY <1>20
  <2>5. Twins(h, heap, m, DOMAIN heap \ old)
    BY <1>3
  <2>6. a \in DOMAIN h.heap
    BY <1>15
  <2>7. Shaped(h.heap[a], G[x])
    BY <2>1, <2>2, <2>3 DEF Shaped
  <2> QED BY <1>21, <1>22, <2>4, <2>5, <2>6, <2>7, GrownBy
<1>24. IsSeq(rs) /\ Len(rs) = k /\ rs[k] = d /\ \A n \in 1..(k - 1) : rs[n] = readers[n]
  <2>1. IsSeq(Replaced(d)) /\ Len(Replaced(d)) = Len(readers) /\ Replaced(d)[Len(readers)] = d
    BY <1>1, <1>3, Innermost
  <2>2. \A n \in 1..(Len(readers) - 1) : Replaced(d)[n] = readers[n]
    BY <1>1, <1>3, Innermost
  <2> QED BY <1>2, <1>12, <2>1, <2>2
<1>25. DOMAIN rs = 1..k
  BY <1>24, SeqHas
<1>26. PICK lv : lv = Level(levels, k, a, Tail(w.todo))
  OBVIOUS
<1>27. lv[k].of = a /\ \A n \in 1..(k - 1) : lv[n] = levels[n]
  BY <1>8, <1>26 DEF Level
<1>28. ASSUME NEW n \in 1..k, readers[n].cls # 0
       PROVE  n \in 1..(k - 1) /\ n \in DOMAIN rs /\ rs[n] = readers[n] /\ lv[n] = levels[n]
  <2>1. n # k
    BY <1>1, <1>8, <1>28
  <2>2. n \in 1..(k - 1)
    BY <1>8, <2>1
  <2> QED BY <1>24, <1>25, <1>27, <2>2
<1>29. Twins(h, G, M, DOMAIN G \ old) /\ Filling(h, G, M, lv, rs)
  <2>1. ASSUME NEW c \in DOMAIN M \ DOMAIN m, NEW q \in DOMAIN h.heap[c].mem PROVE Open(lv, rs, c, q)
    <3>1. c = a
      BY <1>23
    <3>2. q >= 1
      <4>1. q \in 1..Words(Classes[cls])
        BY <1>16, <3>1
      <4> QED BY <4>1
    <3>3. k \in DOMAIN rs /\ rs[k].cls # 0 /\ rs[k].instance_pos = 1
      BY <1>8, <1>14, <1>15, <1>24, <1>25
    <3> QED BY <1>27, <3>1, <3>2, <3>3 DEF Open
  <2>2. \A n \in DOMAIN readers : readers[n].cls # 0 =>
          n \in DOMAIN rs /\ rs[n].cls # 0 /\ lv[n].of = levels[n].of /\ rs[n].instance_pos = readers[n].instance_pos
    BY <1>8, <1>28
  <2>3. Ready(h, levels, readers, lv, rs, DOMAIN M \ DOMAIN m)
    BY <2>1, <2>2 DEF Ready
  <2>4. Remain(DOMAIN heap, heap, G)
    BY <1>20 DEF Remain
  <2>5. old \subseteq DOMAIN heap
    BY <1>3
  <2>6. Twins(h, heap, m, DOMAIN heap \ old)
    BY <1>3
  <2>7. Filling(h, heap, m, levels, readers)
    BY <1>3
  <2>8. Grown(h, heap, G, m, M)
    BY <1>23
  <2> QED BY <2>3, <2>4, <2>5, <2>6, <2>7, <2>8, Opens
<1>30. ASSUME NEW n \in 1..k, rs[n].cls # 0
       PROVE  lv[n].of \in DOMAIN M /\ rs[n].instance = M[lv[n].of]
  <2>1. CASE n = k
    BY <1>14, <1>23, <1>24, <1>27, <2>1
  <2>2. CASE n # k
    <3>1. n \in 1..(k - 1)
      BY <1>8, <2>2
    <3>2. rs[n] = readers[n] /\ lv[n] = levels[n]
      BY <1>24, <1>27, <3>1
    <3>3. levels[n].of \in DOMAIN m /\ readers[n].instance = m[levels[n].of]
      BY <1>2, <1>3, <1>30, <3>2 DEF Placed
    <3> QED BY <1>23, <3>2, <3>3 DEF Grown, Extends
  <2> QED BY <2>1, <2>2
<1>31. ASSUME NEW n \in 1..(k - 1)
       PROVE  rs[n].cls # 0 /\ Waits(h, rs[n], lv[n], lv[n + 1])
  <2>1. readers[n].cls # 0 /\ Waits(h, readers[n], levels[n], levels[n + 1])
    BY <1>2, <1>3 DEF Placed
  <2>2. lv[n + 1].of = levels[n + 1].of
    <3>1. CASE n + 1 = k
      BY <1>9, <1>27, <3>1
    <3>2. CASE n + 1 # k
      <4>1. n + 1 \in 1..(k - 1)
        BY <1>8, <3>2
      <4> QED BY <1>27, <4>1
    <3> QED BY <3>1, <3>2
  <2>3. rs[n] = readers[n] /\ lv[n] = levels[n]
    BY <1>24, <1>27
  <2> QED BY <2>1, <2>2, <2>3 DEF Waits
<1>32. PICK v : v = After(h, w)
  OBVIOUS
<1>33. Placed(h, M, lv, rs, v)
  BY <1>14, <1>15, <1>16, <1>24, <1>30, <1>31 DEF Placed
<1>34. Mapped(M, v, rs[Len(rs)])
  <2>1. d.mem_cache = With(r.mem_cache, id, x)
    BY <1>14
  <2>2. IsConfig(h, met, w) /\ w.todo # <<>> /\ Mapped(m, w, r) /\ DOMAIN r.mem_cache = 1..w.next
    BY <1>3, <1>4, <1>8
  <2>3. a = About(w)
    BY <1>2
  <2>4. Mapped(With(m, a, x), After(h, w), d)
    BY <1>5, <1>7, <2>1, <2>2, <2>3, MappedMore
  <2> QED BY <1>21, <1>24, <1>32, <2>4
<1>35. Work(h, G, old, v, lv, rs, M)
  BY <1>29, <1>33, <1>34 DEF Work
<1>36. Remain(old, heap, G)
  BY <1>3, <1>20 DEF Remain
<1> QED BY <1>2, <1>13, <1>26, <1>32, <1>35, <1>36

-----------------------------------------------------------------------------
(* An object is returned *)

\* A reader has no word of the block it is about to come to any more, or has not begun with it.
Through(h, d, level) == d.cls = 0 \/ \A p \in DOMAIN h.heap[level.of].mem : ~(p >= d.instance_pos)

\* The reader outside puts the copy into its own.
LEMMA ReturnWork ==
  ASSUME NEW h \in Heaps, NEW met, NEW steps, NEW last, NEW w, NEW levels, NEW old, NEW m,
         Busy(h, met, steps, last, w, levels, old, m), Len(readers) # 1,
         NEW c, c = levels[Len(readers)].of, c \in DOMAIN m, Through(h, r, levels[Len(readers)]),
         NEW address, address = m[c], NEW d, Return(address, d), NEW v, Mapped(m, v, d)
  PROVE  Work(h, heap', old, v, levels, readers', m) /\ Remain(old, heap, heap')
<1>1. /\ Walk(h, met) /\ Good(h, met) /\ status = "read" /\ readers # <<>>
      /\ Follow(h, met, w, levels, readers) /\ old \subseteq DOMAIN heap
      /\ Twins(h, heap, m, DOMAIN heap \ old) /\ Filling(h, heap, m, levels, readers)
      /\ Placed(h, m, levels, readers, w)
  BY DEF Busy, Work
<1>2. PICK k, j, o, e, RS, G : k = Len(readers) /\ j = k - 1 /\ o = readers[j] /\ e = Moved(TakenBack(o, d), 1)
        /\ RS = Append(SubSeq(readers, 1, k - 2), e) /\ G = Put(o, <<address>>)
  OBVIOUS
<1>3. k \in Nat /\ k > 0 /\ r = readers[k] /\ DOMAIN readers = 1..k
  BY <1>1, <1>2, Innermost
<1>4. j \in 1..j /\ j + 1 = k /\ j \in 1..k /\ outer = o /\ j \in DOMAIN readers /\ k # j
  <2>1. k # 1 /\ j = k - 1
    BY <1>2
  <2>2. j \in 1..j /\ j + 1 = k /\ j \in 1..k /\ k # j
    BY <1>3, <2>1
  <2>3. outer = o
    BY <1>2 DEF outer
  <2> QED BY <1>3, <2>2, <2>3
<1>5. IsReader(DOMAIN heap \ DOMAIN h.heap, Len(buffer), o)
  BY <1>1, <1>2, <1>4, Outer
<1>6. IsSeq(RS) /\ Len(RS) = j /\ RS[j] = e /\ DOMAIN RS = 1..j /\ \A n \in 1..(k - 2) : RS[n] = readers[n]
  <2>1. PICK rs : rs = Append(SubSeq(readers, 1, Len(readers) - 2), e)
    OBVIOUS
  <2>2. IsSeq(rs) /\ Len(rs) = Len(readers) - 1 /\ rs[Len(readers) - 1] = e /\ DOMAIN rs = 1..(Len(readers) - 1)
    BY <1>1, <2>1, Outer
  <2>3. \A n \in 1..(Len(readers) - 2) : rs[n] = readers[n]
    BY <1>1, <2>1, Outer
  <2> QED BY <1>2, <2>1, <2>2, <2>3
<1>7. readers' = RS /\ heap' = G
  BY <1>2, <1>4 DEF Return
<1>8. PICK b, p : b = levels[j].of /\ p = o.instance_pos
  OBVIOUS
<1>9. o.cls # 0 /\ Waits(h, o, levels[j], levels[k])
  BY <1>1, <1>2, <1>4 DEF Placed
<1>10. p \in References(h.heap[b]) /\ h.heap[b].mem[p] = c /\ Place(Classes[o.cls], o.dclr_pos) = p + 1
  BY <1>2, <1>8, <1>9 DEF Waits
<1>11. b \in DOMAIN m /\ o.instance = m[b]
  BY <1>1, <1>2, <1>4, <1>8, <1>9 DEF Placed
<1>12. c # 0
  <2>1. c \in DOMAIN h.heap
    BY <1>1 DEF Twins
  <2> QED BY <2>1, Program
<1>13. Right(h, m, b, p, address)
  BY <1>10, <1>12 DEF Right
<1>14. \A q \in DOMAIN h.heap[b].mem : q \in Nat
  <2>1. b \in met
    BY <1>1, <1>2, <1>4, <1>8 DEF Follow
  <2>2. PICK block, types : block = h.heap[b] /\ types = Classes[block.cls]
    OBVIOUS
  <2>3. DOMAIN block.mem = 1..Len(block.mem) /\ Len(block.mem) = Words(types) /\ Words(types) \in Nat
    BY <1>1, <2>1, <2>2, PlacesEnd
  <2>4. \A q \in DOMAIN block.mem : q \in Nat
    BY <2>3
  <2> QED BY <2>2, <2>4
<1>15. p \in DOMAIN h.heap[b].mem /\ p \in Nat
  BY <1>10, <1>14 DEF References
<1>16. PICK words : words = <<address>>
  OBVIOUS
<1>17. Len(words) = 1 /\ words[1] = address
  BY <1>16
<1>18. Wrote(heap, G, m[b], p, words)
  <2>1. o.instance \in DOMAIN heap
    BY <1>1, <1>11 DEF Twins
  <2>2. Wrote(heap, Put(o, words), o.instance, o.instance_pos, words)
    BY <1>1, <2>1, PutIs
  <2> QED BY <1>2, <1>8, <1>11, <1>16, <2>2
<1>19. /\ e.cls = o.cls /\ e.dclr_pos = o.dclr_pos /\ e.instance = o.instance /\ e.mem_cache = d.mem_cache
       /\ e.instance_pos = p + 1
  BY <1>2, <1>5, <1>8 DEF Moved, TakenBack, IsReader, Fields
<1>20. ASSUME NEW n \in DOMAIN readers, readers[n].cls # 0
       PROVE  Passes(h, levels, readers, RS, n, j, p)
  <2>1. CASE n = k
    BY <1>2, <1>3, <1>20, <2>1 DEF Through, Passes
  <2>2. CASE n = j
    BY <1>2, <1>4, <1>6, <1>9, <1>19, <2>2 DEF Passes
  <2>3. CASE n # k /\ n # j
    <3>1. n \in 1..(k - 2) /\ n \in 1..j
      BY <1>2, <1>3, <1>4, <2>3
    <3>2. RS[n] = readers[n] /\ n \in DOMAIN RS
      BY <1>6, <3>1
    <3> QED BY <1>20, <3>2 DEF Passes
  <2> QED BY <2>1, <2>2, <2>3
<1>21. Twins(h, G, m, DOMAIN G \ old) /\ Filling(h, G, m, levels, RS)
  <2>1. Grown(h, heap, G, m, m)
    BY <1>1, GrownSame
  <2>2. old \subseteq DOMAIN heap
    BY <1>1
  <2>3. Twins(h, heap, m, DOMAIN heap \ old)
    BY <1>1
  <2>4. Filling(h, heap, m, levels, readers)
    BY <1>1
  <2>5. b = levels[j].of /\ j \in DOMAIN readers /\ p = readers[j].instance_pos
    BY <1>2, <1>4, <1>8
  <2>6. Len(words) \in Nat /\ p + Len(words) - 1 = p
    BY <1>15, <1>17
  <2>7. \A q \in DOMAIN h.heap[b].mem : q \in p .. p + Len(words) - 1 => Right(h, m, b, q, words[q - p + 1])
    <3>1. ASSUME NEW q \in DOMAIN h.heap[b].mem, q \in p .. p + Len(words) - 1 PROVE Right(h, m, b, q, words[q - p + 1])
      <4>1. q = p /\ q - p + 1 = 1
        BY <1>15, <2>6, <3>1
      <4> QED BY <1>13, <1>17, <4>1
    <3> QED BY <3>1
  <2>8. \A a \in DOMAIN m \ DOMAIN m : \A q \in DOMAIN h.heap[a].mem : Right(h, m, a, q, G[m[a]].mem[q])
    OBVIOUS
  <2>9. \A n \in DOMAIN readers : readers[n].cls # 0 => Passes(h, levels, readers, RS, n, j, p + Len(words) - 1)
    BY <1>20, <2>6
  <2> QED BY <1>11, <1>14, <1>15, <1>18, <2>1, <2>2, <2>3, <2>4, <2>5, <2>6, <2>7, <2>8, <2>9, Fills
<1>22. ASSUME NEW n \in 1..j
       PROVE  RS[n].cls = readers[n].cls /\ RS[n].instance = readers[n].instance /\ n \in 1..k
  <2>1. CASE n = j
    BY <1>2, <1>4, <1>6, <1>19, <2>1
  <2>2. CASE n # j
    <3>1. n \in 1..(k - 2) /\ n \in 1..k
      BY <1>2, <1>3, <1>4, <2>2
    <3> QED BY <1>6, <3>1
  <2> QED BY <2>1, <2>2
<1>23. ASSUME NEW n \in 1..j, RS[n].cls # 0
       PROVE  levels[n].of \in DOMAIN m /\ RS[n].instance = m[levels[n].of]
  BY <1>1, <1>2, <1>22, <1>23 DEF Placed
<1>24. ASSUME NEW n \in 1..(j - 1)
       PROVE  RS[n].cls # 0 /\ Waits(h, RS[n], levels[n], levels[n + 1])
  <2>1. n \in 1..(k - 2) /\ n \in 1..(k - 1)
    BY <1>2, <1>3
  <2> QED BY <1>1, <1>2, <1>6, <2>1 DEF Placed
<1>25. e.cls # 0 /\ e.instance_pos = Place(Classes[e.cls], e.dclr_pos)
  BY <1>9, <1>10, <1>19
<1>26. Placed(h, m, levels, RS, v)
  BY <1>6, <1>23, <1>24, <1>25 DEF Placed
<1>27. Mapped(m, v, RS[Len(RS)])
  BY <1>6, <1>19 DEF Mapped
<1>28. Work(h, G, old, v, levels, RS, m)
  BY <1>21, <1>26, <1>27 DEF Work
<1>29. Remain(old, heap, G)
  <2>1. m[b] \notin old
    BY <1>1, <1>11 DEF Twins
  <2> QED BY <1>1, <1>18, <2>1 DEF Wrote, Remain
<1> QED BY <1>7, <1>28, <1>29

-----------------------------------------------------------------------------
(* A graph and its copy *)

\* to is the copy of the graph that begins with from, its blocks are in old but were not in the program
GraphCopied(h, g, old, from, to) ==
  IF from = 0 THEN to = 0
  ELSE \E m : /\ from \in DOMAIN m /\ m[from] = to /\ Twins(h, g, m, old \ DOMAIN h.heap)
              /\ \A a \in DOMAIN m : \A p \in DOMAIN h.heap[a].mem : Right(h, m, a, p, g[m[a]].mem[p])

\* The graphs that are copied stay so.
LEMMA GraphStays ==
  ASSUME NEW h, NEW g, NEW G, NEW old, NEW more, old \subseteq more, Remain(old, g, G), NEW from, NEW to,
         GraphCopied(h, g, old, from, to)
  PROVE  GraphCopied(h, G, more, from, to)
<1>1. CASE from = 0
  BY <1>1 DEF GraphCopied
<1>2. CASE from # 0
  <2>1. PICK m : /\ from \in DOMAIN m /\ m[from] = to /\ Twins(h, g, m, old \ DOMAIN h.heap)
                 /\ \A a \in DOMAIN m : \A p \in DOMAIN h.heap[a].mem : Right(h, m, a, p, g[m[a]].mem[p])
    BY <1>2 DEF GraphCopied
  <2>2. ASSUME NEW a \in DOMAIN m PROVE m[a] \in more \ DOMAIN h.heap /\ G[m[a]] = g[m[a]]
    BY <2>1 DEF Twins, Remain
  <2>3. Twins(h, G, m, more \ DOMAIN h.heap)
    BY <2>1, <2>2 DEF Twins
  <2>4. \A a \in DOMAIN m : \A p \in DOMAIN h.heap[a].mem : Right(h, m, a, p, G[m[a]].mem[p])
    BY <2>1, <2>2
  <2> QED BY <1>2, <2>1, <2>3, <2>4 DEF GraphCopied
<1> QED BY <1>1, <1>2

\* The outermost reader has copied a graph.
LEMMA LastReturn ==
  ASSUME NEW h \in Heaps, NEW met, NEW steps, NEW last, NEW w, NEW levels, NEW old, NEW m,
         Busy(h, met, steps, last, w, levels, old, m), Len(readers) = 1,
         NEW c, c = levels[Len(readers)].of, c \in DOMAIN m, Through(h, r, levels[Len(readers)])
  PROVE  GraphCopied(h, heap, DOMAIN heap, c, m[c])
<1>1. /\ Walk(h, met) /\ status = "read" /\ readers # <<>> /\ DOMAIN h.heap \subseteq old
      /\ Twins(h, heap, m, DOMAIN heap \ old) /\ Filling(h, heap, m, levels, readers)
  BY DEF Busy, Work
<1>2. r = readers[1] /\ DOMAIN readers = {1}
  <2>1. DOMAIN readers = 1..Len(readers) /\ r = readers[Len(readers)]
    BY <1>1, Innermost
  <2> QED BY <2>1
<1>3. ASSUME NEW a \in DOMAIN m, NEW p \in DOMAIN h.heap[a].mem
      PROVE  Right(h, m, a, p, heap[m[a]].mem[p])
  <2>1. ~Open(levels, readers, a, p)
    BY <1>2 DEF Through, Open
  <2> QED BY <1>1, <2>1 DEF Filling
<1>4. Twins(h, heap, m, DOMAIN heap \ DOMAIN h.heap)
  BY <1>1 DEF Twins
<1>5. c # 0
  <2>1. c \in DOMAIN h.heap
    BY <1>1 DEF Twins
  <2> QED BY <2>1, Program
<1> QED BY <1>3, <1>4, <1>5 DEF GraphCopied

\* What a return leaves: a graph that is copied, or readers at work on it.
Given(h, old, v, levels) ==
  IF Len(readers) = 1
  THEN /\ heap' = heap
       /\ \E to : results' = Append(results, to) /\ GraphCopied(h, heap, DOMAIN heap, levels[1].of, to)
  ELSE /\ results' = results
       /\ (\E M : Work(h, heap', old, v, levels, readers', M)) /\ Remain(old, heap, heap')

\* Both cases of Return.
LEMMA ReturnGiven ==
  ASSUME NEW h \in Heaps, NEW met, NEW steps, NEW last, NEW w, NEW levels, NEW old, NEW m,
         Busy(h, met, steps, last, w, levels, old, m),
         NEW c, c = levels[Len(readers)].of, c \in DOMAIN m, Through(h, r, levels[Len(readers)]),
         NEW address, address = m[c], NEW d, Return(address, d), NEW v, Mapped(m, v, d)
  PROVE  Given(h, old, v, levels)
<1>1. CASE Len(readers) = 1
  <2>1. GraphCopied(h, heap, DOMAIN heap, levels[1].of, address)
    BY <1>1, LastReturn
  <2>2. heap' = heap /\ results' = Append(results, address)
    BY <1>1 DEF Return
  <2> QED BY <1>1, <2>1, <2>2 DEF Given
<1>2. CASE Len(readers) # 1
  <2>1. Work(h, heap', old, v, levels, readers', m) /\ Remain(old, heap, heap')
    BY <1>2, ReturnWork
  <2>2. results' = results
    BY <1>2 DEF Return
  <2> QED BY <1>2, <2>1, <2>2 DEF Given
<1> QED BY <1>1, <1>2

\* An object whose variables are all read.
LEMMA EndGiven ==
  ASSUME NEW h \in Heaps, NEW met, NEW steps, NEW last, NEW w, NEW levels, NEW old, NEW m,
         Busy(h, met, steps, last, w, levels, old, m), EndObject
  PROVE  Given(h, old, w, levels)
<1>1. /\ Walk(h, met) /\ Good(h, met) /\ status = "read" /\ readers # <<>>
      /\ Complete(h, met, steps, last) /\ w \in steps /\ Follow(h, met, w, levels, readers)
      /\ Placed(h, m, levels, readers, w) /\ Mapped(m, w, readers[Len(readers)])
  BY DEF Busy, Work
<1>2. r.cls # 0 /\ ~InLoop /\ Return(r.instance, r)
  BY DEF EndObject
<1>3. PICK k, c : k = Len(readers) /\ c = levels[k].of
  OBVIOUS
<1>4. k \in Nat /\ k > 0 /\ r = readers[k] /\ IsReader(DOMAIN heap \ DOMAIN h.heap, Len(buffer), r)
  BY <1>1, <1>3, Innermost
<1>5. c \in met /\ r.cls = h.heap[c].cls
  BY <1>1, <1>2, <1>3, <1>4 DEF Follow
<1>6. c \in DOMAIN m /\ r.instance = m[c] /\ r.instance_pos = Place(Classes[r.cls], r.dclr_pos)
  <2>1. k \in 1..k
    BY <1>4
  <2> QED BY <1>1, <1>2, <1>3, <1>4, <2>1 DEF Placed
<1>7. PICK block, types : block = h.heap[c] /\ types = Classes[block.cls]
  OBVIOUS
<1>8. /\ Place(types, Len(types) + 1) = Len(block.mem) + 1
      /\ Len(block.mem) = Words(types) /\ Words(types) \in Nat /\ DOMAIN block.mem = 1..Len(block.mem)
  BY <1>1, <1>5, <1>7, PlacesEnd
<1>9. Len(types) \in Nat
  BY <1>1, <1>5, <1>7, MetBlock
<1>10. types = declared
  BY <1>5, <1>7 DEF declared
<1>11. r.dclr_pos = Len(types) + 1
  <2>1. ~(r.dclr_pos <= Len(declared))
    BY <1>1, <1>2, ReadyFor
  <2>2. r.dclr_pos \in Nat /\ r.dclr_pos <= Len(types) + 1
    BY <1>2, <1>4, <1>10 DEF IsReader, declared
  <2> QED BY <1>9, <1>10, <2>1, <2>2
<1>12. r.instance_pos = Len(block.mem) + 1
  BY <1>6, <1>8, <1>10, <1>11 DEF declared
<1>13. \A p \in DOMAIN block.mem : ~(p >= r.instance_pos)
  BY <1>8, <1>12
<1>14. Through(h, r, levels[Len(readers)])
  BY <1>3, <1>7, <1>13 DEF Through
<1>15. c = levels[Len(readers)].of /\ Mapped(m, w, r)
  BY <1>1, <1>3, <1>4
<1> QED BY <1>2, <1>6, <1>14, <1>15, ReturnGiven

\* An object that was read before.
LEMMA KnownGiven ==
  ASSUME NEW h \in Heaps, NEW met, NEW steps, NEW last, NEW w, NEW levels, NEW old, NEW m,
         Busy(h, met, steps, last, w, levels, old, m), KnownObject
  PROVE  Given(h, old, After(h, w), levels)
<1>1. /\ Walk(h, met) /\ Good(h, met) /\ status = "read" /\ readers # <<>>
      /\ Complete(h, met, steps, last) /\ w \in steps /\ Follow(h, met, w, levels, readers)
      /\ Placed(h, m, levels, readers, w) /\ Mapped(m, w, readers[Len(readers)])
  BY DEF Busy, Work
<1>2. r.cls = 0 /\ mem_id >= 0 /\ Return(Found(mem_id), Skipped(2))
  BY DEF KnownObject, Entering
<1>3. PICK k, a : k = Len(readers) /\ a = About(w)
  OBVIOUS
<1>4. k \in Nat /\ k > 0 /\ r = readers[k] /\ IsReader(DOMAIN heap \ DOMAIN h.heap, Len(buffer), r)
  BY <1>1, <1>3, Innermost
<1>5. /\ mem_id = Numbering(w, a) /\ w.todo # <<>> /\ IsConfig(h, met, w) /\ DOMAIN r.mem_cache = 1..w.next
  BY <1>1, <1>2, <1>3, AtObject
<1>6. a \in DOMAIN w.ids /\ mem_id = w.ids[a] /\ mem_id \in 1..w.next
  <2>1. /\ w.next \in Nat
        /\ a \in DOMAIN w.ids => Numbering(w, a) \in 1..w.next
        /\ a \notin DOMAIN w.ids => Numbering(w, a) < 0
    BY <1>5, Numbered
  <2>2. CASE a \in DOMAIN w.ids
    BY <1>5, <2>1, <2>2 DEF Numbering
  <2>3. CASE a \notin DOMAIN w.ids
    <3>1. Numbering(w, a) = -(w.next + 1)
      BY <2>3 DEF Numbering
    <3> QED BY <1>2, <1>5, <2>1, <3>1
  <2> QED BY <2>2, <2>3
<1>7. Mapped(m, w, r)
  BY <1>1, <1>3, <1>4
<1>8. a \in DOMAIN m /\ Found(mem_id) = m[a]
  BY <1>5, <1>6, <1>7 DEF Mapped, Found
<1>9. levels[Len(readers)].of = a
  BY <1>1, <1>2, <1>3, <1>4 DEF Placed
<1>10. ~Fresh(w)
  BY <1>3, <1>6 DEF Fresh
<1>11. PICK d : d = Skipped(2)
  OBVIOUS
<1>12. d.mem_cache = r.mem_cache
  BY <1>4, <1>11 DEF Skipped, IsReader, Fields
<1>13. Mapped(m, After(h, w), d)
  BY <1>5, <1>7, <1>10, <1>12, MappedSame
<1>14. Through(h, r, levels[Len(readers)])
  BY <1>2 DEF Through
<1>15. Return(Found(mem_id), d)
  BY <1>2, <1>11
<1> QED BY <1>8, <1>9, <1>13, <1>14, <1>15, ReturnGiven

-----------------------------------------------------------------------------
(* The copies while graphs are read *)

\* The graphs that were read are copied to blocks among old.
Copied(h, g, old, res) ==
  /\ DOMAIN h.heap \subseteq old /\ old \subseteq DOMAIN g
  /\ \A k \in DOMAIN res : GraphCopied(h, g, old, h.roots[k], res[k])
\* Readers are at work on the next one.
Inside(h, met, steps, old, t, rs, g) ==
  \E w \in steps : \E levels, m : /\ w.turn = t /\ levels[1].of = h.roots[t]
                                  /\ Follow(h, met, w, levels, rs) /\ Work(h, g, old, w, levels, rs, m)
Copying(h, met, steps, g, rs, t, p, res) ==
  \E old : /\ Copied(h, g, old, res)
           /\ IF rs = <<>> THEN GraphRead(h, steps, t, p) ELSE Inside(h, met, steps, old, t, rs, g)

\* Copied graphs stay so.
LEMMA CopiedStays ==
  ASSUME NEW h, NEW g, NEW G, NEW old, NEW res, Copied(h, g, old, res), Remain(old, g, G)
  PROVE  Copied(h, G, old, res)
<1>1. ASSUME NEW k \in DOMAIN res PROVE GraphCopied(h, G, old, h.roots[k], res[k])
  <2>1. GraphCopied(h, g, old, h.roots[k], res[k])
    BY DEF Copied
  <2> QED BY <2>1, GraphStays
<1>2. DOMAIN h.heap \subseteq old /\ old \subseteq DOMAIN G
  BY DEF Copied, Remain
<1> QED BY <1>1, <1>2 DEF Copied

\* One graph more.
LEMMA CopiedMore ==
  ASSUME NEW h, NEW g, NEW old, NEW res, IsSeq(res), Copied(h, g, old, res), NEW t, Len(res) = t - 1, t \in Nat,
         NEW from, from = h.roots[t], NEW to, GraphCopied(h, g, DOMAIN g, from, to),
         NEW more, more = Append(res, to)
  PROVE  Copied(h, g, DOMAIN g, more)
<1>1. IsSeq(more) /\ Len(more) = Len(res) + 1 /\ more[Len(res) + 1] = to /\ \A n \in 1..Len(res) : more[n] = res[n]
  <2>1. IsSeq(more) /\ Len(more) = Len(res) + 1 /\ more[Len(res) + 1] = to
    BY Longer
  <2>2. \A n \in 1..Len(res) : more[n] = res[n]
    BY Longer
  <2> QED BY <2>1, <2>2
<1>2. DOMAIN more = 1..t /\ Len(res) + 1 = t /\ DOMAIN res = 1..Len(res)
  <2>1. Len(res) + 1 = t
    OBVIOUS
  <2> QED BY <1>1, <2>1, SeqHas
<1>3. DOMAIN h.heap \subseteq DOMAIN g /\ old \subseteq DOMAIN g
  BY DEF Copied
<1>4. ASSUME NEW k \in DOMAIN more PROVE GraphCopied(h, g, DOMAIN g, h.roots[k], more[k])
  <2>1. CASE k = t
    BY <1>1, <1>2, <2>1
  <2>2. CASE k # t
    <3>1. k \in 1..Len(res)
      BY <1>2, <2>2
    <3>2. GraphCopied(h, g, old, h.roots[k], res[k])
      BY <1>2, <3>1 DEF Copied
    <3>3. Remain(old, g, g)
      BY <1>3 DEF Remain
    <3>4. GraphCopied(h, g, DOMAIN g, h.roots[k], res[k])
      BY <1>3, <3>2, <3>3, GraphStays
    <3> QED BY <1>1, <3>1, <3>4
  <2> QED BY <2>1, <2>2
<1> QED BY <1>3, <1>4 DEF Copied

\* A reader is at work, as before.
LEMMA InsideCopying ==
  ASSUME NEW h, NEW met, NEW steps, NEW w \in steps, NEW t, w.turn = t, NEW levels, levels[1].of = h.roots[t],
         NEW rs, rs # <<>>, Follow(h, met, w, levels, rs), NEW g, NEW old, NEW res, NEW p,
         \E M : Work(h, g, old, w, levels, rs, M), Copied(h, g, old, res)
  PROVE  Copying(h, met, steps, g, rs, t, p, res)
<1>1. Inside(h, met, steps, old, t, rs, g)
  BY DEF Inside
<1> QED BY <1>1 DEF Copying

\* An object is returned: the graph has ended, or the reader outside goes on.
LEMMA ReturnedCopying ==
  ASSUME NEW h \in Heaps, NEW met, Walk(h, met), status = "read", readers # <<>>, NEW steps, NEW old,
         Copied(h, heap, old, results), NEW v \in steps, v.turn = turn, NEW levels, levels[1].of = h.roots[turn],
         Returned(h, met, steps, v, levels), Given(h, old, v, levels)
  PROVE  Copying(h, met, steps, heap', readers', turn', pos', results')
<1>1. Len(results) = turn - 1 /\ turn \in Nat /\ IsSeq(results)
  <2>1. Len(results) = turn - 1 /\ turn \in 1 .. Len(roots) + 1 /\ IsSeq(results) /\ Len(roots) \in Nat
    BY Program DEF Walk, Basic, Stage
  <2> QED BY <2>1
<1>2. CASE Len(readers) = 1
  <2>1. readers' = <<>> /\ GraphRead(h, steps, turn', pos')
    BY <1>2 DEF Returned
  <2>2. PICK to : results' = Append(results, to) /\ GraphCopied(h, heap, DOMAIN heap, levels[1].of, to)
    BY <1>2 DEF Given
  <2>3. heap' = heap
    BY <1>2 DEF Given
  <2>4. PICK more : more = results'
    OBVIOUS
  <2>5. Copied(h, heap, DOMAIN heap, more)
    BY <1>1, <2>2, <2>4, CopiedMore
  <2> QED BY <2>1, <2>3, <2>4, <2>5 DEF Copying
<1>3. CASE Len(readers) # 1
  <2>1. readers' # <<>> /\ turn' = turn /\ Follow(h, met, v, levels, readers')
    BY <1>3 DEF Returned
  <2>2. results' = results /\ (\E M : Work(h, heap', old, v, levels, readers', M)) /\ Remain(old, heap, heap')
    BY <1>3 DEF Given
  <2>3. PICK t, rs, g, res, p : t = turn' /\ rs = readers' /\ g = heap' /\ res = results' /\ p = pos'
    OBVIOUS
  <2>4. Copied(h, g, old, res)
    BY <2>2, <2>3, CopiedStays
  <2>5. \E M : Work(h, g, old, v, levels, rs, M)
    BY <2>2, <2>3
  <2>6. v.turn = t /\ levels[1].of = h.roots[t] /\ rs # <<>> /\ Follow(h, met, v, levels, rs)
    BY <2>1, <2>3
  <2>7. Copying(h, met, steps, g, rs, t, p, res)
    BY <2>4, <2>5, <2>6, InsideCopying
  <2> QED BY <2>3, <2>7
<1> QED BY <1>2, <1>3

\* One step of the reader inside a graph.
LEMMA CopyingOn ==
  ASSUME NEW h \in Heaps, NEW met, Walk(h, met), Good(h, met), Neat(h, met), status = "read", readers # <<>>,
         NEW steps, NEW last, Complete(h, met, steps, last),
         Copying(h, met, steps, heap, readers, turn, pos, results), ReadNext
  PROVE  Copying(h, met, steps, heap', readers', turn', pos', results')
<1>1. PICK old : Copied(h, heap, old, results) /\ Inside(h, met, steps, old, turn, readers, heap)
  BY DEF Copying
<1>2. PICK w \in steps : \E levels, m : /\ w.turn = turn /\ levels[1].of = h.roots[turn]
                                        /\ Follow(h, met, w, levels, readers)
                                        /\ Work(h, heap, old, w, levels, readers, m)
  BY <1>1 DEF Inside
<1>3. PICK levels, m : /\ w.turn = turn /\ levels[1].of = h.roots[turn]
                       /\ Follow(h, met, w, levels, readers) /\ Work(h, heap, old, w, levels, readers, m)
  BY <1>2
<1>4. Busy(h, met, steps, last, w, levels, old, m)
  BY <1>1, <1>3 DEF Busy, Copied
<1>5. PICK k : k = Len(readers)
  OBVIOUS
<1>6. k \in Nat /\ k > 0 /\ r = readers[k] /\ 1 \in 1..k
  <2>1. k \in Nat /\ k > 0 /\ r = readers[k]
    BY <1>5, Innermost
  <2> QED BY <2>1
<1>7. ASSUME NEW v \in steps, NEW lv, v.turn = turn', lv[1].of = h.roots[turn'], readers' # <<>>,
             Follow(h, met, v, lv, readers'), \E M : Work(h, heap', old, v, lv, readers', M),
             Remain(old, heap, heap'), results' = results
      PROVE  Copying(h, met, steps, heap', readers', turn', pos', results')
  <2>1. PICK t, rs, g, res, p : t = turn' /\ rs = readers' /\ g = heap' /\ res = results' /\ p = pos'
    OBVIOUS
  <2>2. Copied(h, g, old, res)
    BY <1>1, <1>7, <2>1, CopiedStays
  <2>3. \E M : Work(h, g, old, v, lv, rs, M)
    BY <1>7, <2>1
  <2>4. v.turn = t /\ lv[1].of = h.roots[t] /\ rs # <<>> /\ Follow(h, met, v, lv, rs)
    BY <1>7, <2>1
  <2>5. Copying(h, met, steps, g, rs, t, p, res)
    BY <2>2, <2>3, <2>4, InsideCopying
  <2> QED BY <2>1, <2>5
<1>8. CASE DeserializeObject \/ EndDeserialize
  BY <1>8 DEF DeserializeObject, BeginObject, EndDeserialize
<1>9. CASE AllocateObject
  <2>1. PICK v, lv : v = After(h, w) /\ lv = Level(levels, Len(readers), About(w), Tail(w.todo))
    OBVIOUS
  <2>2. v \in steps /\ readers' # <<>> /\ v.turn = turn' /\ Follow(h, met, v, lv, readers')
    BY <1>3, <1>9, <2>1, NewObject
  <2>3. (\E M : Work(h, heap', old, v, lv, readers', M)) /\ Remain(old, heap, heap')
    BY <1>4, <1>9, <2>1, NewWork
  <2>4. turn' = turn /\ results' = results
    BY <1>9 DEF AllocateObject, control
  <2>5. lv[1].of = levels[1].of
    <3>1. CASE k = 1
      <4>1. r.cls = 0
        BY <1>9 DEF AllocateObject, Entering
      <4>2. levels[k].of = About(w)
        BY <1>3, <1>5, <1>6, <4>1 DEF Work, Placed
      <4>3. lv[k].of = About(w)
        BY <1>5, <1>6, <2>1 DEF Level
      <4> QED BY <3>1, <4>2, <4>3
    <3>2. CASE k # 1
      BY <1>5, <1>6, <2>1, <3>2 DEF Level
    <3> QED BY <3>1, <3>2
  <2> QED BY <1>3, <1>7, <2>2, <2>3, <2>4, <2>5
<1>10. CASE KnownObject
  <2>1. r.cls = 0
    BY <1>10 DEF KnownObject, Entering
  <2>2. PICK v : v = After(h, w)
    OBVIOUS
  <2>3. v \in steps /\ w.todo # <<>> /\ IsSeq(Tail(w.todo))
    BY <1>3, <2>1, <2>2, AtObject
  <2>4. v.turn = turn
    BY <1>3, <2>2, <2>3, AfterIs
  <2>5. Returned(h, met, steps, v, levels)
    BY <1>3, <1>10, <2>2, OldObject
  <2>6. Given(h, old, v, levels)
    BY <1>4, <1>10, <2>2, KnownGiven
  <2> QED BY <1>1, <1>3, <2>3, <2>4, <2>5, <2>6, ReturnedCopying
<1>11. CASE NoClass
  <2>1. r.cls = 0 /\ ~IsClass
    BY <1>11 DEF NoClass, Entering
  <2>2. IsClass
    BY <1>3, <2>1, AtObject DEF IsClass
  <2> QED BY <2>1, <2>2
<1>12. CASE DeserializeValue \/ Nil \/ AllocateArray \/ KnownArray
  <2>1. PICK v : v = After(h, w)
    OBVIOUS
  <2>2. v \in steps /\ v.turn = turn' /\ Follow(h, met, v, levels, readers') /\ readers' # <<>>
    BY <1>3, <1>12, <2>1, VariableRead
  <2>3. Continues(h, old, w, levels)
    BY <1>4, <1>12, ValueCopied, NilCopied, NewArrayCopied, OldArrayCopied
  <2>4. (\E M : Work(h, heap', old, v, levels, readers', M)) /\ Remain(old, heap, heap')
    BY <2>1, <2>3 DEF Continues
  <2>5. turn' = turn /\ results' = results
    <3>1. CASE DeserializeValue \/ Nil \/ AllocateArray
      BY <3>1 DEF DeserializeValue, Nil, AllocateArray, control
    <3>2. CASE KnownArray
      <4>1. \/ UNCHANGED <<turn, pos, results>>
            \/ Return(0, Skipped(2))
        BY <3>2 DEF KnownArray
      <4>2. CASE Return(0, Skipped(2))
        BY <2>2, <4>2 DEF Return
      <4> QED BY <4>1, <4>2
    <3> QED BY <1>12, <3>1, <3>2
  <2> QED BY <1>3, <1>7, <2>2, <2>4, <2>5
<1>13. CASE DeserializeInner
  <2>1. PICK lv : lv = Level(levels, Len(readers) + 1, About(w), Tail(w.todo))
    OBVIOUS
  <2>2. readers' # <<>> /\ turn' = turn /\ Follow(h, met, w, lv, readers')
    BY <1>3, <1>13, <2>1, InnerBegins
  <2>3. Work(h, heap', old, w, lv, readers', m)
    BY <1>4, <1>13, <2>1, InnerWork
  <2>4. heap' = heap /\ results' = results
    BY <1>13 DEF DeserializeInner
  <2>5. lv[1].of = levels[1].of
    BY <1>5, <1>6, <2>1 DEF Level
  <2>6. Remain(old, heap, heap')
    BY <1>1, <2>4 DEF Copied, Remain
  <2> QED BY <1>3, <1>7, <2>2, <2>3, <2>4, <2>5, <2>6
<1>14. CASE PassOver
  <2>1. r.cls # 0 /\ r.dclr_pos <= Len(declared) /\ declared[r.dclr_pos] = "OBJ_ARY_PARM"
    BY <1>14 DEF PassOver, Reads, InLoop
  <2>2. declared[r.dclr_pos] \in {"INT_PARM", "FLOAT_PARM", "INT_ARY_PARM", "CHAR_ARY_PARM", "OBJ_PARM"}
    BY <1>3, <2>1, ReadyFor
  <2> QED BY <2>1, <2>2
<1>15. CASE EndObject
  <2>1. Returned(h, met, steps, w, levels)
    BY <1>3, <1>15, ObjectEnds
  <2>2. Given(h, old, w, levels)
    BY <1>4, <1>15, EndGiven
  <2> QED BY <1>1, <1>3, <2>1, <2>2, ReturnedCopying
<1> QED BY <1>8, <1>9, <1>10, <1>11, <1>12, <1>13, <1>14, <1>15 DEF ReadNext

\* All blocks that there are.
LEMMA CopiedAll ==
  ASSUME NEW h, NEW g, NEW old, NEW res, Copied(h, g, old, res)
  PROVE  Copied(h, g, DOMAIN g, res)
<1>1. old \subseteq DOMAIN g /\ DOMAIN h.heap \subseteq DOMAIN g /\ Remain(old, g, g)
  BY DEF Copied, Remain
<1>2. ASSUME NEW k \in DOMAIN res PROVE GraphCopied(h, g, DOMAIN g, h.roots[k], res[k])
  <2>1. GraphCopied(h, g, old, h.roots[k], res[k])
    BY DEF Copied
  <2> QED BY <1>1, <2>1, GraphStays
<1> QED BY <1>1, <1>2 DEF Copied

\* Nothing is copied when a graph begins.
LEMMA FirstWork ==
  ASSUME NEW h \in Heaps, NEW g, NEW old, NEW k \in 1..Len(h.roots), NEW p, NEW d, d.cls = 0, d.instance_pos = 1,
         NEW rs, Len(rs) = 1, rs[1] = d
  PROVE  \E m : Work(h, g, old, Begins(h, k, p), Level(<<>>, 1, h.roots[k], <<>>), rs, m)
<1>1. PICK w, lv : w = Begins(h, k, p) /\ lv = Level(<<>>, 1, h.roots[k], <<>>)
  OBVIOUS
<1>2. DOMAIN w.ids = {} /\ About(w) = h.roots[k]
  BY <1>1, FirstOf
<1>3. lv[1].of = h.roots[k]
  BY <1>1 DEF Level
<1>4. PICK m : m = [a \in {} |-> 0]
  OBVIOUS
<1>5. DOMAIN m = {}
  BY <1>4
<1>6. Twins(h, g, m, DOMAIN g \ old) /\ Filling(h, g, m, lv, rs)
  BY <1>5 DEF Twins, Filling
<1>7. Mapped(m, w, rs[Len(rs)])
  BY <1>2, <1>5 DEF Mapped
<1>8. Placed(h, m, lv, rs, w)
  <2>1. \A n \in 1..1 : n = 1
    OBVIOUS
  <2>2. ~\E n \in 1..(1 - 1) : TRUE
    OBVIOUS
  <2> QED BY <1>2, <1>3, <2>1, <2>2 DEF Placed
<1> QED BY <1>1, <1>6, <1>7, <1>8 DEF Work

\* A graph begins.
LEMMA BeginsCopying ==
  ASSUME NEW h \in Heaps, NEW met, Walk(h, met), Good(h, met), readers = <<>>, status = "read",
         NEW steps, NEW last, Complete(h, met, steps, last), GraphRead(h, steps, turn, pos),
         NEW old, Copied(h, heap, old, results), DeserializeObject
  PROVE  Copying(h, met, steps, heap', readers', turn', pos', results')
<1>1. /\ roots = h.roots /\ turn \in 1..Len(h.roots) /\ Len(results) = turn - 1 /\ IsSeq(results) /\ turn \in Nat
      /\ turn <= Len(h.roots)
  <2>1. /\ roots = h.roots /\ turn \in 1..Len(roots) + 1 /\ Len(h.roots) \in Nat /\ Len(results) = turn - 1
        /\ IsSeq(results) /\ turn <= Len(roots)
    BY Program DEF Walk, Basic, Stage, DeserializeObject, BeginObject
  <2> QED BY <2>1
<1>2. heap' = heap
  BY DEF DeserializeObject
<1>3. CASE Read(pos) = 0
  <2>1. h.roots[turn] = 0 /\ readers' = <<>> /\ GraphRead(h, steps, turn', pos')
    BY <1>1, <1>3, GraphBegins
  <2>2. results' = Append(results, 0)
    BY <1>3 DEF DeserializeObject
  <2>3. GraphCopied(h, heap, DOMAIN heap, h.roots[turn], 0)
    BY <2>1 DEF GraphCopied
  <2>4. PICK more : more = results'
    OBVIOUS
  <2>5. Copied(h, heap, DOMAIN heap, more)
    BY <1>1, <2>2, <2>3, <2>4, CopiedMore
  <2> QED BY <1>2, <2>1, <2>4, <2>5 DEF Copying
<1>4. CASE Read(pos) # 0
  <2>1. PICK w, lv : w = Begins(h, turn, pos) /\ lv = Level(<<>>, 1, h.roots[turn], <<>>)
    OBVIOUS
  <2>2. readers' # <<>> /\ turn' = turn /\ w \in steps /\ Follow(h, met, w, lv, readers')
    BY <1>1, <1>4, <2>1, GraphBegins
  <2>3. PICK rs, d : rs = readers' /\ d = Reader(pos + 1, pos + 1, << >>)
    OBVIOUS
  <2>4. rs = <<d>> /\ results' = results
    BY <1>4, <2>3 DEF DeserializeObject
  <2>5. Len(rs) = 1 /\ rs[1] = d
    BY <2>4, ShortList
  <2>6. d.cls = 0 /\ d.instance_pos = 1
    BY <2>3 DEF Reader
  <2>7. \E m : Work(h, heap, old, w, lv, rs, m)
    BY <1>1, <2>1, <2>5, <2>6, FirstWork
  <2>8. w.turn = turn
    BY <2>1 DEF Begins, Config
  <2>9. lv[1].of = h.roots[turn]
    BY <2>1 DEF Level
  <2>10. Copying(h, met, steps, heap, rs, turn, pos', results)
    <3>1. PICK q : q = pos'
      OBVIOUS
    <3>2. Copying(h, met, steps, heap, rs, turn, q, results)
      BY <2>2, <2>3, <2>7, <2>8, <2>9, InsideCopying
    <3> QED BY <3>1, <3>2
  <2> QED BY <1>2, <2>2, <2>3, <2>4, <2>10
<1> QED BY <1>3, <1>4

\* What was read is a copy of what was written.
Same(h, met) ==
  /\ status = "read" => \E steps, last : /\ Complete(h, met, steps, last)
                                         /\ Copying(h, met, steps, heap, readers, turn, pos, results)
  /\ status = "done" => Len(results) = Len(h.roots) /\ Copied(h, heap, DOMAIN heap, results)

\* Who copies reads what was written.
LEMMA CopyingReads ==
  ASSUME NEW h, NEW met, NEW steps, Copying(h, met, steps, heap, readers, turn, pos, results)
  PROVE  Reading(h, met, steps, readers, turn, pos)
BY DEF Copying, Inside, Reading, Following

\* Every step keeps the copies.
LEMMA SameStep ==
  ASSUME NEW h \in Heaps, NEW met, Walk(h, met), Good(h, met), Neat(h, met), Exact(h, met), Same(h, met),
         Walk(h, met)', NumberInv', [Next]_vars
  PROVE  Same(h, met)'
<1>1. CASE SerializeInt \/ SerializeFloat \/ SerializeArray \/ CheckObject \/ SkipDeclaration
  <2>1. status' = "write"
    BY <1>1 DEF SerializeInt, SerializeFloat, SerializeArray, CheckObject, SkipDeclaration, control, Due
  <2> QED BY <2>1 DEF Same
<1>2. CASE EndSerialize
  <2>1. status = "write" /\ status' \in {"write", "read"}
    BY <1>2 DEF EndSerialize
  <2>2. Writing(h, met)
    BY <2>1 DEF Exact
  <2>3. status' # "write" => /\ \E steps, last : Complete(h, met, steps, last)'
                             /\ status' = "read" /\ turn' = 1 /\ readers' = <<>> /\ pos' = 1
    BY <1>2, <2>2, WritingEnds
  <2>4. CASE status' = "write"
    BY <2>4 DEF Same
  <2>5. CASE status' = "read"
    <3>1. PICK steps, last : Complete(h, met, steps, last)'
      BY <2>3, <2>5
    <3>2. First(h) \in steps
      BY <3>1 DEF Complete, Script
    <3>3. 1 <= Len(h.roots)
      BY Program
    <3>4. GraphRead(h, steps, 1, 1)'
      BY <3>2, <3>3 DEF GraphRead, Begins, First
    <3>5. results' = <<>> /\ heap' = heap /\ heap = h.heap
      BY <1>2, <2>1 DEF EndSerialize, reader, Walk, Stage
    <3>6. Copied(h, heap, DOMAIN h.heap, <<>>)
      BY <3>5 DEF Copied
    <3>7. Copied(h, heap, DOMAIN h.heap, results)'
      BY <3>5, <3>6
    <3>8. GraphRead(h, steps, turn, pos)'
      BY <2>3, <2>5, <3>4 DEF GraphRead
    <3>9. Copying(h, met, steps, heap, readers, turn, pos, results)'
      BY <2>3, <2>5, <3>7, <3>8 DEF Copying
    <3> QED BY <2>5, <3>1, <3>9 DEF Same
  <2> QED BY <2>1, <2>4, <2>5
<1>3. CASE ReadNext
  <2>1. status = "read"
    BY <1>3 DEF ReadNext, DeserializeObject, BeginObject, EndDeserialize, AllocateObject, KnownObject, NoClass,
                Entering, DeserializeValue, Nil, AllocateArray, KnownArray, DeserializeInner, PassOver, EndObject,
                Refers, Reads, InLoop
  <2>2. PICK steps, last : /\ Complete(h, met, steps, last)
                           /\ Copying(h, met, steps, heap, readers, turn, pos, results)
    BY <2>1 DEF Same
  <2>3. ASSUME buffer' = buffer, status' = "read", Copying(h, met, steps, heap', readers', turn', pos', results')
        PROVE  Same(h, met)'
    <3>1. Complete(h, met, steps, last)'
      BY <2>2, <2>3 DEF Complete, Script, IsAt
    <3>2. Copying(h, met, steps, heap, readers, turn, pos, results)'
      BY <2>3 DEF Copying, GraphRead
    <3> QED BY <2>3, <3>1, <3>2 DEF Same
  <2>4. CASE readers # <<>>
    <3>1. Reading(h, met, steps, readers, turn, pos)
      BY <2>2, CopyingReads
    <3>2. buffer' = buffer /\ status' = "read"
      BY <1>3, <2>1, <2>2, <2>4, <3>1, InsideGraph
    <3>3. Copying(h, met, steps, heap', readers', turn', pos', results')
      BY <1>3, <2>1, <2>2, <2>4, CopyingOn
    <3> QED BY <2>3, <3>2, <3>3
  <2>5. CASE readers = <<>>
    <3>1. DeserializeObject \/ EndDeserialize
      BY <1>3, <2>5 DEF ReadNext, AllocateObject, KnownObject, NoClass, Entering, DeserializeValue, Nil,
                        AllocateArray, KnownArray, DeserializeInner, PassOver, EndObject, Refers, Reads, InLoop
    <3>2. PICK old : Copied(h, heap, old, results) /\ GraphRead(h, steps, turn, pos)
      BY <2>2, <2>5 DEF Copying
    <3>3. CASE DeserializeObject
      <4>1. buffer' = buffer /\ status' = "read"
        BY <2>1, <3>3 DEF DeserializeObject, writer
      <4>2. Copying(h, met, steps, heap', readers', turn', pos', results')
        BY <2>1, <2>2, <2>5, <3>2, <3>3, BeginsCopying
      <4> QED BY <2>3, <4>1, <4>2
    <3>4. CASE EndDeserialize
      <4>1. turn > Len(roots) /\ status' = "done" /\ heap' = heap /\ results' = results
        BY <3>4 DEF EndDeserialize, reader
      <4>2. Len(results) = Len(h.roots)
        <5>1. roots = h.roots /\ turn \in 1..Len(roots) + 1 /\ Len(h.roots) \in Nat /\ Len(results) = turn - 1
          BY <2>1, Program DEF Walk, Basic, Stage
        <5> QED BY <4>1, <5>1
      <4>3. Copied(h, heap, DOMAIN heap, results)
        BY <3>2, CopiedAll
      <4>4. Copied(h, heap, DOMAIN heap, results)' /\ (Len(results) = Len(h.roots))'
        BY <4>1, <4>2, <4>3
      <4> QED BY <4>1, <4>4 DEF Same
    <3> QED BY <3>1, <3>3, <3>4
  <2> QED BY <2>4, <2>5
<1>4. CASE Garble
  <2>1. status' = "garbled"
    BY <1>4 DEF Garble
  <2> QED BY <2>1 DEF Same
<1>5. CASE UNCHANGED vars
  <2>1. /\ turn' = turn /\ status' = status /\ buffer' = buffer /\ heap' = heap /\ results' = results
        /\ pos' = pos /\ readers' = readers
    BY <1>5 DEF vars, control, writer, reader
  <2>2. ASSUME NEW steps, NEW last, Complete(h, met, steps, last),
               Copying(h, met, steps, heap, readers, turn, pos, results)
        PROVE  Complete(h, met, steps, last)' /\ Copying(h, met, steps, heap, readers, turn, pos, results)'
    BY <2>1, <2>2 DEF Complete, Script, IsAt, Copying, GraphRead
  <2>3. CASE status = "read"
    <3>1. PICK steps, last : /\ Complete(h, met, steps, last)
                             /\ Copying(h, met, steps, heap, readers, turn, pos, results)
      BY <2>3 DEF Same
    <3>2. Complete(h, met, steps, last)' /\ Copying(h, met, steps, heap, readers, turn, pos, results)'
      BY <2>2, <3>1
    <3> QED BY <2>1, <2>3, <3>2 DEF Same
  <2>4. CASE status # "read"
    BY <2>1, <2>4 DEF Same
  <2> QED BY <2>3, <2>4
<1>6. CASE Stay
  BY <1>5, <1>6 DEF Stay
<1> QED BY <1>1, <1>2, <1>3, <1>4, <1>5, <1>6 DEF Next, Write

-----------------------------------------------------------------------------
(* What Supported says of the values *)

\* An array of one dimension that is written as it is.
LEMMA ContentsAre ==
  ASSUME NEW mem, IsSeq(mem), NEW size \in Nat, size = mem[1], Len(mem) = 3 + size, mem[2] = 1, mem[3] = size,
         \A n \in 4 .. Len(mem) : Narrow(mem[n]) = mem[n] /\ mem[n] # 0, NEW type \in Arrays
  PROVE  Contents(type, mem) = mem
<1>1. PICK all, elements : all = Len(mem) /\ elements = SubSeq(mem, 4, 3 + mem[1])
  OBVIOUS
<1>2. IsSeq(elements) /\ Len(elements) = size /\ \A n \in 1..size : elements[n] = mem[3 + n]
  <2>1. PICK e, p : e = 3 + size /\ p = 4
    OBVIOUS
  <2>2. e \in Nat /\ e <= Len(mem) /\ p \in 1..(e + 1) /\ e - p + 1 = size
    BY <2>1
  <2>3. IsSeq(SubSeq(mem, p, e)) /\ Len(SubSeq(mem, p, e)) = e - p + 1
    BY <2>2, PartOf
  <2>4. \A i \in 1..(e - p + 1) : SubSeq(mem, p, e)[i] = mem[p + i - 1]
    BY <2>2, PartOf
  <2>5. elements = SubSeq(mem, p, e)
    BY <1>1, <2>1
  <2>6. ASSUME NEW n \in 1..size PROVE elements[n] = mem[3 + n]
    <3>1. p + n - 1 = 3 + n
      BY <2>1
    <3> QED BY <2>2, <2>4, <2>5, <3>1
  <2> QED BY <2>2, <2>3, <2>5, <2>6
<1>3. DOMAIN elements = 1..size
  BY <1>2, SeqHas
<1>4. ASSUME NEW n \in 1..size PROVE Narrow(elements[n]) = elements[n] /\ elements[n] # 0
  <2>1. 3 + n \in 4 .. Len(mem)
    OBVIOUS
  <2> QED BY <1>2, <2>1
<1>5. ASSUME NEW front, IsSeq(front), Len(front) = 3, \A n \in 1..3 : front[n] = mem[n]
      PROVE  front \o elements = mem
  <2>1. Len(mem) = Len(front) + Len(elements)
    BY <1>2, <1>5
  <2>2. \A n \in 1..Len(front) : mem[n] = front[n]
    BY <1>5
  <2>3. \A n \in 1..Len(elements) : mem[Len(front) + n] = elements[n]
    BY <1>2, <1>5
  <2>4. IsSeq(front) /\ IsSeq(elements)
    BY <1>2, <1>5
  <2> QED BY <2>1, <2>2, <2>3, <2>4, JoinedIs
<1>6. CASE type = "INT_ARY_PARM"
  <2>1. PICK front, own : front = SubSeq(mem, 1, 3) /\ own = [n \in DOMAIN elements |-> Narrow(elements[n])]
    OBVIOUS
  <2>2. own = elements
    <3>1. own = [n \in DOMAIN elements |-> elements[n]]
      BY <1>3, <1>4, <2>1
    <3>2. elements = [n \in DOMAIN elements |-> elements[n]]
      BY <1>2 DEF IsSeq
    <3> QED BY <3>1, <3>2
  <2>3. IsSeq(front) /\ Len(front) = 3 /\ \A n \in 1..3 : front[n] = mem[n]
    <3>1. PICK e, p : e = 3 /\ p = 1
      OBVIOUS
    <3>2. e \in Nat /\ e <= Len(mem) /\ p \in 1..(e + 1) /\ e - p + 1 = 3
      BY <3>1
    <3>3. IsSeq(SubSeq(mem, p, e)) /\ Len(SubSeq(mem, p, e)) = e - p + 1
      BY <3>2, PartOf
    <3>4. \A i \in 1..(e - p + 1) : SubSeq(mem, p, e)[i] = mem[p + i - 1]
      BY <3>2, PartOf
    <3>5. front = SubSeq(mem, p, e)
      BY <2>1, <3>1
    <3>6. ASSUME NEW n \in 1..3 PROVE front[n] = mem[n]
      <4>1. p + n - 1 = n
        BY <3>1
      <4> QED BY <3>2, <3>4, <3>5, <4>1
    <3> QED BY <3>2, <3>3, <3>5, <3>6
  <2>4. front \o elements = mem
    BY <1>5, <2>3
  <2>5. Contents(type, mem) = front \o own
    BY <1>1, <1>6, <2>1 DEF Contents
  <2> QED BY <2>2, <2>4, <2>5
<1>7. CASE type # "INT_ARY_PARM"
  <2>1. Text(elements) = elements
    <3>1. {n \in DOMAIN elements : elements[n] = 0} = {}
      BY <1>3, <1>4
    <3> QED BY <3>1 DEF Text
  <2>2. PICK front : front = <<size, mem[2], size>>
    OBVIOUS
  <2>3. IsSeq(front) /\ Len(front) = 3
    BY <2>2, ShortList
  <2>4. front[1] = mem[1] /\ front[2] = mem[2] /\ front[3] = mem[3]
    BY <2>2
  <2>5. \A n \in 1..3 : n = 1 \/ n = 2 \/ n = 3
    OBVIOUS
  <2>6. \A n \in 1..3 : front[n] = mem[n]
    BY <2>4, <2>5
  <2>7. front \o elements = mem
    BY <1>5, <2>3, <2>6
  <2>8. Contents(type, mem) = <<Len(elements), mem[2], Len(elements)>> \o elements
    BY <1>1, <1>7, <2>1 DEF Contents
  <2> QED BY <1>2, <2>2, <2>7, <2>8
<1> QED BY <1>6, <1>7

\* What HeapsAssumption says of an array.
LEMMA ArrayHas ==
  ASSUME NEW h \in Heaps, NEW a \in DOMAIN h.heap, NEW block, block = h.heap[a], block.cls = 0,
         NEW mem, mem = block.mem
  PROVE  /\ IsSeq(mem) /\ Len(mem) \in Nat /\ Len(mem) >= 2 /\ mem[1] \in Nat /\ mem[2] \in Nat
         /\ Len(mem) = 2 + mem[2] + mem[1] /\ (mem[2] = 1 => mem[3] = mem[1])
<1>1. block \in [cls : {0} \cup DOMAIN Classes, mem : Seq(Int)]
  BY Program
<1>2. mem \in Seq(Int)
  BY <1>1
<1>3. IsSeq(mem)
  BY <1>2 DEF IsSeq
<1>4. Len(mem) \in Nat
  BY <1>2
<1>5. /\ Len(block.mem) >= 2 /\ block.mem[1] \in Nat /\ block.mem[2] \in Nat
      /\ Len(block.mem) = 2 + block.mem[2] + block.mem[1] /\ (block.mem[2] = 1 => block.mem[3] = block.mem[1])
  BY HeapsAssumption
<1> QED BY <1>3, <1>4, <1>5

\* What is reached from an object that is written.
LEMMA SupportedBlock ==
  ASSUME NEW h \in Heaps, Basic(h), AllSupported, NEW k \in DOMAIN h.roots, h.roots[k] # 0,
         h.roots[k] \in DOMAIN h.heap, NEW b \in Reached(h.roots[k]), NEW block, block = h.heap[b]
  PROVE  /\ b \in DOMAIN h.heap
         /\ block.cls # 0 => \A n \in DOMAIN WordTypes(block.cls) :
              WordTypes(block.cls)[n] = "INT_PARM" => Narrow(block.mem[n]) = block.mem[n]
         /\ block.cls = 0 => /\ block.mem[2] = 1
                             /\ \A n \in 4 .. Len(block.mem) : Narrow(block.mem[n]) = block.mem[n] /\ block.mem[n] # 0
         /\ \A p \in References(block) : block.mem[p] # 0 => block.mem[p] \in Reached(h.roots[k])
<1>1. Keeps(h, heap) /\ roots = h.roots
  BY DEF Basic
<1>2. PICK a, set : a = h.roots[k] /\ set = Reached(a)
  OBVIOUS
<1>3. a \in DOMAIN h.heap
  BY <1>2
<1>4. set \subseteq DOMAIN h.heap /\ Grow(set, heap) = set
  BY <1>2, <1>3, ReachedIs
<1>5. Supported(a)
  BY <1>1, <1>2 DEF AllSupported
<1>6. b \in set /\ b \in DOMAIN h.heap
  BY <1>2, <1>4
<1>7. heap[b] = block
  BY <1>1, <1>6 DEF Keeps
<1>8. block.cls # 0 => \A n \in DOMAIN WordTypes(block.cls) :
              WordTypes(block.cls)[n] = "INT_PARM" => Narrow(block.mem[n]) = block.mem[n]
  BY <1>2, <1>5, <1>6, <1>7 DEF Supported
<1>9. block.cls = 0 => /\ block.mem[2] = 1
                       /\ \A n \in 4 .. Len(block.mem) : Narrow(block.mem[n]) = block.mem[n] /\ block.mem[n] # 0
  BY <1>2, <1>5, <1>6, <1>7 DEF Supported
<1>10. \A p \in References(block) : block.mem[p] # 0 => block.mem[p] \in set
  BY <1>4, <1>6, <1>7, InGrow
<1> QED BY <1>2, <1>6, <1>8, <1>9, <1>10

\* Integers and arrays of such a program are read as they were written.
LEMMA NeatMet ==
  ASSUME NEW h \in Heaps, Basic(h), AllSupported
  PROVE  Neat(h, Met(h))
<1> DEFINE met == Met(h)
<1>1. Good(h, met)
  BY GoodMet
<1>2. ASSUME NEW b \in met, NEW n \in 1..Len(Classes[h.heap[b].cls]), NEW item, item = Items(h.heap[b])[n],
             NEW a, a = item.words[1]
      PROVE  /\ item.type = "INT_PARM" => Narrow(a) = a
             /\ item.type \in Arrays /\ a # 0 => Contents(item.type, h.heap[a].mem) = h.heap[a].mem
  <2>1. PICK k \in DOMAIN h.roots : h.roots[k] # 0 /\ b \in Reached(h.roots[k]) /\ h.heap[b].cls # 0
    BY <1>2 DEF Met
  <2>2. h.roots[k] \in DOMAIN h.heap
    BY <1>1, <2>1 DEF Good, Closed
  <2>3. PICK block, p, types : block = h.heap[b] /\ types = Classes[block.cls] /\ p = Place(types, n)
    OBVIOUS
  <2>4. IsVariable(block, n, p, item)
    <3>1. Good(h, met) /\ b \in met /\ n \in 1..Len(Classes[h.heap[b].cls])
      BY <1>1, <1>2
    <3> HIDE DEF met
    <3>2. IsVariable(h.heap[b], n, Place(Classes[h.heap[b].cls], n), Items(h.heap[b])[n])
      BY <3>1, VariableAt
    <3> QED BY <1>2, <2>3, <3>2
  <2>5. item.type = types[n] /\ 1 \in 1..Size(types[n]) /\ p \in Nat
    BY <2>3, <2>4 DEF IsVariable, Size
  <2>6. p \in DOMAIN block.mem /\ WordTypes(block.cls)[p] = item.type /\ a = block.mem[p]
    <3>1. p + 1 - 1 = p
      BY <2>5, SMTT(30)
    <3>2. /\ p + 1 - 1 \in DOMAIN block.mem /\ WordTypes(block.cls)[p + 1 - 1] = types[n]
          /\ item.words[1] = block.mem[p + 1 - 1]
      BY <2>3, <2>4, <2>5 DEF IsVariable
    <3> QED BY <1>2, <2>5, <3>1, <3>2
  <2>7. b \in DOMAIN h.heap /\ block.cls # 0
    BY <1>2, <2>1, <2>3 DEF Met
  <2>8. p \in DOMAIN WordTypes(block.cls) /\ a \in Values(item.type, h.heap)
    <3>1. PICK all : all = WordTypes(block.cls)
      OBVIOUS
    <3>2. DOMAIN block.mem = 1..Words(types) /\ DOMAIN all = 1..Words(types)
      BY <2>3, <2>7, <3>1, ObjectWords
    <3>3. \A i \in DOMAIN block.mem : block.mem[i] \in Values(all[i], h.heap)
      BY <2>3, <2>7, <3>1, ObjectWords
    <3> QED BY <2>6, <3>1, <3>2, <3>3
  <2>9. ASSUME item.type = "INT_PARM" PROVE Narrow(a) = a
    <3>1. \A i \in DOMAIN WordTypes(block.cls) :
              WordTypes(block.cls)[i] = "INT_PARM" => Narrow(block.mem[i]) = block.mem[i]
      BY <2>1, <2>2, <2>3, <2>7, SupportedBlock, ZenonT(60)
    <3> QED BY <2>6, <2>8, <2>9, <3>1
  <2>10. ASSUME item.type \in Arrays, a # 0 PROVE Contents(item.type, h.heap[a].mem) = h.heap[a].mem
    <3>1. a \in DOMAIN h.heap \ Objects(h.heap)
      BY <2>8, <2>10 DEF Values, Arrays
    <3>2. a \in DOMAIN h.heap /\ h.heap[a].cls = 0
      <4>1. h.heap[a].cls \in {0} \cup DOMAIN Classes
        BY <3>1, Program
      <4> QED BY <3>1, <4>1 DEF Objects
    <3>3. p \in References(block)
      BY <2>6, <2>7, <2>10 DEF References, Reference
    <3>4. a \in Reached(h.roots[k])
      <4>1. \A q \in References(block) : block.mem[q] # 0 => block.mem[q] \in Reached(h.roots[k])
        BY <2>1, <2>2, <2>3, SupportedBlock
      <4> QED BY <2>6, <2>10, <3>3, <4>1
    <3>5. PICK own, mem : own = h.heap[a] /\ mem = own.mem
      OBVIOUS
    <3>6. /\ own.mem[2] = 1
          /\ \A i \in 4 .. Len(own.mem) : Narrow(own.mem[i]) = own.mem[i] /\ own.mem[i] # 0
      BY <2>1, <2>2, <3>2, <3>4, <3>5, SupportedBlock
    <3>7. /\ IsSeq(mem) /\ Len(mem) \in Nat /\ mem[1] \in Nat
          /\ Len(mem) = 2 + mem[2] + mem[1] /\ (mem[2] = 1 => mem[3] = mem[1])
      BY <3>2, <3>5, ArrayHas
    <3>8. mem[2] = 1 /\ mem[3] = mem[1] /\ Len(mem) = 3 + mem[1]
      BY <3>5, <3>6, <3>7
    <3>9. \A i \in 4 .. Len(mem) : Narrow(mem[i]) = mem[i] /\ mem[i] # 0
      BY <3>5, <3>6
    <3>10. Contents(item.type, mem) = mem
      BY <2>10, <3>7, <3>8, <3>9, ContentsAre
    <3> QED BY <3>5, <3>10
  <2> QED BY <2>9, <2>10
<1> HIDE DEF met
<1>3. Neat(h, met)
  BY <1>2 DEF Neat
<1> QED BY <1>3 DEF met

-----------------------------------------------------------------------------
(* What was read is a copy *)

\* A graph that is copied as a whole.
LEMMA WholeCopied ==
  ASSUME NEW h \in Heaps, Basic(h), NEW from \in {0} \cup DOMAIN h.heap, NEW to,
         GraphCopied(h, heap, DOMAIN heap, from, to)
  PROVE  IsCopy(from, to)
<1>1. Keeps(h, heap) /\ IsSeq(heap) /\ DOMAIN h.heap \subseteq DOMAIN heap
  BY DEF Basic, Keeps
<1>2. CASE from = 0
  BY <1>2 DEF GraphCopied, IsCopy
<1>3. CASE from # 0
  <2>1. PICK m : /\ from \in DOMAIN m /\ m[from] = to /\ Twins(h, heap, m, DOMAIN heap \ DOMAIN h.heap)
                 /\ \A a \in DOMAIN m : \A p \in DOMAIN h.heap[a].mem : Right(h, m, a, p, heap[m[a]].mem[p])
    BY <1>3 DEF GraphCopied
  <2>2. PICK S, C, own : S = Reached(from) /\ C = Reached(to) /\ own = {m[a] : a \in DOMAIN m}
    OBVIOUS
  <2>3. ASSUME NEW a \in DOMAIN m
        PROVE  /\ a \in DOMAIN h.heap /\ heap[a] = h.heap[a] /\ m[a] \in DOMAIN heap \ DOMAIN h.heap /\ m[a] \in own
               /\ heap[m[a]].cls = h.heap[a].cls
               /\ heap[m[a]].mem = [p \in DOMAIN h.heap[a].mem |-> heap[m[a]].mem[p]]
    BY <1>1, <2>1, <2>2 DEF Twins, Keeps
  <2>4. ASSUME NEW b \in own PROVE b \in DOMAIN heap \ DOMAIN h.heap
    <3>1. PICK a \in DOMAIN m : b = m[a]
      BY <2>2
    <3> QED BY <2>3, <3>1
  <2>5. 0 \notin DOMAIN heap
    BY <1>1, SeqHas
  <2>6. from \in S /\ S \subseteq DOMAIN h.heap /\ Grow(S, heap) = S
    BY <1>3, <2>2, ReachedIs
  <2>7. \A a : Reached(a) = Rounds(heap, a, Len(heap))
    <3>1. DOMAIN heap = 1..Len(heap)
      BY <1>1, SeqHas
    <3> QED BY <3>1 DEF Reached, Rounds
  \* a reference of a block and that of its copy
  <2>8. ASSUME NEW a \in DOMAIN m, NEW p \in References(h.heap[a]), NEW x, x = h.heap[a].mem[p]
        PROVE  IF x = 0 THEN heap[m[a]].mem[p] = 0 ELSE x \in DOMAIN m /\ heap[m[a]].mem[p] = m[x]
    <3>1. p \in DOMAIN h.heap[a].mem
      BY DEF References
    <3>2. Right(h, m, a, p, heap[m[a]].mem[p])
      BY <2>1, <3>1
    <3> QED BY <2>8, <3>2 DEF Right
  <2>9. ASSUME NEW a \in DOMAIN m PROVE References(heap[m[a]]) = References(h.heap[a])
    <3>1. PICK block, copy : block = h.heap[a] /\ copy = heap[m[a]]
      OBVIOUS
    <3>2. DOMAIN copy.mem = DOMAIN block.mem /\ copy.cls = block.cls
      <4>1. PICK mem : mem = copy.mem
        OBVIOUS
      <4>2. mem = [p \in DOMAIN block.mem |-> mem[p]]
        BY <2>3, <3>1, <4>1
      <4> QED BY <2>3, <3>1, <4>1, <4>2
    <3> QED BY <3>1, <3>2 DEF References
  <2>10. S \subseteq DOMAIN m
    <3>1. Within(heap, DOMAIN m)
      BY <2>3, <2>8, ZenonT(60) DEF Within
    <3>2. DOMAIN m \subseteq DOMAIN heap
      BY <1>1, <2>3
    <3>3. Rounds(heap, from, Len(heap)) \subseteq DOMAIN m
      BY <1>1, <2>1, <3>1, <3>2, RoundsEnd
    <3> QED BY <2>2, <2>7, <3>3
  <2>11. to \in C /\ C \subseteq own /\ Grow(C, heap) = C
    <3>1. ASSUME NEW b \in own, NEW p \in References(heap[b]), heap[b].mem[p] # 0 PROVE heap[b].mem[p] \in own
      <4>1. PICK a \in DOMAIN m : b = m[a]
        BY <2>2
      <4>2. p \in References(h.heap[a])
        BY <2>9, <4>1
      <4>3. PICK x : x = h.heap[a].mem[p]
        OBVIOUS
      <4>4. x \in DOMAIN m /\ heap[b].mem[p] = m[x]
        BY <2>8, <3>1, <4>1, <4>2, <4>3
      <4> QED BY <2>3, <4>4
    <3>2. Within(heap, own)
      BY <3>1 DEF Within
    <3>3. own \subseteq DOMAIN heap /\ to \in own
      BY <2>1, <2>3, <2>4
    <3>4. PICK set : set = Rounds(heap, to, Len(heap))
      OBVIOUS
    <3>5. to \in set /\ set \subseteq own /\ Grow(set, heap) = set
      BY <1>1, <3>2, <3>3, <3>4, RoundsEnd
    <3> QED BY <2>2, <2>7, <3>4, <3>5
  <2>12. ASSUME NEW a \in S PROVE m[a] \in C
    <3>1. PICK T : T = {b \in S : m[b] \in C}
      OBVIOUS
    <3>2. ASSUME NEW b \in T, NEW p \in References(heap[b]), heap[b].mem[p] # 0 PROVE heap[b].mem[p] \in T
      <4>1. b \in S /\ m[b] \in C /\ b \in DOMAIN m /\ heap[b] = h.heap[b]
        BY <2>3, <2>10, <3>1
      <4>2. PICK x : x = heap[b].mem[p]
        OBVIOUS
      <4>3. x \in S
        BY <2>6, <3>2, <4>1, <4>2, InGrow
      <4>4. p \in References(h.heap[b]) /\ x = h.heap[b].mem[p]
        BY <4>1, <4>2
      <4>5. x \in DOMAIN m /\ heap[m[b]].mem[p] = m[x]
        BY <2>8, <3>2, <4>1, <4>2, <4>4
      <4>6. m[x] # 0
        BY <2>3, <2>5, <4>5
      <4>7. p \in References(heap[m[b]])
        BY <2>9, <4>1, <4>4
      <4>8. m[x] \in C
        <5>1. PICK c : c = m[b]
          OBVIOUS
        <5>2. c \in C /\ p \in References(heap[c]) /\ heap[c].mem[p] = m[x]
          BY <4>1, <4>5, <4>7, <5>1
        <5>3. heap[c].mem[p] \in Grow(C, heap)
          BY <4>6, <5>2, InGrow
        <5> QED BY <2>11, <5>2, <5>3
      <4> QED BY <3>1, <4>2, <4>3, <4>8
    <3>3. Within(heap, T)
      BY <3>2 DEF Within
    <3>4. T \subseteq DOMAIN heap /\ from \in T
      BY <1>1, <2>1, <2>6, <2>11, <3>1
    <3>5. Rounds(heap, from, Len(heap)) \subseteq T
      BY <1>1, <3>3, <3>4, RoundsEnd
    <3> QED BY <2>2, <2>7, <3>1, <3>5
  <2>13. to # 0 /\ S \cap C = {}
    <3>1. C \cap DOMAIN h.heap = {} /\ to \in DOMAIN heap
      BY <2>11, <2>4
    <3> QED BY <2>5, <2>6, <3>1
  <2>14. PICK M : M = [a \in S |-> m[a]]
    OBVIOUS
  <2>15. DOMAIN M = S /\ M \in [S -> C] /\ M[from] = to /\ \A a \in S : M[a] = m[a]
    BY <2>1, <2>6, <2>12, <2>14
  <2>16. \A a, b \in DOMAIN M : M[a] = M[b] => a = b
    BY <2>1, <2>10, <2>15 DEF Twins
  <2>17. Copies(M)
    <3> SUFFICES ASSUME NEW a \in S
                 PROVE  /\ heap[M[a]].cls = heap[a].cls
                        /\ heap[M[a]].mem = [n \in DOMAIN heap[a].mem |->
                             IF n \in References(heap[a]) /\ heap[a].mem[n] # 0 THEN M[heap[a].mem[n]]
                             ELSE heap[a].mem[n]]
      BY <2>15 DEF Copies
    <3>1. a \in DOMAIN m /\ heap[a] = h.heap[a] /\ M[a] = m[a] /\ heap[M[a]].cls = heap[a].cls
      BY <2>3, <2>10, <2>15
    <3>2. PICK block, mem : block = heap[a] /\ mem = heap[m[a]].mem
      OBVIOUS
    <3>3. mem = [p \in DOMAIN block.mem |-> mem[p]]
      BY <2>3, <3>1, <3>2
    <3>4. ASSUME NEW p \in DOMAIN block.mem
          PROVE  mem[p] = IF p \in References(block) /\ block.mem[p] # 0 THEN M[block.mem[p]] ELSE block.mem[p]
      <4>1. Right(h, m, a, p, mem[p])
        BY <2>1, <3>1, <3>2
      <4>2. CASE p \in References(block) /\ block.mem[p] # 0
        <5>1. PICK x : x = block.mem[p]
          OBVIOUS
        <5>2. x \in S
          BY <2>6, <3>2, <4>2, <5>1, InGrow
        <5>3. mem[p] = m[x]
          BY <3>1, <3>2, <4>1, <4>2, <5>1 DEF Right
        <5> QED BY <2>15, <4>2, <5>1, <5>2, <5>3
      <4>3. CASE ~(p \in References(block) /\ block.mem[p] # 0)
        BY <3>1, <3>2, <4>1, <4>3 DEF Right
      <4> QED BY <4>2, <4>3
    <3>5. mem = [p \in DOMAIN block.mem |->
                   IF p \in References(block) /\ block.mem[p] # 0 THEN M[block.mem[p]] ELSE block.mem[p]]
      BY <3>3, <3>4
    <3> QED BY <3>1, <3>2, <3>5
  <2> QED BY <1>3, <2>2, <2>13, <2>15, <2>16, <2>17 DEF IsCopy
<1> QED BY <1>2, <1>3

\* The graphs of one program; when Supported holds for them, what is read back has the copies.
CopyInv ==
  /\ NumberInv
  /\ \E h \in Heaps :
       /\ \E met : Walk(h, met)
       /\ \A met : Good(h, met) /\ Neat(h, met) => Walk(h, met) /\ Exact(h, met) /\ Same(h, met)

(* For graphs of every size and shape that Supported holds for, with blocks *)
(* that are shared and with cycles: each object that is read back is a copy *)
(* of the one written, block for block, word for word, and none of it was   *)
(* there before.                                                            *)
THEOREM SerializerRoundTrip == Spec => []RoundTrip
<1>1. Init => CopyInv
  <2> SUFFICES ASSUME Init PROVE CopyInv
    OBVIOUS
  <2>1. PICK h \in Heaps : heap = h.heap /\ roots = h.roots
    BY DEF Init
  <2>2. NumberInv
    BY NoNumbers DEF Init
  <2>3. \E met : Walk(h, met)
    BY <2>1, Program, WalkStarts
  <2>4. ASSUME NEW met, Good(h, met) PROVE Walk(h, met) /\ Exact(h, met) /\ Same(h, met)
    <3>1. Walk(h, met)
      BY <2>1, <2>4, WalkStarts DEF Good
    <3>2. /\ status = "write" /\ turn = 1 /\ buffer = <<>> /\ todo = Wanted(h.roots[1]) /\ serial_ids = << >>
          /\ next_id = 0
      BY <2>1 DEF Init
    <3>3. Exact(h, met)
      BY <2>2, <3>1, <3>2, ExactStarts
    <3> QED BY <3>1, <3>2, <3>3 DEF Same
  <2> QED BY <2>2, <2>3, <2>4 DEF CopyInv
<1>2. CopyInv /\ [Next]_vars => CopyInv'
  <2> SUFFICES ASSUME CopyInv, [Next]_vars PROVE CopyInv'
    OBVIOUS
  <2>1. PICK h \in Heaps :
          /\ \E met : Walk(h, met)
          /\ \A met : Good(h, met) /\ Neat(h, met) => Walk(h, met) /\ Exact(h, met) /\ Same(h, met)
    BY DEF CopyInv
  <2>2. NumberInv'
    BY NumberStep DEF CopyInv
  <2>3. \E met : Walk(h, met)'
    BY <2>1, WalkStep
  <2>4. ASSUME NEW met, Good(h, met), Neat(h, met) PROVE Walk(h, met)' /\ Exact(h, met)' /\ Same(h, met)'
    <3>1. Walk(h, met) /\ Exact(h, met) /\ Same(h, met)
      BY <2>1, <2>4
    <3>2. Walk(h, met)'
      BY <3>1, WalkStep
    <3>3. Exact(h, met)'
      BY <2>2, <2>4, <3>1, <3>2, ExactStep
    <3>4. Same(h, met)'
      BY <2>2, <2>4, <3>1, <3>2, SameStep
    <3> QED BY <3>2, <3>3, <3>4
  <2>5. \A met : (Good(h, met)' => Good(h, met)) /\ (Neat(h, met)' => Neat(h, met))
    BY DEF Good, Closed, Neat
  <2> QED BY <2>2, <2>3, <2>4, <2>5 DEF CopyInv
<1>3. CopyInv => RoundTrip
  <2> SUFFICES ASSUME CopyInv, status = "done", AllSupported, NEW k \in DOMAIN roots
               PROVE  IsCopy(roots[k], results[k])
    BY DEF RoundTrip
  <2>1. PICK h \in Heaps :
          /\ \E met : Walk(h, met)
          /\ \A met : Good(h, met) /\ Neat(h, met) => Walk(h, met) /\ Exact(h, met) /\ Same(h, met)
    BY DEF CopyInv
  <2>2. Basic(h)
    BY <2>1 DEF Walk
  <2>3. PICK met : Good(h, met) /\ Neat(h, met)
    BY <2>2, GoodMet, NeatMet
  <2>4. Len(results) = Len(h.roots) /\ Copied(h, heap, DOMAIN heap, results)
    BY <2>1, <2>3 DEF Same
  <2>5. roots = h.roots /\ k \in DOMAIN results
    <3>1. roots = h.roots /\ IsSeq(results) /\ IsSeq(h.roots)
      BY <2>2, Program DEF Basic
    <3>2. DOMAIN results = 1..Len(results) /\ DOMAIN h.roots = 1..Len(h.roots)
      BY <3>1, SeqHas
    <3> QED BY <2>4, <3>1, <3>2
  <2>6. GraphCopied(h, heap, DOMAIN heap, h.roots[k], results[k])
    BY <2>4, <2>5 DEF Copied
  <2>7. h.roots[k] \in {0} \cup DOMAIN h.heap
    BY <2>3, <2>5 DEF Good, Closed
  <2> QED BY <2>2, <2>5, <2>6, <2>7, WholeCopied
<1> QED BY <1>1, <1>2, <1>3, PTL DEF Spec
===============================================================================
