--------------------------- MODULE Serializer_proofs ---------------------------
(***************************************************************************)
(* The serializer and the deserializer, for object graphs of every shape:  *)
(* the numbers of the blocks, the types of what both keep, and that the    *)
(* reader is in step with the writer.                                      *)
(***************************************************************************)
EXTENDS Serializer, FiniteSetTheorems, SequenceTheorems, TLAPS

-----------------------------------------------------------------------------
(* Numbers *)

\* serial_ids is a one-to-one function onto the numbers given out so far
NumberInv ==
  /\ next_id \in Nat
  /\ serial_ids = [a \in DOMAIN serial_ids |-> serial_ids[a]]
  /\ NumberedOnce

(* Whatever block WasSerialized is asked about, it keeps the numbering.    *)
LEMMA WasSerializedNumbers ==
  ASSUME NEW a, NumberInv, WasSerialized(a)
  PROVE  NumberInv'
<1>1. CASE Seen(a)
  BY <1>1 DEF NumberInv, NumberedOnce, WasSerialized
<1>2. CASE ~Seen(a)
  <2> DEFINE new == DOMAIN serial_ids \cup {a}
  <2>1. /\ next_id' = next_id + 1
        /\ serial_ids' = [b \in new |-> IF b = a THEN next_id + 1 ELSE serial_ids[b]]
    BY <1>2 DEF WasSerialized
  <2>2. DOMAIN serial_ids' = new /\ a \notin DOMAIN serial_ids
    BY <1>2, <2>1 DEF Seen
  <2>3. next_id' \in Nat /\ next_id \in Nat
    BY <2>1 DEF NumberInv
  <2>4. \A b \in DOMAIN serial_ids' : serial_ids'[b] \in 1..next_id'
    BY <2>1, <2>2, <2>3 DEF NumberInv, NumberedOnce
  <2>5. \A n \in 1..next_id' : \E b \in DOMAIN serial_ids' : serial_ids'[b] = n
    <3> SUFFICES ASSUME NEW n \in 1..next_id' PROVE \E b \in new : serial_ids'[b] = n
      BY <2>2
    <3>1. CASE n = next_id + 1
      BY <3>1, <2>1
    <3>2. CASE n \in 1..next_id
      <4>1. PICK b \in DOMAIN serial_ids : serial_ids[b] = n
        BY <3>2 DEF NumberInv, NumberedOnce
      <4>2. b # a /\ serial_ids'[b] = n
        BY <4>1, <2>1, <2>2
      <4> QED BY <4>1, <4>2
    <3> QED BY <3>1, <3>2, <2>1, <2>3
  <2>6. \A b, c \in DOMAIN serial_ids' : serial_ids'[b] = serial_ids'[c] => b = c
    BY <2>1, <2>2, <2>3 DEF NumberInv, NumberedOnce
  <2>7. serial_ids' = [b \in DOMAIN serial_ids' |-> serial_ids'[b]]
    BY <2>1, <2>2
  <2> QED BY <2>3, <2>4, <2>5, <2>6, <2>7 DEF NumberInv, NumberedOnce
<1> QED BY <1>1, <1>2

(* A Serializer starts with no numbers.                                    *)
LEMMA NoNumbers ==
  ASSUME serial_ids = << >>, next_id = 0
  PROVE  NumberInv
<1>1. DOMAIN serial_ids = {}
  OBVIOUS
<1> QED BY <1>1 DEF NumberInv, NumberedOnce

(* No step of the writer gives a number twice; the reader gives none.      *)
LEMMA NumberStep == NumberInv /\ [Next]_vars => NumberInv'
<1> SUFFICES ASSUME NumberInv, [Next]_vars PROVE NumberInv'
  OBVIOUS
<1>1. ASSUME Known PROVE NumberInv'
  BY <1>1 DEF Known, NumberInv, NumberedOnce
<1>2. ASSUME UNCHANGED writer PROVE NumberInv'
  BY <1>2 DEF writer, NumberInv, NumberedOnce
<1>3. CASE SerializeInt
  BY <1>1, <1>3 DEF SerializeInt
<1>4. CASE SerializeFloat
  BY <1>1, <1>4 DEF SerializeFloat
<1>5. CASE SerializeArray
  <2>1. CASE word = 0
    BY <1>1, <1>5, <2>1 DEF SerializeArray
  <2>2. CASE word # 0
    BY <1>5, <2>2, WasSerializedNumbers DEF SerializeArray
  <2> QED BY <2>1, <2>2
<1>6. CASE CheckObject
  <2>1. CASE word = 0
    BY <1>1, <1>6, <2>1 DEF CheckObject
  <2>2. CASE word # 0
    BY <1>6, <2>2, WasSerializedNumbers DEF CheckObject
  <2> QED BY <2>1, <2>2
<1>7. CASE SkipDeclaration
  BY <1>1, <1>7 DEF SkipDeclaration
<1>8. CASE EndSerialize
  <2>1. serial_ids' = << >> /\ next_id' = 0
    BY <1>8 DEF EndSerialize
  <2>2. DOMAIN serial_ids' = {}
    BY <2>1
  <2> QED BY <2>1, <2>2 DEF NumberInv, NumberedOnce
<1>9. CASE ReadNext
  <2>1. UNCHANGED writer
    BY <1>9 DEF ReadNext, DeserializeObject, EndDeserialize, AllocateObject, KnownObject, NoClass,
                DeserializeValue, Nil, AllocateArray, KnownArray, DeserializeInner, PassOver, EndObject
  <2> QED BY <1>2, <2>1
<1>10. CASE Garble
  BY <1>2, <1>10 DEF Garble
<1>11. CASE Stay \/ UNCHANGED vars
  BY <1>2, <1>11 DEF Stay, vars
<1> QED BY <1>3, <1>4, <1>5, <1>6, <1>7, <1>8, <1>9, <1>10, <1>11 DEF Next, Write

(* For object graphs of every size, shape and class: while a graph is      *)
(* written each of its blocks has one number, and each number one block.   *)
THEOREM BlocksNumberedOnce == Spec => []NumberedOnce
<1>1. Init => NumberInv
  BY NoNumbers DEF Init
<1>2. NumberInv => NumberedOnce
  BY DEF NumberInv
<1> QED BY <1>1, <1>2, NumberStep, PTL DEF Spec

-----------------------------------------------------------------------------
(* Sequences *)
IsSeq(s) == \E S : s \in Seq(S)

\* What every sequence has.
LEMMA SeqHas ==
  ASSUME NEW s, IsSeq(s)
  PROVE  Len(s) \in Nat /\ DOMAIN s = 1..Len(s) /\ (s = <<>> <=> Len(s) = 0)
BY DEF IsSeq

\* Two sequences in a row.
LEMMA Joined ==
  ASSUME NEW s, NEW t, IsSeq(s), IsSeq(t), NEW p, p = s \o t
  PROVE  /\ IsSeq(p) /\ Len(p) = Len(s) + Len(t)
         /\ \A n \in 1..Len(s) : p[n] = s[n]
         /\ \A n \in 1..Len(t) : p[Len(s) + n] = t[n]
<1>1. PICK S : s \in Seq(S)
  BY DEF IsSeq
<1>2. PICK T : t \in Seq(T)
  BY DEF IsSeq
<1>3. s \in Seq(S \cup T) /\ t \in Seq(S \cup T)
  BY <1>1, <1>2
<1>4. s \o t \in Seq(S \cup T)
  BY <1>3
<1> QED BY <1>3, <1>4 DEF IsSeq

\* One element more at the end.
LEMMA Longer ==
  ASSUME NEW s, IsSeq(s), NEW x, NEW p, p = Append(s, x)
  PROVE  /\ IsSeq(p) /\ Len(p) = Len(s) + 1 /\ p[Len(s) + 1] = x
         /\ \A n \in 1..Len(s) : p[n] = s[n]
<1>1. PICK S : s \in Seq(S)
  BY DEF IsSeq
<1>2. s \in Seq(S \cup {x}) /\ x \in S \cup {x}
  BY <1>1
<1>3. Append(s, x) \in Seq(S \cup {x})
  BY <1>2
<1> QED BY <1>2, <1>3 DEF IsSeq

\* A part of a sequence.
LEMMA PartOf ==
  ASSUME NEW s, IsSeq(s), NEW b \in Nat, b <= Len(s), NEW a \in 1..(b + 1)
  PROVE  /\ IsSeq(SubSeq(s, a, b)) /\ Len(SubSeq(s, a, b)) = b - a + 1
         /\ \A n \in 1..(b - a + 1) : SubSeq(s, a, b)[n] = s[a + n - 1]
<1>1. PICK S : s \in Seq(S)
  BY DEF IsSeq
<1>2. /\ SubSeq(s, a, b) \in Seq(S) /\ Len(SubSeq(s, a, b)) = b - a + 1
      /\ \A n \in 1..(b - a + 1) : SubSeq(s, a, b)[n] = s[a + n - 1]
  <2>1. a \in 1..(Len(s) + 1) /\ b \in (a - 1)..Len(s)
    BY <1>1
  <2> QED BY <1>1, <2>1, SubSeqProperties
<1> QED BY <1>2 DEF IsSeq

\* All but the first element.
LEMMA TailOf ==
  ASSUME NEW s, IsSeq(s), s # <<>>
  PROVE  /\ IsSeq(Tail(s)) /\ Len(Tail(s)) = Len(s) - 1
         /\ \A n \in 1..(Len(s) - 1) : Tail(s)[n] = s[n + 1]
         /\ Head(s) = s[1] /\ 1 \in DOMAIN s
<1>1. PICK S : s \in Seq(S)
  BY DEF IsSeq
<1>2. Tail(s) \in Seq(S)
  BY <1>1
<1> QED BY <1>1, <1>2 DEF IsSeq

\* Another element behind the first k.
LEMMA WithLast ==
  ASSUME NEW s, IsSeq(s), NEW k \in Nat, k <= Len(s), NEW x,
         NEW p, p = Append(SubSeq(s, 1, k), x)
  PROVE  /\ IsSeq(p) /\ Len(p) = k + 1 /\ p[k + 1] = x /\ DOMAIN p = 1..(k + 1) /\ p # <<>>
         /\ \A n \in 1..k : p[n] = s[n]
<1> DEFINE q == SubSeq(s, 1, k)
<1>1. IsSeq(q) /\ Len(q) = k /\ \A n \in 1..k : q[n] = s[n]
  BY PartOf
<1> HIDE DEF q
<1>2. p = Append(q, x)
  BY DEF q
<1>3. IsSeq(p) /\ Len(p) = Len(q) + 1 /\ p[Len(q) + 1] = x
  BY <1>1, <1>2, Longer
<1>4. \A n \in 1..Len(q) : p[n] = q[n]
  BY <1>1, <1>2, Longer
<1>5. DOMAIN p = 1..Len(p) /\ (p = <<>> <=> Len(p) = 0)
  BY <1>3, SeqHas
<1>6. Len(p) = k + 1 /\ p[k + 1] = x /\ \A n \in 1..k : p[n] = s[n]
  BY <1>1, <1>3, <1>4
<1>7. DOMAIN p = 1..(k + 1) /\ p # <<>>
  BY <1>5, <1>6
<1> QED BY <1>3, <1>6, <1>7

\* A function of numbers from 1 on is a sequence.
LEMMA ListIs ==
  ASSUME NEW n \in Nat, NEW f, f = [k \in 1..n |-> f[k]]
  PROVE  IsSeq(f) /\ Len(f) = n
<1>1. f \in Seq({f[k] : k \in 1..n})
  OBVIOUS
<1>2. Len(f) = n
  OBVIOUS
<1> QED BY <1>1, <1>2 DEF IsSeq

-----------------------------------------------------------------------------
(* What is true of every program *)

Fields == {"base", "offset", "mem_cache", "cls", "instance", "dclr_pos", "instance_pos"}
\* a reader fills in blocks that were not there when the graphs were written
IsReader(new, size, d) ==
  /\ DOMAIN d = Fields /\ d.cls \in {0} \cup DOMAIN Classes
  /\ d.base \in Nat /\ d.base > 1 /\ d.offset \in 1 .. size + 1
  /\ d.instance \in {0} \cup new
  /\ d.dclr_pos \in Nat \ {0}
  /\ IF d.cls = 0 THEN d.dclr_pos = 1 ELSE d.instance # 0 /\ d.dclr_pos <= Len(Classes[d.cls]) + 1
IsBlock(block) == DOMAIN block = {"cls", "mem"} /\ block.cls \in {0} \cup DOMAIN Classes
\* the blocks of h are as they were
Keeps(h, g) ==
  /\ IsSeq(g) /\ DOMAIN h.heap \subseteq DOMAIN g
  /\ \A b \in DOMAIN h.heap : g[b] = h.heap[b]
  /\ \A b \in DOMAIN g : IsBlock(g[b])

\* what the graphs of h consist of for the serializer
Closed(h, met) ==
  /\ met \subseteq DOMAIN h.heap
  /\ \A k \in DOMAIN h.roots : h.roots[k] \in {0} \cup met
  /\ \A b \in met : \A item \in ToSet(Items(h.heap[b])) :
       /\ item.type = "OBJ_PARM" => item.words[1] \in {0} \cup met
       /\ item.type \in Arrays => item.words[1] \in {0} \cup (DOMAIN h.heap \ Objects(h.heap))
Fits(h, met, item) ==
  /\ item.type = "OBJ_PARM" => item.words[1] \in {0} \cup met
  /\ item.type \in Arrays => item.words[1] \in {0} \cup (DOMAIN h.heap \ Objects(h.heap))

Basic(h) ==
  /\ roots = h.roots /\ Keeps(h, heap)
  /\ IsSeq(buffer) /\ IsSeq(todo) /\ IsSeq(readers) /\ IsSeq(results)
  /\ next_id \in Nat /\ DOMAIN serial_ids \subseteq DOMAIN h.heap
  /\ pos \in 1 .. Len(buffer) + 1
  /\ \A n \in DOMAIN readers : IsReader(DOMAIN heap \ DOMAIN h.heap, Len(buffer), readers[n])
Stage(h) ==
  /\ status \in {"write", "read", "done", "garbled"}
  /\ status = "write" => /\ heap = h.heap /\ readers = <<>> /\ results = <<>> /\ pos = 1
                         /\ turn \in 1 .. Len(roots)
  /\ status # "write" => /\ todo = <<>> /\ turn \in 1 .. Len(roots) + 1 /\ Len(results) = turn - 1
                         /\ readers # <<>> => turn <= Len(roots)
Fitting(h, met) == \A n \in DOMAIN todo : Fits(h, met, todo[n])
Walk(h, met) == Basic(h) /\ Stage(h) /\ Closed(h, met) /\ Fitting(h, met)

\* What HeapsAssumption says of one program.
LEMMA Program ==
  ASSUME NEW h \in Heaps
  PROVE  /\ IsSeq(h.heap) /\ IsSeq(h.roots) /\ Len(h.roots) \in Nat /\ Len(h.roots) > 0
         /\ 1 \in DOMAIN h.roots /\ 0 \notin DOMAIN h.heap
         /\ \A b \in DOMAIN h.heap : h.heap[b] \in [cls : {0} \cup DOMAIN Classes, mem : Seq(Int)]
         /\ Keeps(h, h.heap)
         /\ \E met : Closed(h, met)
<1>1. /\ h.heap \in Seq([cls : {0} \cup DOMAIN Classes, mem : Seq(Int)])
      /\ h.roots \in Seq({0} \cup Objects(h.heap)) /\ h.roots # <<>>
  BY HeapsAssumption
<1>2. IsSeq(h.heap) /\ IsSeq(h.roots)
  BY <1>1 DEF IsSeq
<1>3. \A b \in DOMAIN h.heap : h.heap[b] \in [cls : {0} \cup DOMAIN Classes, mem : Seq(Int)]
  <2>1. ASSUME NEW T, NEW s \in Seq(T) PROVE \A b \in DOMAIN s : s[b] \in T
    OBVIOUS
  <2> QED BY <1>1, <2>1
<1>4. Keeps(h, h.heap)
  <2>1. ASSUME NEW x \in [cls : {0} \cup DOMAIN Classes, mem : Seq(Int)] PROVE IsBlock(x)
    BY DEF IsBlock
  <2> QED BY <1>2, <1>3, <2>1 DEF Keeps
<1>5. \E met : Closed(h, met)
  <2>1. PICK met \in SUBSET DOMAIN h.heap :
         /\ \A k \in DOMAIN h.roots : h.roots[k] \in {0} \cup met
         /\ \A b \in met : \A item \in ToSet(Items(h.heap[b])) :
              /\ item.type = "OBJ_PARM" => item.words[1] \in {0} \cup met
              /\ item.type \in Arrays => item.words[1] \in {0} \cup (DOMAIN h.heap \ Objects(h.heap))
    BY HeapsAssumption
  <2> QED BY <2>1 DEF Closed
<1>6. Len(h.roots) \in Nat /\ Len(h.roots) > 0 /\ 1 \in DOMAIN h.roots
  BY <1>1, <1>2, SeqHas
<1>7. 0 \notin DOMAIN h.heap
  BY <1>2, SeqHas
<1> QED BY <1>2, <1>3, <1>4, <1>5, <1>6, <1>7

\* CheckMemory and the loop of CheckObject have a list of things to write.
LEMMA ItemsList ==
  ASSUME NEW h \in Heaps, NEW b \in DOMAIN h.heap
  PROVE  LET its == Items(h.heap[b])
         IN  /\ IsSeq(its)
             /\ h.heap[b].cls # 0 => Len(its) = Len(Classes[h.heap[b].cls])
<1> DEFINE block == h.heap[b]
<1>1. block.cls \in {0} \cup DOMAIN Classes
  BY Program
<1>2. CASE block.cls # 0
  <2> DEFINE types == Classes[block.cls]
             f == Items(block)
  <2>1. types \in Seq({"INT_PARM", "FLOAT_PARM", "INT_ARY_PARM", "CHAR_ARY_PARM", "OBJ_PARM",
                       "OBJ_ARY_PARM"})
    BY <1>1, <1>2, SerializerAssumption
  <2>2. DOMAIN types = 1..Len(types) /\ Len(types) \in Nat
    BY <2>1
  <2>3. f = [n \in 1..Len(types) |-> f[n]]
    BY <1>2, <2>2 DEF Items
  <2> HIDE DEF f, types
  <2>4. IsSeq(f) /\ Len(f) = Len(types)
    BY <2>2, <2>3, ListIs
  <2> QED BY <2>4, <1>2 DEF f, types
<1>3. CASE block.cls = 0
  <2> DEFINE f == Items(block)
             size == block.mem[1]
  <2>1. size \in Nat
    BY <1>3, HeapsAssumption
  <2>2. f = [n \in 1..size |-> f[n]]
    BY <1>3 DEF Items
  <2> HIDE DEF f, size
  <2>3. IsSeq(f)
    BY <2>1, <2>2, ListIs
  <2> QED BY <2>3, <1>3 DEF f
<1> QED BY <1>2, <1>3

\* A value put into an instance of the reader's leaves the blocks written.
LEMMA PutKeeps ==
  ASSUME NEW h \in Heaps, NEW g, Keeps(h, g), NEW i, i \notin DOMAIN h.heap,
         NEW p, p = [b \in DOMAIN g |-> p[b]], \A b \in DOMAIN g : b # i => p[b] = g[b],
         i \in DOMAIN g /\ IsBlock(g[i]) => IsBlock(p[i])
  PROVE  Keeps(h, p) /\ DOMAIN p = DOMAIN g /\ Len(p) = Len(g)
<1>1. DOMAIN g = 1..Len(g) /\ Len(g) \in Nat /\ IsSeq(g)
  BY SeqHas DEF Keeps
<1>2. p = [n \in 1..Len(g) |-> p[n]]
  BY <1>1
<1>3. IsSeq(p) /\ Len(p) = Len(g)
  BY <1>1, <1>2, ListIs
<1>4. DOMAIN p = DOMAIN g
  BY <1>1, <1>3, SeqHas
<1> QED BY <1>3, <1>4 DEF Keeps

\* So does a new block.
LEMMA NewKeeps ==
  ASSUME NEW h \in Heaps, NEW g, Keeps(h, g), NEW block, IsBlock(block), NEW p, p = Append(g, block)
  PROVE  /\ Keeps(h, p) /\ Len(p) = Len(g) + 1 /\ DOMAIN g \subseteq DOMAIN p
         /\ Len(g) + 1 \in DOMAIN p \ DOMAIN h.heap /\ p[Len(g) + 1] = block
         /\ \A b \in DOMAIN g : p[b] = g[b]
<1>1. DOMAIN g = 1..Len(g) /\ Len(g) \in Nat /\ IsSeq(g)
  BY SeqHas DEF Keeps
<1>2. /\ IsSeq(p) /\ Len(p) = Len(g) + 1 /\ p[Len(g) + 1] = block
      /\ \A b \in 1..Len(g) : p[b] = g[b]
  <2>1. IsSeq(p) /\ Len(p) = Len(g) + 1 /\ p[Len(g) + 1] = block
    BY <1>1, Longer
  <2>2. \A b \in 1..Len(g) : p[b] = g[b]
    BY <1>1, Longer
  <2> QED BY <2>1, <2>2
<1>3. DOMAIN p = 1..(Len(g) + 1)
  BY <1>2, SeqHas
<1> QED BY <1>1, <1>2, <1>3 DEF Keeps

-----------------------------------------------------------------------------
(* The serializer *)

\* It appends to the buffer and puts more in front of what is to be written.
LEMMA WriteWalks ==
  ASSUME NEW h \in Heaps, NEW met, Walk(h, met), status = "write", todo # <<>>,
         NEW tokens, IsSeq(tokens), NEW more, IsSeq(more),
         \A n \in DOMAIN more : Fits(h, met, more[n]), Writes(tokens, more),
         UNCHANGED <<heap, control, reader>>,
         next_id' \in Nat, DOMAIN serial_ids' \subseteq DOMAIN h.heap
  PROVE  Walk(h, met)'
<1> DEFINE rest == Tail(todo)
<1>1. IsSeq(buffer') /\ Len(buffer') = Len(buffer) + Len(tokens) /\ Len(tokens) \in Nat /\ Len(buffer) \in Nat
  BY Joined, SeqHas DEF Walk, Basic, Writes
<1>2. /\ IsSeq(rest) /\ Len(rest) = Len(todo) - 1
      /\ \A n \in 1..(Len(todo) - 1) : rest[n] = todo[n + 1]
      /\ DOMAIN todo = 1..Len(todo) /\ Len(todo) \in Nat
  BY TailOf, SeqHas DEF Walk, Basic
<1>3. todo' = more \o rest
  BY DEF Writes
<1> HIDE DEF rest
<1>4. /\ IsSeq(todo') /\ Len(todo') = Len(more) + Len(rest)
      /\ \A n \in 1..Len(more) : todo'[n] = more[n]
      /\ \A n \in 1..Len(rest) : todo'[Len(more) + n] = rest[n]
  <2> DEFINE p == todo'
  <2>1. IsSeq(more) /\ IsSeq(rest) /\ p = more \o rest
    BY <1>2, <1>3
  <2> HIDE DEF p
  <2>2. IsSeq(p) /\ Len(p) = Len(more) + Len(rest)
    BY <2>1, Joined
  <2>3. \A n \in 1..Len(more) : p[n] = more[n]
    BY <2>1, Joined
  <2>4. \A n \in 1..Len(rest) : p[Len(more) + n] = rest[n]
    BY <2>1, Joined
  <2> QED BY <2>2, <2>3, <2>4 DEF p
<1>5. ASSUME NEW n \in DOMAIN todo' PROVE Fits(h, met, todo'[n])
  <2>1. n \in 1..Len(todo') /\ DOMAIN more = 1..Len(more) /\ Len(more) \in Nat
    BY <1>4, SeqHas
  <2>2. CASE n <= Len(more)
    BY <1>4, <2>1, <2>2
  <2>3. CASE n > Len(more)
    <3>1. n - Len(more) \in 1..Len(rest) /\ n = Len(more) + (n - Len(more))
      BY <1>2, <1>4, <2>1, <2>3
    <3> DEFINE k == n - Len(more)
    <3>2. k \in 1..Len(rest) /\ n = Len(more) + k
      BY <3>1
    <3>3. todo'[n] = rest[k] /\ rest[k] = todo[k + 1] /\ k + 1 \in DOMAIN todo
      BY <1>2, <1>4, <3>2
    <3> QED BY <3>3 DEF Walk, Fitting
  <2> QED BY <2>1, <2>2, <2>3
<1>6. Basic(h)'
  BY <1>1, <1>4 DEF Walk, Basic, Stage, control, reader, IsReader
<1>7. Stage(h)'
  BY DEF Walk, Stage, control, reader
<1> QED BY <1>5, <1>6, <1>7 DEF Walk, Fitting, Closed

\* WasSerialized numbers a block of the graph.
LEMMA NumbersStay ==
  ASSUME NEW h \in Heaps, Basic(h), NEW a \in DOMAIN h.heap, WasSerialized(a)
  PROVE  next_id' \in Nat /\ DOMAIN serial_ids' \subseteq DOMAIN h.heap
<1>1. CASE Seen(a)
  BY <1>1 DEF Basic, WasSerialized
<1>2. CASE ~Seen(a)
  BY <1>2 DEF Basic, WasSerialized
<1> QED BY <1>1, <1>2

\* Sequences that are written out.
LEMMA ShortList ==
  /\ IsSeq(<<>>) /\ Len(<<>>) = 0
  /\ \A x : IsSeq(<<x>>) /\ Len(<<x>>) = 1 /\ <<x>>[1] = x /\ DOMAIN <<x>> = {1}
  /\ \A x, y : IsSeq(<<x, y>>) /\ Len(<<x, y>>) = 2
  /\ \A x, y, z : IsSeq(<<x, y, z>>) /\ Len(<<x, y, z>>) = 3
<1>1. ASSUME NEW x, NEW y, NEW z
      PROVE  /\ <<>> \in Seq({x}) /\ <<x>> \in Seq({x}) /\ <<x, y>> \in Seq({x, y})
             /\ <<x, y, z>> \in Seq({x, y, z})
  OBVIOUS
<1>2. IsSeq(<<>>) /\ Len(<<>>) = 0
  BY <1>1 DEF IsSeq
<1>3. ASSUME NEW x
      PROVE  IsSeq(<<x>>) /\ Len(<<x>>) = 1 /\ <<x>>[1] = x /\ DOMAIN <<x>> = {1}
  <2>1. IsSeq(<<x>>)
    BY <1>1 DEF IsSeq
  <2>2. Len(<<x>>) = 1 /\ <<x>>[1] = x
    OBVIOUS
  <2> QED BY <2>1, <2>2, SeqHas
<1>4. \A x, y : IsSeq(<<x, y>>) /\ Len(<<x, y>>) = 2
  BY <1>1 DEF IsSeq
<1>5. \A x, y, z : IsSeq(<<x, y, z>>) /\ Len(<<x, y, z>>) = 3
  BY <1>1 DEF IsSeq
<1> QED BY <1>2, <1>3, <1>4, <1>5

\* Every value that Write appends leaves graphs of the program to be written.
LEMMA Serializes ==
  ASSUME NEW h \in Heaps, NEW met, Walk(h, met),
         SerializeInt \/ SerializeFloat \/ SerializeArray \/ CheckObject \/ SkipDeclaration
  PROVE  Walk(h, met)'
<1>1. 1 \in DOMAIN todo /\ Head(todo) = todo[1] /\ status = "write" /\ todo # <<>>
  BY TailOf DEF Walk, Basic, SerializeInt, SerializeFloat, SerializeArray, CheckObject, SkipDeclaration, Due
<1>2. ASSUME Known PROVE next_id' \in Nat /\ DOMAIN serial_ids' \subseteq DOMAIN h.heap
  BY <1>2 DEF Walk, Basic, Known
<1>3. \A n \in DOMAIN <<>> : Fits(h, met, <<>>[n])
  OBVIOUS
<1>4. Fits(h, met, Head(todo))
  BY <1>1 DEF Walk, Fitting
<1>5. CASE SerializeInt
  BY <1>1, <1>2, <1>3, <1>5, ShortList, WriteWalks DEF SerializeInt
<1>6. CASE SerializeFloat
  BY <1>1, <1>2, <1>3, <1>6, ShortList, WriteWalks DEF SerializeFloat
<1>7. CASE SkipDeclaration
  BY <1>1, <1>2, <1>3, <1>7, ShortList, WriteWalks DEF SkipDeclaration
<1>8. CASE SerializeArray
  <2>1. CASE word = 0
    BY <1>1, <1>2, <1>3, <1>8, <2>1, ShortList, WriteWalks DEF SerializeArray
  <2>2. CASE word # 0
    <3> DEFINE numbered == <<OneByte(1), IntBytes(Number(word))>>
               contents == IF Seen(word) THEN <<>>
                           ELSE <<Token("array", Contents(Head(todo).type, heap[word].mem))>>
    <3>1. word \in DOMAIN h.heap
      BY <1>4, <1>8, <2>2 DEF Fits, SerializeArray, Due, word
    <3>2. next_id' \in Nat /\ DOMAIN serial_ids' \subseteq DOMAIN h.heap
      BY <1>8, <2>2, <3>1, NumbersStay DEF SerializeArray, Walk
    <3>3. IsSeq(numbered) /\ IsSeq(contents)
      BY ShortList
    <3>4. Writes(numbered \o contents, <<>>) /\ UNCHANGED <<heap, control, reader>>
      BY <1>8, <2>2 DEF SerializeArray
    <3> HIDE DEF numbered, contents
    <3>5. IsSeq(numbered \o contents)
      BY <3>3, Joined
    <3> QED BY <1>1, <1>3, <3>2, <3>4, <3>5, ShortList, WriteWalks
  <2> QED BY <2>1, <2>2
<1>9. CASE CheckObject
  <2>1. CASE word = 0
    BY <1>1, <1>2, <1>3, <1>9, <2>1, ShortList, WriteWalks DEF CheckObject
  <2>2. CASE word # 0
    <3> DEFINE block == heap[word]
               one   == <<OneByte(1)>>
               cls   == IF block.cls # 0 THEN <<IntBytes(block.cls)>> ELSE <<>>
               num   == <<IntBytes(Number(word))>>
               more  == IF Seen(word) THEN <<>> ELSE Items(block)
    <3>1. word \in met /\ word \in DOMAIN h.heap
      BY <1>4, <1>9, <2>2 DEF Fits, CheckObject, Due, word, Walk, Closed
    <3>2. next_id' \in Nat /\ DOMAIN serial_ids' \subseteq DOMAIN h.heap
      BY <1>9, <2>2, <3>1, NumbersStay DEF CheckObject, Walk
    <3>3. IsSeq(one) /\ IsSeq(cls) /\ IsSeq(num)
      BY ShortList
    <3>4. heap[word] = h.heap[word]
      BY <1>1, <3>1 DEF Walk, Basic, Keeps
    <3>5. IsSeq(more) /\ \A n \in DOMAIN more : Fits(h, met, more[n])
      <4>1. CASE Seen(word)
        BY <4>1, <1>3, ShortList
      <4>2. CASE ~Seen(word)
        <5>1. more = Items(h.heap[word])
          BY <3>4, <4>2
        <5>2. \A n \in DOMAIN more : more[n] \in ToSet(more)
          BY DEF ToSet
        <5> HIDE DEF more
        <5>3. \A n \in DOMAIN more : Fits(h, met, more[n])
          BY <3>1, <5>1, <5>2 DEF Walk, Closed, Fits
        <5> QED BY <3>1, <5>1, <5>3, ItemsList
      <4> QED BY <4>1, <4>2
    <3>6. Writes(one \o cls \o num, more) /\ UNCHANGED <<heap, control, reader>>
      BY <1>9, <2>2 DEF CheckObject
    <3> HIDE DEF one, cls, num, more
    <3>7. IsSeq(one \o cls \o num)
      BY <3>3, Joined
    <3> QED BY <1>1, <3>2, <3>5, <3>6, <3>7, WriteWalks
  <2> QED BY <2>1, <2>2
<1> QED BY <1>5, <1>6, <1>7, <1>8, <1>9

\* What is wanted of the next object is the object.
LEMMA WantedFits ==
  ASSUME NEW h \in Heaps, NEW met, Closed(h, met), NEW k \in DOMAIN h.roots
  PROVE  LET w == Wanted(h.roots[k])
         IN  /\ IsSeq(w) /\ Len(w) = 1 /\ DOMAIN w = {1} /\ Fits(h, met, w[1])
             /\ w[1] = Item("OBJ_PARM", <<h.roots[k]>>) /\ w # <<>>
<1> DEFINE item == Item("OBJ_PARM", <<h.roots[k]>>)
<1>1. item.type = "OBJ_PARM" /\ item.words[1] = h.roots[k]
  BY DEF Item
<1>2. Wanted(h.roots[k]) = <<item>>
  BY DEF Wanted
<1> HIDE DEF item
<1>3. Fits(h, met, item)
  BY <1>1 DEF Closed, Fits, Arrays
<1>4. Wanted(h.roots[k]) # <<>>
  BY <1>2, ShortList
<1> QED BY <1>2, <1>3, <1>4, ShortList DEF item

\* So does the end of a graph, with the next one or with the first to be read.
LEMMA Finishes ==
  ASSUME NEW h \in Heaps, NEW met, Walk(h, met), EndSerialize
  PROVE  Walk(h, met)'
<1>1. /\ status = "write" /\ todo = <<>> /\ serial_ids' = << >> /\ next_id' = 0
      /\ UNCHANGED <<heap, roots, buffer, reader>>
  BY DEF EndSerialize
<1>2. DOMAIN serial_ids' = {}
  BY <1>1
<1>3. Len(results) = 0 /\ Len(roots) \in Nat /\ turn \in 1..Len(roots) /\ DOMAIN h.roots = 1..Len(h.roots)
      /\ roots = h.roots
  BY <1>1, Program, SeqHas, ShortList DEF Walk, Stage, Basic
<1>4. CASE turn < Len(roots)
  <2>1. turn' = turn + 1 /\ todo' = Wanted(h.roots[turn + 1]) /\ status' = status
    BY <1>3, <1>4 DEF EndSerialize
  <2>2. IsSeq(todo') /\ DOMAIN todo' = {1} /\ Fits(h, met, todo'[1])
    <3>1. turn + 1 \in DOMAIN h.roots /\ Closed(h, met)
      BY <1>3, <1>4 DEF Walk
    <3> QED BY <2>1, <3>1, WantedFits
  <2>3. Basic(h)'
    BY <1>1, <1>2, <2>2 DEF Walk, Basic, reader
  <2>4. Stage(h)'
    BY <1>1, <1>3, <1>4, <2>1 DEF Walk, Stage, reader
  <2> QED BY <2>2, <2>3, <2>4 DEF Walk, Fitting
<1>5. CASE ~(turn < Len(roots))
  <2>1. turn' = 1 /\ status' = "read" /\ todo' = todo
    BY <1>5 DEF EndSerialize
  <2>2. Basic(h)'
    BY <1>1, <1>2, <2>1 DEF Walk, Basic, reader
  <2>3. Stage(h)'
    BY <1>1, <1>3, <2>1 DEF Walk, Stage, reader
  <2>4. Fitting(h, met)'
    BY <2>1 DEF Walk, Fitting
  <2> QED BY <2>2, <2>3, <2>4 DEF Walk
<1> QED BY <1>4, <1>5

-----------------------------------------------------------------------------
(* The deserializer *)

\* More blocks and other readers, none of which is at work on a block that was written.
LEMMA ReadWalks ==
  ASSUME NEW h \in Heaps, NEW met, Walk(h, met), status = "read", readers # <<>>,
         NEW g, heap' = g, Keeps(h, g), DOMAIN heap \subseteq DOMAIN g,
         NEW rs, readers' = rs, IsSeq(rs), rs # <<>>,
         \A n \in DOMAIN rs : IsReader(DOMAIN g \ DOMAIN h.heap, Len(buffer), rs[n]),
         UNCHANGED <<control, writer, pos, results>>
  PROVE  Walk(h, met)'
<1>1. Basic(h)'
  BY DEF Walk, Basic, control, writer
<1>2. Stage(h)'
  BY DEF Walk, Stage, control, writer
<1>3. Fitting(h, met)'
  BY DEF Walk, Fitting, writer
<1> QED BY <1>1, <1>2, <1>3 DEF Walk

\* The deserializer at work, and what takes its place.
LEMMA Innermost ==
  ASSUME NEW h \in Heaps, NEW met, Walk(h, met), status = "read", readers # <<>>
  PROVE  /\ Len(readers) \in Nat /\ Len(readers) > 0 /\ DOMAIN readers = 1..Len(readers)
         /\ r = readers[Len(readers)] /\ IsReader(DOMAIN heap \ DOMAIN h.heap, Len(buffer), r)
         /\ \A d : LET rs == Replaced(d)
                   IN  /\ IsSeq(rs) /\ Len(rs) = Len(readers) /\ rs[Len(readers)] = d
                       /\ \A n \in 1..(Len(readers) - 1) : rs[n] = readers[n]
<1>1. Len(readers) \in Nat /\ Len(readers) > 0 /\ DOMAIN readers = 1..Len(readers) /\ IsSeq(readers)
  BY SeqHas DEF Walk, Basic
<1>2. r = readers[Len(readers)]
  BY DEF r, Last
<1>3. IsReader(DOMAIN heap \ DOMAIN h.heap, Len(buffer), r)
  <2>1. \A n \in DOMAIN readers : IsReader(DOMAIN heap \ DOMAIN h.heap, Len(buffer), readers[n])
    BY DEF Walk, Basic
  <2>2. Len(readers) \in DOMAIN readers
    BY <1>1
  <2> QED BY <1>2, <2>1, <2>2
<1>4. ASSUME NEW d
      PROVE  LET rs == Replaced(d)
             IN  /\ IsSeq(rs) /\ Len(rs) = Len(readers) /\ rs[Len(readers)] = d
                 /\ \A n \in 1..(Len(readers) - 1) : rs[n] = readers[n]
  <2> DEFINE rs == Replaced(d)
             k  == Len(readers) - 1
  <2>1. rs = Append(SubSeq(readers, 1, k), d) /\ k \in Nat /\ k <= Len(readers) /\ Len(readers) = k + 1
    BY <1>1 DEF Replaced, Front
  <2> HIDE DEF rs, k
  <2>2. IsSeq(rs)
    BY <1>1, <2>1, WithLast
  <2>3. Len(rs) = k + 1 /\ \A n \in 1..k : rs[n] = readers[n]
    BY <1>1, <2>1, WithLast
  <2>4. rs[k + 1] = d
    BY <1>1, <2>1, WithLast
  <2> QED BY <2>1, <2>2, <2>3, <2>4 DEF rs, k
<1> QED BY <1>1, <1>2, <1>3, <1>4

\* A reader has room for more blocks.
LEMMA ReaderStays ==
  ASSUME NEW new, NEW more, new \subseteq more, NEW size, NEW d, IsReader(new, size, d)
  PROVE  IsReader(more, size, d)
BY DEF IsReader

\* ReadWalks where only the innermost reader changes.
LEMMA ReplacedWalks ==
  ASSUME NEW h \in Heaps, NEW met, Walk(h, met), status = "read", readers # <<>>,
         NEW g, heap' = g, Keeps(h, g), DOMAIN heap \subseteq DOMAIN g,
         NEW d, readers' = Replaced(d), IsReader(DOMAIN g \ DOMAIN h.heap, Len(buffer), d),
         UNCHANGED <<control, writer, pos, results>>
  PROVE  Walk(h, met)'
<1> DEFINE rs == Replaced(d)
           m  == Len(readers)
<1>1. m \in Nat /\ m > 0 /\ DOMAIN readers = 1..m
  BY Innermost
<1>2. IsSeq(rs) /\ Len(rs) = m /\ rs[m] = d /\ \A n \in 1..(m - 1) : rs[n] = readers[n]
  BY Innermost
<1> HIDE DEF rs
<1>3. DOMAIN rs = 1..m /\ rs # <<>>
  BY <1>1, <1>2, SeqHas
<1>4. ASSUME NEW n \in DOMAIN rs PROVE IsReader(DOMAIN g \ DOMAIN h.heap, Len(buffer), rs[n])
  <2>1. CASE n = m
    BY <1>2, <2>1
  <2>2. CASE n # m
    <3>1. n \in 1..(m - 1) /\ n \in DOMAIN readers
      BY <1>1, <1>3, <2>2
    <3>2. IsReader(DOMAIN heap \ DOMAIN h.heap, Len(buffer), readers[n])
      BY <3>1 DEF Walk, Basic
    <3> QED BY <1>2, <3>1, <3>2, ReaderStays
  <2> QED BY <2>1, <2>2
<1>5. readers' = rs
  BY DEF rs
<1> HIDE DEF m
<1> QED BY <1>2, <1>3, <1>4, <1>5, ReadWalks

\* A word put into the instance of a reader at work.
LEMMA PutWalks ==
  ASSUME NEW h \in Heaps, NEW met, Walk(h, met), NEW d, NEW words,
         IsReader(DOMAIN heap \ DOMAIN h.heap, Len(buffer), d)
  PROVE  Keeps(h, Put(d, words)) /\ DOMAIN Put(d, words) = DOMAIN heap /\ Len(Put(d, words)) = Len(heap)
<1> DEFINE i == d.instance
           p == Put(d, words)
<1>1. i \notin DOMAIN h.heap /\ Keeps(h, heap)
  BY Program DEF IsReader, Walk, Basic
<1>2. p = [b \in DOMAIN heap |-> p[b]] /\ \A b \in DOMAIN heap : b # i => p[b] = heap[b]
  BY DEF Put
<1>3. ASSUME i \in DOMAIN heap, IsBlock(heap[i]) PROVE IsBlock(p[i])
  BY <1>3 DEF Put, IsBlock
<1> HIDE DEF i, p
<1>4. Keeps(h, p) /\ DOMAIN p = DOMAIN heap /\ Len(p) = Len(heap)
  BY <1>1, <1>2, <1>3, PutKeeps
<1> QED BY <1>4 DEF p

\* The reader that waits for the object of the innermost one.
LEMMA Outer ==
  ASSUME NEW h \in Heaps, NEW met, Walk(h, met), status = "read", readers # <<>>, Len(readers) # 1
  PROVE  /\ Len(readers) - 1 \in 1..(Len(readers) - 1) /\ outer = readers[Len(readers) - 1]
         /\ IsReader(DOMAIN heap \ DOMAIN h.heap, Len(buffer), outer)
         /\ \A d : LET rs == Append(SubSeq(readers, 1, Len(readers) - 2), d)
                   IN  /\ IsSeq(rs) /\ Len(rs) = Len(readers) - 1 /\ rs[Len(readers) - 1] = d
                       /\ DOMAIN rs = 1..(Len(readers) - 1) /\ rs # <<>>
                       /\ \A n \in 1..(Len(readers) - 2) : rs[n] = readers[n]
<1>1. Len(readers) \in Nat /\ Len(readers) > 1 /\ DOMAIN readers = 1..Len(readers) /\ IsSeq(readers)
  <2>1. IsSeq(readers)
    BY DEF Walk, Basic
  <2>2. Len(readers) \in Nat /\ DOMAIN readers = 1..Len(readers) /\ Len(readers) # 0
    BY <2>1, SeqHas
  <2> QED BY <2>1, <2>2
<1>2. IsReader(DOMAIN heap \ DOMAIN h.heap, Len(buffer), outer)
  <2>1. \A n \in DOMAIN readers : IsReader(DOMAIN heap \ DOMAIN h.heap, Len(buffer), readers[n])
    BY Zenon DEF Walk, Basic
  <2>2. Len(readers) - 1 \in DOMAIN readers
    BY <1>1
  <2> QED BY <2>1, <2>2 DEF outer
<1>3. ASSUME NEW d
      PROVE  LET rs == Append(SubSeq(readers, 1, Len(readers) - 2), d)
             IN  /\ IsSeq(rs) /\ Len(rs) = Len(readers) - 1 /\ rs[Len(readers) - 1] = d
                 /\ DOMAIN rs = 1..(Len(readers) - 1) /\ rs # <<>>
                 /\ \A n \in 1..(Len(readers) - 2) : rs[n] = readers[n]
  <2> DEFINE rs == Append(SubSeq(readers, 1, Len(readers) - 2), d)
             k  == Len(readers) - 2
  <2>1. rs = Append(SubSeq(readers, 1, k), d) /\ k \in Nat /\ k <= Len(readers) /\ Len(readers) - 1 = k + 1
    BY <1>1
  <2> HIDE DEF rs, k
  <2>2. IsSeq(rs)
    BY <1>1, <2>1, WithLast
  <2>3. Len(rs) = k + 1 /\ DOMAIN rs = 1..(k + 1)
    BY <1>1, <2>1, WithLast
  <2>5. rs # <<>>
    <3> SUFFICES ASSUME rs = <<>> PROVE FALSE
      OBVIOUS
    <3>1. Len(rs) = 0
      BY ShortList
    <3> QED BY <2>1, <2>3, <3>1
  <2>4. rs[k + 1] = d /\ \A n \in 1..k : rs[n] = readers[n]
    BY <1>1, <2>1, WithLast
  <2> QED BY <2>1, <2>2, <2>3, <2>4, <2>5, Zenon DEF rs, k
<1>4. Len(readers) - 1 \in 1..(Len(readers) - 1) /\ outer = readers[Len(readers) - 1]
  BY <1>1 DEF outer
<1> QED BY <1>2, <1>3, <1>4

\* offset and cache are copied back, the word is behind the reader.
LEMMA OuterGoesOn ==
  ASSUME NEW new, NEW size, NEW o, NEW d, IsReader(new, size, o), IsReader(new, size, d)
  PROVE  LET q == Moved(TakenBack(o, d), 1)
         IN  /\ IsReader(new, size, q) /\ q.offset = d.offset /\ q.mem_cache = d.mem_cache
             /\ q.cls = o.cls /\ q.dclr_pos = o.dclr_pos
             /\ q.instance = o.instance /\ q.base = o.base
BY DEF IsReader, Moved, TakenBack, Fields

\* An object returned: to the operand stack, or to the reader outside.
LEMMA ReturnWalks ==
  ASSUME NEW h \in Heaps, NEW met, Walk(h, met), status = "read", readers # <<>>,
         NEW address, NEW d, IsReader(DOMAIN heap \ DOMAIN h.heap, Len(buffer), d),
         Return(address, d), UNCHANGED <<roots, status, writer>>
  PROVE  Walk(h, met)'
<1>1. CASE Len(readers) = 1
  <2>1. /\ results' = Append(results, address) /\ turn' = turn + 1 /\ pos' = d.offset
        /\ readers' = <<>> /\ heap' = heap
    BY <1>1 DEF Return
  <2>2. /\ IsSeq(results') /\ Len(results') = Len(results) + 1
    BY <2>1, Longer DEF Walk, Basic
  <2>3. IsSeq(readers') /\ DOMAIN readers' = {}
    BY <2>1, ShortList, SeqHas
  <2>4. pos' \in 1 .. Len(buffer) + 1
    BY <2>1 DEF IsReader
  <2>5. Basic(h)'
    BY <2>1, <2>2, <2>3, <2>4 DEF Walk, Basic, writer
  <2>6. turn \in 1..Len(roots) /\ Len(roots) \in Nat
    BY Program DEF Walk, Stage, Basic
  <2>7. Stage(h)'
    BY <2>1, <2>2, <2>6 DEF Walk, Stage, writer
  <2>8. Fitting(h, met)'
    BY DEF Walk, Fitting, writer
  <2> QED BY <2>5, <2>7, <2>8 DEF Walk
<1>2. CASE Len(readers) # 1
  <2> DEFINE q  == Moved(TakenBack(outer, d), 1)
             rs == Append(SubSeq(readers, 1, Len(readers) - 2), q)
             m  == Len(readers) - 1
             g  == Put(outer, <<address>>)
             new == DOMAIN heap \ DOMAIN h.heap
  <2>1. /\ readers' = rs /\ heap' = g
        /\ UNCHANGED <<results, turn, pos>>
    BY <1>2 DEF Return
  <2>2. IsReader(new, Len(buffer), outer)
    BY <1>2, Outer
  <2>3. IsReader(new, Len(buffer), q)
    BY <2>2, OuterGoesOn
  <2>4. /\ IsSeq(rs) /\ rs[m] = q /\ DOMAIN rs = 1..m /\ rs # <<>>
        /\ \A n \in 1..(Len(readers) - 2) : rs[n] = readers[n]
    BY <1>2, Outer
  <2>5. m \in Nat /\ Len(readers) - 2 = m - 1 /\ DOMAIN readers = 1..(m + 1)
    BY Innermost
  <2>6. Keeps(h, g) /\ DOMAIN g = DOMAIN heap
    BY <2>2, PutWalks
  <2> HIDE DEF g, rs, q, m
  <2>7. ASSUME NEW n \in DOMAIN rs PROVE IsReader(new, Len(buffer), rs[n])
    <3>1. CASE n = m
      BY <2>3, <2>4, <3>1
    <3>2. CASE n # m
      <4>1. n \in 1..(m - 1) /\ n \in DOMAIN readers
        BY <2>4, <2>5, <3>2
      <4> QED BY <2>4, <2>5, <4>1 DEF Walk, Basic
    <3> QED BY <3>1, <3>2
  <2>8. UNCHANGED <<control, writer, pos, results>>
    BY <2>1 DEF control
  <2> QED BY <2>1, <2>4, <2>6, <2>7, <2>8, ReadWalks
<1> QED BY <1>1, <1>2

\* The tokens that are ahead are in the buffer.
LEMMA AheadAre ==
  ASSUME NEW n \in Nat
  PROVE  /\ \A a : Ahead(n, <<a>>) => n \in DOMAIN buffer /\ buffer[n].kind = a
         /\ \A a, b : Ahead(n, <<a, b>>) => /\ n \in DOMAIN buffer /\ buffer[n].kind = a
                                            /\ n + 1 \in DOMAIN buffer /\ buffer[n + 1].kind = b
         /\ \A a, b, c : Ahead(n, <<a, b, c>>) => /\ n \in DOMAIN buffer /\ buffer[n].kind = a
                                                  /\ n + 1 \in DOMAIN buffer /\ buffer[n + 1].kind = b
                                                  /\ n + 2 \in DOMAIN buffer /\ buffer[n + 2].kind = c
<1>1. ASSUME NEW a, Ahead(n, <<a>>) PROVE n + 1 - 1 \in DOMAIN buffer /\ buffer[n + 1 - 1].kind = a
  BY <1>1 DEF Ahead
<1>2. ASSUME NEW a, NEW b, Ahead(n, <<a, b>>)
      PROVE  /\ n + 1 - 1 \in DOMAIN buffer /\ buffer[n + 1 - 1].kind = a
             /\ n + 2 - 1 \in DOMAIN buffer /\ buffer[n + 2 - 1].kind = b
  BY <1>2 DEF Ahead
<1>3. ASSUME NEW a, NEW b, NEW c, Ahead(n, <<a, b, c>>)
      PROVE  /\ n + 1 - 1 \in DOMAIN buffer /\ buffer[n + 1 - 1].kind = a
             /\ n + 2 - 1 \in DOMAIN buffer /\ buffer[n + 2 - 1].kind = b
             /\ n + 3 - 1 \in DOMAIN buffer /\ buffer[n + 3 - 1].kind = c
  BY <1>3 DEF Ahead
<1> QED BY <1>1, <1>2, <1>3

\* The reader itself, when it has gone on in the buffer and in its class.
LEMMA ReaderGoesOn ==
  ASSUME NEW new, NEW more, new \subseteq more, NEW d, IsSeq(buffer), IsReader(new, Len(buffer), d),
         NEW e, DOMAIN e = Fields, e.base = d.base, e.cls = d.cls, e.instance = d.instance,
         e.offset \in 1 .. Len(buffer) + 1,
         e.dclr_pos = d.dclr_pos \/ (d.cls # 0 /\ d.dclr_pos <= Len(Classes[d.cls]) /\ e.dclr_pos = d.dclr_pos + 1)
  PROVE  IsReader(more, Len(buffer), e)
<1>1. d.cls # 0 => Len(Classes[d.cls]) \in Nat
  BY SerializerAssumption DEF IsReader
<1> QED BY <1>1 DEF IsReader

\* Between two objects that are read, and afterwards.
LEMMA BeginsAndEnds ==
  ASSUME NEW h \in Heaps, NEW met, Walk(h, met), DeserializeObject \/ EndDeserialize \/ Garble \/ Stay
  PROVE  Walk(h, met)'
<1>1. CASE DeserializeObject
  <2>1. /\ status = "read" /\ readers = <<>> /\ turn <= Len(roots) /\ Ahead(pos, <<"byte">>)
        /\ UNCHANGED <<heap, roots, status, writer>>
    BY <1>1 DEF DeserializeObject, BeginObject
  <2>2. IsSeq(buffer) /\ pos \in Nat /\ pos + 1 \in 1..Len(buffer) + 1 /\ pos + 1 > 1
    <3>1. IsSeq(buffer) /\ pos \in 1..Len(buffer) + 1
      BY DEF Walk, Basic
    <3>2. DOMAIN buffer = 1..Len(buffer) /\ Len(buffer) \in Nat
      BY <3>1, SeqHas
    <3>3. pos \in Nat
      BY <3>1, <3>2
    <3>4. pos \in DOMAIN buffer
      BY <2>1, <3>3, AheadAre
    <3> QED BY <3>1, <3>2, <3>4
  <2>3. CASE Read(pos) = 0
    <3>1. results' = Append(results, 0) /\ turn' = turn + 1 /\ pos' = pos + 1 /\ readers' = readers
      BY <1>1, <2>3 DEF DeserializeObject
    <3>2. IsSeq(results') /\ Len(results') = Len(results) + 1
      BY <3>1, Longer DEF Walk, Basic
    <3>3. Basic(h)'
      BY <2>1, <2>2, <3>1, <3>2 DEF Walk, Basic, writer
    <3>4. turn \in 1..Len(roots) /\ Len(roots) \in Nat
      BY <2>1, Program DEF Walk, Stage, Basic
    <3>5. Stage(h)'
      BY <2>1, <3>1, <3>2, <3>4 DEF Walk, Stage, writer
    <3> QED BY <2>1, <3>3, <3>5 DEF Walk, Fitting, writer
  <2>4. CASE Read(pos) # 0
    <3> DEFINE d == Reader(pos + 1, pos + 1, << >>)
    <3>1. readers' = <<d>> /\ UNCHANGED <<results, turn, pos>>
      BY <1>1, <2>4 DEF DeserializeObject
    <3>2. \A new : IsReader(new, Len(buffer), d)
      BY <2>2 DEF IsReader, Reader, Fields
    <3> HIDE DEF d
    <3>3. IsSeq(readers') /\ DOMAIN readers' = {1} /\ readers'[1] = d
      BY <3>1, ShortList
    <3>4. Basic(h)'
      BY <2>1, <3>1, <3>2, <3>3 DEF Walk, Basic, writer
    <3>5. Stage(h)'
      BY <2>1, <3>1 DEF Walk, Stage, writer
    <3> QED BY <2>1, <3>4, <3>5 DEF Walk, Fitting, writer
  <2> QED BY <2>3, <2>4
<1>2. CASE EndDeserialize \/ Garble \/ Stay
  <2>1. /\ UNCHANGED <<heap, roots, turn, writer, reader>>
        /\ status # "write" /\ status' \in {"read", "done", "garbled"}
    BY <1>2 DEF EndDeserialize, Garble, Stay, Ended, vars, control
  <2>2. Basic(h)'
    BY <2>1 DEF Walk, Basic, writer, reader
  <2>3. Stage(h)'
    BY <2>1 DEF Walk, Stage, writer, reader
  <2> QED BY <2>1, <2>2, <2>3 DEF Walk, Fitting, writer
<1> QED BY <1>1, <1>2

\* What every action of the innermost reader starts from.
LEMMA AtWork ==
  ASSUME NEW h \in Heaps, NEW met, Walk(h, met), status = "read", readers # <<>>
  PROVE  /\ IsReader(DOMAIN heap \ DOMAIN h.heap, Len(buffer), r)
         /\ IsSeq(buffer) /\ DOMAIN buffer = 1..Len(buffer) /\ Len(buffer) \in Nat
         /\ r.offset \in Nat /\ r.offset > 0 /\ r.offset <= Len(buffer) + 1
         /\ Keeps(h, heap) /\ IsSeq(heap) /\ Len(heap) \in Nat
<1>1. IsReader(DOMAIN heap \ DOMAIN h.heap, Len(buffer), r)
  BY Innermost
<1>2. IsSeq(buffer) /\ Keeps(h, heap) /\ IsSeq(heap)
  BY DEF Walk, Basic, Keeps
<1>3. DOMAIN buffer = 1..Len(buffer) /\ Len(buffer) \in Nat /\ Len(heap) \in Nat
  BY <1>2, SeqHas
<1> QED BY <1>1, <1>2, <1>3 DEF IsReader

\* The innermost reader k tokens further, at the same variable or the next one.
LEMMA ReaderAfter ==
  ASSUME NEW h \in Heaps, NEW met, Walk(h, met), status = "read", readers # <<>>,
         NEW more, DOMAIN heap \subseteq more,
         NEW k \in Nat, r.offset + k <= Len(buffer) + 1, NEW e, DOMAIN e = Fields,
         e.offset = r.offset + k, e.base = r.base, e.cls = r.cls, e.instance = r.instance,
         e.dclr_pos = r.dclr_pos \/ (InLoop /\ e.dclr_pos = r.dclr_pos + 1)
  PROVE  IsReader(more \ DOMAIN h.heap, Len(buffer), e)
<1>1. e.dclr_pos = r.dclr_pos \/ (r.cls # 0 /\ r.dclr_pos <= Len(Classes[r.cls]) /\ e.dclr_pos = r.dclr_pos + 1)
  BY DEF InLoop, declared
<1>2. e.offset \in 1..Len(buffer) + 1
  <2>1. r.offset \in Nat /\ r.offset > 0 /\ Len(buffer) \in Nat
    BY AtWork
  <2> QED BY <2>1
<1> QED BY <1>1, <1>2, AtWork, ReaderGoesOn

\* The class and the number of an object.
LEMMA Enters ==
  ASSUME NEW h \in Heaps, NEW met, Walk(h, met), AllocateObject \/ KnownObject \/ NoClass
  PROVE  Walk(h, met)'
<1>1. status = "read" /\ readers # <<>> /\ r.cls = 0
  BY DEF AllocateObject, KnownObject, NoClass, Entering
<1>2. /\ DOMAIN r = Fields /\ r.dclr_pos = 1 /\ r.base \in Nat /\ r.base > 1
      /\ r.instance \in {0} \cup (DOMAIN heap \ DOMAIN h.heap)
  BY <1>1, AtWork DEF IsReader
<1>6. r.offset \in Nat /\ r.offset > 0 /\ Len(buffer) \in Nat /\ DOMAIN buffer = 1..Len(buffer)
  BY <1>1, AtWork
<1>3. CASE AllocateObject
  <2> DEFINE cls == Read(r.offset)
             block == [cls |-> cls, mem |-> [n \in 1..Words(Classes[cls]) |-> 0]]
             g == Append(heap, block)
             d == [Cached(Skipped(2), -mem_id, New) EXCEPT !.cls = cls, !.instance = New]
  <2>1. /\ heap' = g /\ readers' = Replaced(d) /\ cls \in DOMAIN Classes
        /\ UNCHANGED <<control, writer, pos, results>> /\ Ahead(r.offset, <<"int", "int">>)
    BY <1>3 DEF AllocateObject, IsClass
  <2>2. IsBlock(block)
    BY <2>1 DEF IsBlock
  <2>3. r.offset + 2 \in 1..Len(buffer) + 1
    BY <1>6, <2>1, AheadAre
  <2>4. /\ DOMAIN d = Fields /\ d.cls = cls /\ d.instance = New /\ d.offset = r.offset + 2 /\ d.dclr_pos = 1
        /\ d.base = r.base /\ d.instance_pos = r.instance_pos
    BY <1>2 DEF Cached, Skipped, Fields
  <2> HIDE DEF cls, block, g, d
  <2>5. /\ Keeps(h, g) /\ DOMAIN heap \subseteq DOMAIN g /\ Len(heap) + 1 \in DOMAIN g \ DOMAIN h.heap
    BY <1>1, <2>2, AtWork, NewKeeps DEF g
  <2>6. IsReader(DOMAIN g \ DOMAIN h.heap, Len(buffer), d)
    <3>1. cls # 0 /\ Len(Classes[cls]) \in Nat
      BY <2>1, SerializerAssumption
    <3>2. New \in DOMAIN g \ DOMAIN h.heap /\ New # 0
      BY <1>1, <2>5, AtWork DEF New
    <3> QED BY <1>2, <2>1, <2>3, <2>4, <3>1, <3>2 DEF IsReader
  <2> QED BY <1>1, <2>1, <2>5, <2>6, ReplacedWalks
<1>4. CASE KnownObject
  <2>1. /\ Ahead(r.offset, <<"int", "int">>) /\ Return(Found(mem_id), Skipped(2))
        /\ UNCHANGED <<roots, status, writer>>
    BY <1>4 DEF KnownObject
  <2>2. r.offset + 2 <= Len(buffer) + 1
    BY <1>6, <2>1, AheadAre
  <2>3. IsReader(DOMAIN heap \ DOMAIN h.heap, Len(buffer), Skipped(2))
    BY <1>1, <1>2, <2>2, AtWork, ReaderAfter DEF Skipped, Fields
  <2> QED BY <1>1, <2>1, <2>3, ReturnWalks
<1>5. CASE NoClass
  <2>1. Ahead(r.offset, <<"int">>) /\ Return(0, Skipped(1)) /\ UNCHANGED <<roots, status, writer>>
    BY <1>5 DEF NoClass
  <2>2. r.offset + 1 <= Len(buffer) + 1
    BY <1>6, <2>1, AheadAre
  <2>3. IsReader(DOMAIN heap \ DOMAIN h.heap, Len(buffer), Skipped(1))
    BY <1>1, <1>2, <2>2, AtWork, ReaderAfter DEF Skipped, Fields
  <2> QED BY <1>1, <2>1, <2>3, ReturnWalks
<1> QED BY <1>3, <1>4, <1>5

\* One variable further.
LEMMA GoesThrough ==
  ASSUME NEW h \in Heaps, NEW met, Walk(h, met), DeserializeValue \/ Nil \/ DeserializeInner \/ PassOver
  PROVE  Walk(h, met)'
<1> DEFINE new == DOMAIN heap \ DOMAIN h.heap
<1>1. status = "read" /\ readers # <<>> /\ r.cls # 0 /\ InLoop
  BY DEF DeserializeValue, Nil, DeserializeInner, PassOver, Refers, Reads, InLoop
<1>2. /\ DOMAIN r = Fields /\ r.dclr_pos \in Nat
      /\ IsReader(new, Len(buffer), r) /\ r.base \in Nat /\ r.base > 1
  BY <1>1, AtWork DEF IsReader
<1>3. r.offset \in Nat /\ r.offset > 0 /\ Len(buffer) \in Nat /\ DOMAIN buffer = 1..Len(buffer) /\ Keeps(h, heap)
  BY <1>1, AtWork
<1>6. ASSUME NEW words, NEW d, readers' = Replaced(d), heap' = Put(r, words),
             UNCHANGED <<control, writer, pos, results>>, IsReader(new, Len(buffer), d)
      PROVE  Walk(h, met)'
  <2> DEFINE g == Put(r, words)
  <2>1. Keeps(h, g) /\ DOMAIN g = DOMAIN heap
    BY <1>2, PutWalks
  <2>2. heap' = g
    BY <1>6
  <2> HIDE DEF g
  <2> QED BY <1>1, <1>6, <2>1, <2>2, ReplacedWalks
<1>4. CASE DeserializeValue
  <2> DEFINE words == IF Ahead1("int") THEN <<Read(r.offset)>> ELSE Read(r.offset)
             d == [Moved(next, Len(words)) EXCEPT !.offset = @ + 1]
  <2>1. /\ heap' = Put(r, words) /\ readers' = Replaced(d) /\ UNCHANGED <<control, writer, pos, results>>
        /\ Ahead(r.offset, <<"int">>) \/ Ahead(r.offset, <<"float">>)
    BY <1>4 DEF DeserializeValue, Ahead1
  <2>2. r.offset + 1 <= Len(buffer) + 1
    BY <1>3, <2>1, AheadAre
  <2>3. /\ DOMAIN d = Fields /\ d.offset = r.offset + 1 /\ d.base = r.base /\ d.cls = r.cls
        /\ d.instance = r.instance /\ d.dclr_pos = r.dclr_pos + 1
    BY <1>2 DEF Moved, next, Fields
  <2> HIDE DEF words, d
  <2>4. IsReader(new, Len(buffer), d)
    BY <1>1, <2>2, <2>3, ReaderAfter
  <2> QED BY <1>6, <2>1, <2>4
<1>5. CASE Nil
  <2> DEFINE d == [Moved(next, 1) EXCEPT !.offset = @ + 1]
  <2>1. /\ heap' = Put(r, <<0>>) /\ readers' = Replaced(d) /\ UNCHANGED <<control, writer, pos, results>>
        /\ Ahead(r.offset, <<"byte">>)
    BY <1>5 DEF Nil, Ahead1
  <2>2. r.offset + 1 <= Len(buffer) + 1
    BY <1>3, <2>1, AheadAre
  <2>3. /\ DOMAIN d = Fields /\ d.offset = r.offset + 1 /\ d.base = r.base /\ d.cls = r.cls
        /\ d.instance = r.instance /\ d.dclr_pos = r.dclr_pos + 1
    BY <1>2 DEF Moved, next, Fields
  <2> HIDE DEF d
  <2>4. IsReader(new, Len(buffer), d)
    BY <1>1, <2>2, <2>3, ReaderAfter
  <2> QED BY <1>6, <2>1, <2>4
<1>7. CASE PassOver
  <2>1. readers' = Replaced(next) /\ heap' = heap /\ UNCHANGED <<control, writer, pos, results>>
    BY <1>7 DEF PassOver
  <2>2. /\ DOMAIN next = Fields /\ next.offset = r.offset + 0 /\ next.base = r.base /\ next.cls = r.cls
        /\ next.instance = r.instance /\ next.dclr_pos = r.dclr_pos + 1
    BY <1>2, <1>3 DEF next, Fields
  <2>3. r.offset + 0 <= Len(buffer) + 1
    <3>1. r.offset <= Len(buffer) + 1
      BY <1>1, AtWork
    <3> QED BY <1>3, <3>1
  <2>4. IsReader(new, Len(buffer), next)
    BY <1>1, <2>2, <2>3, ReaderAfter
  <2> QED BY <1>1, <1>3, <2>1, <2>4, ReplacedWalks
<1>8. CASE DeserializeInner
  <2> DEFINE d == [next EXCEPT !.offset = @ + 1]
             e == Reader(r.base, r.offset + 1, r.mem_cache)
             rs == Replaced(d)
             qs == Append(rs, e)
             m  == Len(readers)
  <2>1. readers' = qs /\ UNCHANGED <<heap, control, writer, pos, results>> /\ Ahead(r.offset, <<"byte">>)
    BY <1>8 DEF DeserializeInner, Refers, Ahead1
  <2>2. r.offset + 1 <= Len(buffer) + 1
    BY <1>3, <2>1, AheadAre
  <2>3. /\ DOMAIN d = Fields /\ d.offset = r.offset + 1 /\ d.base = r.base /\ d.cls = r.cls
        /\ d.instance = r.instance /\ d.dclr_pos = r.dclr_pos + 1
    BY <1>2 DEF next, Fields
  <2>4. IsReader(new, Len(buffer), e)
    BY <1>2, <1>3, <2>2 DEF IsReader, Reader, Fields
  <2>5. m \in Nat /\ m > 0 /\ DOMAIN readers = 1..m
    BY <1>1, Innermost
  <2>6. IsSeq(rs) /\ Len(rs) = m /\ rs[m] = d /\ \A n \in 1..(m - 1) : rs[n] = readers[n]
    BY <1>1, Innermost
  <2> HIDE DEF d, e, rs, m
  <2>7. IsReader(new, Len(buffer), d)
    BY <1>1, <2>2, <2>3, ReaderAfter
  <2>8. IsSeq(qs) /\ Len(qs) = m + 1 /\ qs[m + 1] = e
    BY <2>6, Longer, ZenonT(60)
  <2>9. \A n \in 1..m : qs[n] = rs[n]
    BY <2>6, Longer
  <2> HIDE DEF qs
  <2>10. DOMAIN qs = 1..(m + 1)
    BY <2>8, SeqHas
  <2>11. qs # <<>>
    <3> SUFFICES ASSUME qs = <<>> PROVE FALSE
      OBVIOUS
    <3>1. Len(qs) = 0
      BY ShortList
    <3> QED BY <2>5, <2>8, <3>1
  <2>12. ASSUME NEW n \in DOMAIN qs PROVE IsReader(new, Len(buffer), qs[n])
    <3>1. CASE n = m + 1
      BY <2>4, <2>8, <3>1
    <3>2. CASE n = m
      BY <2>5, <2>6, <2>7, <2>9, <3>2
    <3>3. CASE n \in 1..(m - 1)
      <4>1. qs[n] = readers[n] /\ n \in DOMAIN readers
        BY <2>5, <2>6, <2>9, <3>3
      <4> QED BY <4>1 DEF Walk, Basic
    <3> QED BY <2>5, <2>10, <3>1, <3>2, <3>3
  <2> QED BY <1>1, <1>3, <2>1, <2>8, <2>11, <2>12, ReadWalks
<1> QED BY <1>4, <1>5, <1>7, <1>8

\* An array, or the end of an object.
LEMMA GoesOn ==
  ASSUME NEW h \in Heaps, NEW met, Walk(h, met), AllocateArray \/ KnownArray \/ EndObject
  PROVE  Walk(h, met)'
<1> DEFINE new == DOMAIN heap \ DOMAIN h.heap
<1>1. status = "read" /\ readers # <<>> /\ r.cls # 0
  BY DEF AllocateArray, KnownArray, EndObject, Refers, Reads, InLoop
<1>2. /\ DOMAIN r = Fields /\ r.dclr_pos \in Nat
      /\ IsReader(new, Len(buffer), r) /\ r.base \in Nat /\ r.base > 1
  BY <1>1, AtWork DEF IsReader
<1>3. r.offset \in Nat /\ r.offset > 0 /\ Len(buffer) \in Nat /\ DOMAIN buffer = 1..Len(buffer) /\ Keeps(h, heap)
  BY <1>1, AtWork
<1>4. CASE EndObject
  BY <1>1, <1>2, <1>4, ReturnWalks DEF EndObject
<1>5. CASE KnownArray
  <2>1. Ahead(r.offset, <<"byte", "int">>) /\ InLoop /\ UNCHANGED <<roots, status, writer>>
    BY <1>5 DEF KnownArray, Refers, Reads
  <2>2. r.offset + 2 <= Len(buffer) + 1
    BY <1>3, <2>1, AheadAre
  <2>3. CASE mem_id \in DOMAIN r.mem_cache
    <3> DEFINE d == [Moved(next, 1) EXCEPT !.offset = @ + 2]
               g == Put(r, <<Found(mem_id)>>)
    <3>1. heap' = g /\ readers' = Replaced(d) /\ UNCHANGED <<turn, pos, results>>
      BY <1>5, <2>3 DEF KnownArray
    <3>2. /\ DOMAIN d = Fields /\ d.offset = r.offset + 2 /\ d.base = r.base /\ d.cls = r.cls
          /\ d.instance = r.instance /\ d.dclr_pos = r.dclr_pos + 1
      BY <1>2 DEF Moved, next, Fields
    <3>3. Keeps(h, g) /\ DOMAIN g = DOMAIN heap
      BY <1>2, PutWalks
    <3> HIDE DEF d, g
    <3>4. IsReader(new, Len(buffer), d)
      BY <1>1, <2>1, <2>2, <3>2, ReaderAfter
    <3> QED BY <1>1, <2>1, <3>1, <3>3, <3>4, ReplacedWalks DEF control
  <2>4. CASE mem_id \notin DOMAIN r.mem_cache
    <3>1. Return(0, Skipped(2))
      BY <1>5, <2>4 DEF KnownArray
    <3>2. IsReader(new, Len(buffer), Skipped(2))
      BY <1>1, <1>2, <2>2, ReaderAfter DEF Skipped, Fields
    <3> QED BY <1>1, <2>1, <3>1, <3>2, ReturnWalks
  <2> QED BY <2>3, <2>4
<1>6. CASE AllocateArray
  <2> DEFINE p == Put(r, <<New>>)
             block == Array(Read(r.offset + 2))
             g == Append(p, block)
             d == Cached([Moved(next, 1) EXCEPT !.offset = @ + 3], -mem_id, New)
  <2>1. /\ Ahead(r.offset, <<"byte", "int", "array">>) /\ InLoop
        /\ heap' = g /\ readers' = Replaced(d) /\ UNCHANGED <<control, writer, pos, results>>
    BY <1>6 DEF AllocateArray, Refers, Reads
  <2>2. r.offset + 3 <= Len(buffer) + 1
    BY <1>3, <2>1, AheadAre
  <2>3. /\ DOMAIN d = Fields /\ d.offset = r.offset + 3 /\ d.base = r.base /\ d.cls = r.cls
        /\ d.instance = r.instance /\ d.dclr_pos = r.dclr_pos + 1
    BY <1>2 DEF Moved, next, Cached, Fields
  <2>4. Keeps(h, p) /\ DOMAIN p = DOMAIN heap
    BY <1>2, PutWalks
  <2>5. IsBlock(block)
    BY DEF IsBlock, Array
  <2> HIDE DEF p, block, d
  <2>6. Keeps(h, g) /\ DOMAIN p \subseteq DOMAIN g
    BY <2>4, <2>5, NewKeeps
  <2> HIDE DEF g
  <2>7. IsReader(DOMAIN g \ DOMAIN h.heap, Len(buffer), d)
    BY <1>1, <2>1, <2>2, <2>3, <2>4, <2>6, ReaderAfter
  <2> QED BY <1>1, <2>1, <2>4, <2>6, <2>7, ReplacedWalks
<1> QED BY <1>4, <1>5, <1>6

\* Whatever is written and read, the state stays in step with a program.
LEMMA WalkStep ==
  ASSUME NEW h \in Heaps, NEW met, Walk(h, met), [Next]_vars
  PROVE  Walk(h, met)'
<1>1. CASE Write
  BY <1>1, Serializes, Finishes DEF Write
<1>2. CASE ReadNext
  BY <1>2, BeginsAndEnds, Enters, GoesThrough, GoesOn DEF ReadNext
<1>3. CASE Garble \/ Stay
  BY <1>3, BeginsAndEnds
<1>4. CASE UNCHANGED vars
  <2>1. Basic(h)' /\ Stage(h)'
    BY <1>4 DEF vars, control, writer, reader, Walk, Basic, Stage
  <2> QED BY <1>4, <2>1 DEF vars, control, writer, Walk, Fitting
<1> QED BY <1>1, <1>2, <1>3, <1>4 DEF Next

Walking == \E h \in Heaps : \E met : Walk(h, met)

\* The first graph is to be written, nothing is read.
LEMMA WalkStarts ==
  ASSUME Init, NEW h \in Heaps, heap = h.heap, roots = h.roots, NEW met, Closed(h, met)
  PROVE  Walk(h, met)
<1>3. /\ status = "write" /\ turn = 1 /\ buffer = <<>> /\ todo = Wanted(h.roots[1]) /\ serial_ids = << >>
      /\ next_id = 0 /\ pos = 1 /\ readers = <<>> /\ results = <<>>
  BY DEF Init
<1>4. /\ IsSeq(buffer) /\ Len(buffer) = 0 /\ IsSeq(readers) /\ IsSeq(results) /\ DOMAIN readers = {}
      /\ DOMAIN serial_ids = {}
  BY <1>3, ShortList, SeqHas
<1>5. IsSeq(todo) /\ DOMAIN todo = {1} /\ Fits(h, met, todo[1])
  BY <1>3, Program, WantedFits
<1>6. Basic(h)
  BY <1>3, <1>4, <1>5, Program DEF Basic
<1>7. Len(roots) \in Nat /\ Len(roots) > 0
  BY Program
<1>8. Stage(h)
  BY <1>3, <1>7 DEF Stage
<1> QED BY <1>5, <1>6, <1>8 DEF Walk, Fitting

\* Every program begins in step with itself.
LEMMA Starts == Init => Walking
<1> SUFFICES ASSUME Init PROVE Walking
  OBVIOUS
<1>1. PICK h \in Heaps : heap = h.heap /\ roots = h.roots
  BY DEF Init
<1>2. PICK met : Closed(h, met)
  BY Program
<1>3. Walk(h, met)
  BY <1>1, <1>2, WalkStarts
<1> QED BY <1>3 DEF Walking

\* What is in step with a program has its types.
LEMMA WalkTypes == Walking => TypeOK
<1> SUFFICES ASSUME NEW h \in Heaps, NEW met, Walk(h, met) PROVE TypeOK
  BY DEF Walking
<1>1. Len(roots) \in Nat /\ Len(roots) > 0 /\ roots = h.roots
  BY Program DEF Walk, Basic
<1>2. status \in {"write", "read", "done", "garbled"} /\ turn \in 1 .. Len(roots) + 1
  BY <1>1 DEF Walk, Stage
<1>3. \A n \in DOMAIN heap : heap[n].cls \in {0} \cup DOMAIN Classes
  BY DEF Walk, Basic, Keeps, IsBlock
<1>4. next_id \in Nat /\ DOMAIN serial_ids \subseteq DOMAIN heap
  BY DEF Walk, Basic, Keeps
<1>5. ASSUME NEW n \in DOMAIN readers
      PROVE  /\ readers[n].cls \in {0} \cup DOMAIN Classes
             /\ readers[n].offset \in 1 .. Len(buffer) + 1
             /\ readers[n].instance \in {0} \cup DOMAIN heap
  <2>1. IsReader(DOMAIN heap \ DOMAIN h.heap, Len(buffer), readers[n])
    BY DEF Walk, Basic
  <2> QED BY <2>1 DEF IsReader
<1>6. Len(results) <= Len(roots)
  BY <1>1, <1>2, ShortList DEF Walk, Stage
<1> QED BY <1>2, <1>3, <1>4, <1>5, <1>6 DEF TypeOK

(* For every program: numbers, positions and instances of the writer and of *)
(* all its nested readers stay within the buffer, the classes and the heap, *)
(* and a reader at work has an instance that was not there before.          *)
THEOREM SerializerTyped == Spec => []TypeOK
<1>1. Init => Walking
  BY Starts
<1>2. Walking /\ [Next]_vars => Walking'
  BY WalkStep DEF Walking
<1>3. Walking => TypeOK
  BY WalkTypes
<1> QED BY <1>1, <1>2, <1>3, PTL DEF Spec

-----------------------------------------------------------------------------
(* What the serializer writes, step by step *)

Config(t, items, ids, n, at) == [turn |-> t, todo |-> items, ids |-> ids, next |-> n, at |-> at]
Current  == Config(turn, todo, serial_ids, next_id, Len(buffer) + 1)
First(h) == Config(1, Wanted(h.roots[1]), << >>, 0, 1)
Final(h, w) == w.todo = <<>> /\ w.turn = Len(h.roots)

\* the next value, what it appends, and what is left to be written after it
About(w)      == Head(w.todo).words[1]
Numbering(w, a) == IF a \in DOMAIN w.ids THEN w.ids[a] ELSE -(w.next + 1)
Tokens(h, w) ==
  LET type == Head(w.todo).type  a == About(w) IN
  IF w.todo = <<>> \/ type = "OBJ_ARY_PARM" THEN <<>>
  ELSE IF type = "INT_PARM" THEN <<IntBytes(Narrow(a))>>
  ELSE IF type = "FLOAT_PARM" THEN <<Token("float", Head(w.todo).words)>>
  ELSE IF a = 0 THEN <<OneByte(0)>>
  ELSE IF type = "OBJ_PARM" THEN <<OneByte(1), IntBytes(h.heap[a].cls), IntBytes(Numbering(w, a))>>
  ELSE IF a \in DOMAIN w.ids THEN <<OneByte(1), IntBytes(Numbering(w, a))>>
  ELSE <<OneByte(1), IntBytes(Numbering(w, a)), Token("array", Contents(type, h.heap[a].mem))>>
Fresh(w) == Head(w.todo).type \in Arrays \cup {"OBJ_PARM"} /\ About(w) # 0 /\ About(w) \notin DOMAIN w.ids
More(h, w) == IF Fresh(w) /\ Head(w.todo).type = "OBJ_PARM" THEN Items(h.heap[About(w)]) ELSE <<>>
Ids(w) == IF Fresh(w) THEN [b \in DOMAIN w.ids \cup {About(w)} |-> IF b = About(w) THEN w.next + 1 ELSE w.ids[b]]
          ELSE w.ids
After(h, w) ==
  IF w.todo = <<>> THEN Config(w.turn + 1, Wanted(h.roots[w.turn + 1]), << >>, 0, w.at)
  ELSE Config(w.turn, More(h, w) \o Tail(w.todo), Ids(w), IF Fresh(w) THEN w.next + 1 ELSE w.next,
              w.at + Len(Tokens(h, w)))

\* graphs without an array of objects, met is what they consist of
Good(h, met) ==
  /\ Closed(h, met)
  /\ \A b \in met : /\ h.heap[b].cls # 0
                    /\ \A n \in DOMAIN Classes[h.heap[b].cls] : Classes[h.heap[b].cls][n] # "OBJ_ARY_PARM"

IsConfig(h, met, w) ==
  /\ w.turn \in DOMAIN h.roots /\ IsSeq(w.todo) /\ \A n \in DOMAIN w.todo : Fits(h, met, w.todo[n])
  /\ w.next \in Nat /\ DOMAIN w.ids \subseteq DOMAIN h.heap /\ \A a \in DOMAIN w.ids : w.ids[a] \in 1..w.next
  /\ w.at \in Nat \ {0}
IsAt(list, at) == \A k \in DOMAIN list : at + k - 1 \in DOMAIN buffer /\ buffer[at + k - 1] = list[k]

\* steps holds what was left to be written at every step up to the last one
Script(h, met, steps, last) ==
  /\ First(h) \in steps /\ last \in steps
  /\ \A w \in steps : IsConfig(h, met, w)
  /\ \A w \in steps \ {last} : ~Final(h, w) /\ IsAt(Tokens(h, w), w.at) /\ After(h, w) \in steps

\* Tokens that were written stay.
LEMMA TokensStay ==
  ASSUME NEW list, NEW at \in Nat, IsSeq(list), IsAt(list, at), IsSeq(buffer), NEW more, IsSeq(more),
         buffer' = buffer \o more
  PROVE  IsAt(list, at)'
<1>1. DOMAIN buffer = 1..Len(buffer) /\ Len(buffer) \in Nat /\ Len(more) \in Nat /\ DOMAIN list = 1..Len(list)
      /\ Len(list) \in Nat
  BY SeqHas
<1>2. /\ IsSeq(buffer') /\ Len(buffer') = Len(buffer) + Len(more)
      /\ \A n \in 1..Len(buffer) : buffer'[n] = buffer[n]
  <2> DEFINE p == buffer'
  <2>1. p = buffer \o more
    OBVIOUS
  <2> HIDE DEF p
  <2>2. IsSeq(p) /\ Len(p) = Len(buffer) + Len(more)
    BY <2>1, Joined
  <2>3. \A n \in 1..Len(buffer) : p[n] = buffer[n]
    BY <2>1, Joined
  <2> QED BY <2>2, <2>3 DEF p
<1>3. DOMAIN buffer' = 1..Len(buffer')
  BY <1>2, SeqHas
<1>4. ASSUME NEW k \in DOMAIN list PROVE at + k - 1 \in DOMAIN buffer' /\ buffer'[at + k - 1] = list[k]
  <2>1. at + k - 1 \in DOMAIN buffer /\ buffer[at + k - 1] = list[k]
    BY DEF IsAt
  <2> DEFINE j == at + k - 1
  <2> HIDE DEF j
  <2>2. j \in 1..Len(buffer) /\ buffer[j] = list[k]
    BY <1>1, <2>1 DEF j
  <2>3. j \in DOMAIN buffer' /\ buffer'[j] = list[k]
    BY <1>1, <1>2, <1>3, <2>2
  <2> QED BY <2>3 DEF j
<1> QED BY <1>4 DEF IsAt

\* Tokens that are appended are there.
LEMMA TokensThere ==
  ASSUME NEW list, IsSeq(list), IsSeq(buffer), buffer' = buffer \o list, NEW at, at = Len(buffer) + 1
  PROVE  IsAt(list, at)' /\ Len(buffer') = Len(buffer) + Len(list)
<1>1. Len(buffer) \in Nat /\ DOMAIN list = 1..Len(list) /\ Len(list) \in Nat
  BY SeqHas
<1>2. /\ IsSeq(buffer') /\ Len(buffer') = Len(buffer) + Len(list)
      /\ \A n \in 1..Len(list) : buffer'[Len(buffer) + n] = list[n]
  <2> DEFINE p == buffer'
  <2>1. p = buffer \o list
    OBVIOUS
  <2> HIDE DEF p
  <2>2. IsSeq(p) /\ Len(p) = Len(buffer) + Len(list)
    BY <2>1, Joined
  <2>3. \A n \in 1..Len(list) : p[Len(buffer) + n] = list[n]
    BY <2>1, Joined
  <2> QED BY <2>2, <2>3 DEF p
<1>3. DOMAIN buffer' = 1..Len(buffer')
  BY <1>2, SeqHas
<1>4. ASSUME NEW k \in DOMAIN list PROVE at + k - 1 \in DOMAIN buffer' /\ buffer'[at + k - 1] = list[k]
  <2>1. at + k - 1 = Len(buffer) + k /\ k \in 1..Len(list)
    BY <1>1
  <2>2. Len(buffer) + k \in DOMAIN buffer'
    BY <1>1, <1>2, <1>3, <2>1
  <2> QED BY <1>2, <2>1, <2>2
<1> QED BY <1>2, <1>4 DEF IsAt

\* Two sequences with the same elements.
LEMMA SameSeq ==
  ASSUME NEW s, NEW t, IsSeq(s), IsSeq(t), Len(s) = Len(t), \A n \in 1..Len(s) : s[n] = t[n]
  PROVE  s = t
BY DEF IsSeq

\* Nothing in front, nothing behind.
LEMMA NothingMore ==
  ASSUME NEW s, IsSeq(s)
  PROVE  <<>> \o s = s /\ s \o <<>> = s
BY DEF IsSeq

\* What two sequences in a row are.
LEMMA JoinedIs ==
  ASSUME NEW s, NEW t, NEW q, IsSeq(s), IsSeq(t), IsSeq(q), Len(q) = Len(s) + Len(t),
         \A n \in 1..Len(s) : q[n] = s[n], \A n \in 1..Len(t) : q[Len(s) + n] = t[n]
  PROVE  s \o t = q
<1>1. PICK p : p = s \o t
  OBVIOUS
<1>2. IsSeq(p) /\ Len(p) = Len(s) + Len(t)
  BY <1>1, Joined
<1>3. \A n \in 1..Len(s) : p[n] = s[n]
  BY <1>1, Joined
<1>4. \A n \in 1..Len(t) : p[Len(s) + n] = t[n]
  BY <1>1, Joined
<1>5. ASSUME NEW n \in 1..Len(p) PROVE p[n] = q[n]
  <2>1. Len(s) \in Nat /\ Len(t) \in Nat /\ n \in 1..(Len(s) + Len(t))
    BY <1>2, SeqHas
  <2>2. CASE n <= Len(s)
    BY <1>3, <2>1, <2>2
  <2>3. CASE n > Len(s)
    <3>1. PICK k \in 1..Len(t) : n = Len(s) + k
      <4>1. n - Len(s) \in 1..Len(t) /\ n = Len(s) + (n - Len(s))
        BY <2>1, <2>3
      <4> QED BY <4>1
    <3> QED BY <1>4, <3>1
  <2> QED BY <2>1, <2>2, <2>3
<1> QED BY <1>1, <1>2, <1>5, SameSeq

\* Tuples in a row.
LEMMA Three ==
  ASSUME NEW a, NEW b, NEW c
  PROVE  <<a>> \o <<b>> \o <<c>> = <<a, b, c>> /\ <<a, b>> \o <<c>> = <<a, b, c>>
<1>1. <<a, b>> \o <<c>> = <<a, b, c>>
  <2> DEFINE left == <<a, b>>
             right == <<c>>
             both == <<a, b, c>>
  <2>1. IsSeq(left) /\ IsSeq(right) /\ IsSeq(both) /\ Len(left) = 2 /\ Len(right) = 1 /\ Len(both) = 3
    BY ShortList
  <2>2. left[1] = a /\ left[2] = b /\ right[1] = c /\ both[1] = a /\ both[2] = b /\ both[3] = c
    OBVIOUS
  <2> HIDE DEF left, right, both
  <2>3. \A n \in 1..Len(left) : both[n] = left[n]
    BY <2>1, <2>2
  <2>4. \A n \in 1..Len(right) : both[Len(left) + n] = right[n]
    BY <2>1, <2>2
  <2>5. Len(both) = Len(left) + Len(right)
    BY <2>1
  <2>6. left \o right = both
    BY <2>1, <2>3, <2>4, <2>5, JoinedIs
  <2> QED BY <2>6 DEF left, right, both
<1>2. <<a>> \o <<b>> = <<a, b>>
  <2> DEFINE left == <<a>>
             right == <<b>>
             both == <<a, b>>
  <2>1. IsSeq(left) /\ IsSeq(right) /\ IsSeq(both) /\ Len(left) = 1 /\ Len(right) = 1 /\ Len(both) = 2
    BY ShortList
  <2>2. left[1] = a /\ right[1] = b /\ both[1] = a /\ both[2] = b
    OBVIOUS
  <2> HIDE DEF left, right, both
  <2>3. \A n \in 1..Len(left) : both[n] = left[n]
    BY <2>1, <2>2
  <2>4. \A n \in 1..Len(right) : both[Len(left) + n] = right[n]
    BY <2>1, <2>2
  <2>5. Len(both) = Len(left) + Len(right)
    BY <2>1
  <2>6. left \o right = both
    BY <2>1, <2>3, <2>4, <2>5, JoinedIs
  <2> QED BY <2>6 DEF left, right, both
<1> QED BY <1>1, <1>2

\* The configuration the writer is in.
LEMMA CurrentIs ==
  /\ Current.turn = turn /\ Current.todo = todo /\ Current.ids = serial_ids /\ Current.next = next_id
  /\ Current.at = Len(buffer) + 1
BY DEF Current, Config

\* What a step of the serializer does to it.
LEMMA Moves ==
  ASSUME NEW h \in Heaps, NEW met, Basic(h), todo # <<>>, turn' = turn,
         NEW w, w = Current, IsSeq(Tokens(h, w)), buffer' = buffer \o Tokens(h, w),
         todo' = More(h, w) \o Tail(todo), serial_ids' = Ids(w),
         next_id' = IF Fresh(w) THEN next_id + 1 ELSE next_id
  PROVE  Current' = After(h, w) /\ IsAt(Tokens(h, w), w.at)'
<1>1. IsSeq(buffer)
  BY DEF Basic
<1> DEFINE tokens == Tokens(h, w)
           at == w.at
<1>2. at = Len(buffer) + 1 /\ w.turn = turn /\ w.todo = todo /\ w.ids = serial_ids /\ w.next = next_id
  BY CurrentIs
<1>3. IsSeq(tokens) /\ buffer' = buffer \o tokens
  OBVIOUS
<1> HIDE DEF tokens, at
<1>4. IsAt(tokens, at)' /\ Len(buffer') = Len(buffer) + Len(tokens)
  BY <1>1, <1>2, <1>3, TokensThere
<1>5. Len(buffer) \in Nat /\ Len(tokens) \in Nat
  BY <1>1, <1>3, SeqHas
<1>6. Len(buffer') + 1 = at + Len(tokens)
  BY <1>2, <1>4, <1>5
<1>7. Current' = Config(turn', todo', serial_ids', next_id', at + Len(tokens))
  BY <1>6 DEF Current
<1>8. After(h, w) = Config(turn, More(h, w) \o Tail(todo), Ids(w), IF Fresh(w) THEN next_id + 1 ELSE next_id,
                           at + Len(tokens))
  BY <1>2 DEF After, tokens, at
<1> QED BY <1>4, <1>7, <1>8 DEF tokens, at

\* Every step is the one that was to be expected.
LEMMA StepWritten ==
  ASSUME NEW h \in Heaps, NEW met, Walk(h, met), Good(h, met), NEW w, w = Current,
         SerializeInt \/ SerializeFloat \/ SerializeArray \/ CheckObject \/ SkipDeclaration
  PROVE  /\ Current' = After(h, w) /\ IsSeq(Tokens(h, w)) /\ buffer' = buffer \o Tokens(h, w)
         /\ IsAt(Tokens(h, w), w.at)' /\ ~Final(h, w)
<1> DEFINE item == Head(todo)
           a == item.words[1]
<1>1. 1 \in DOMAIN todo /\ Head(todo) = todo[1] /\ status = "write" /\ todo # <<>> /\ IsSeq(Tail(todo))
  BY TailOf DEF Walk, Basic, SerializeInt, SerializeFloat, SerializeArray, CheckObject, SkipDeclaration, Due
<1>2. Fits(h, met, Head(todo))
  BY <1>1 DEF Walk, Fitting
<1>3. /\ w.turn = turn /\ w.todo = todo /\ w.ids = serial_ids /\ w.next = next_id
  BY CurrentIs
<1>4. /\ About(w) = a /\ word = a
      /\ \A b : Seen(b) <=> b \in DOMAIN w.ids
      /\ Number(a) = Numbering(w, a)
  BY <1>3 DEF About, word, Seen, Number, Numbering
<1>5. turn' = turn /\ h.heap = heap
  BY <1>1 DEF SerializeInt, SerializeFloat, SerializeArray, CheckObject, SkipDeclaration, control, Walk, Stage
<1>6. ~Final(h, w)
  BY <1>1, <1>3 DEF Final
<1>7. <<>> \o Tail(todo) = Tail(todo) /\ IsSeq(<<>>)
  BY <1>1, NothingMore, ShortList
<1>8. ASSUME IsSeq(Tokens(h, w)), buffer' = buffer \o Tokens(h, w), todo' = More(h, w) \o Tail(todo),
             serial_ids' = Ids(w), next_id' = IF Fresh(w) THEN next_id + 1 ELSE next_id
      PROVE  Current' = After(h, w) /\ IsAt(Tokens(h, w), w.at)'
  BY <1>1, <1>5, <1>8, Moves DEF Walk
<1> HIDE DEF item
<1>9. CASE Head(todo).type \in {"INT_PARM", "FLOAT_PARM", "OBJ_ARY_PARM"}
  <2>1. ~Fresh(w) /\ More(h, w) = <<>> /\ Ids(w) = serial_ids
    BY <1>3, <1>9 DEF Fresh, More, Ids, Arrays
  <2>2. Known /\ todo' = <<>> \o Tail(todo)
    BY <1>9 DEF SerializeInt, SerializeFloat, SerializeArray, CheckObject, SkipDeclaration, Due, Arrays, Writes
  <2>3. IsSeq(Tokens(h, w)) /\ buffer' = buffer \o Tokens(h, w)
    <3>1. CASE Head(todo).type = "INT_PARM"
      <4>1. Tokens(h, w) = <<IntBytes(Narrow(a))>>
        BY <1>1, <1>3, <1>4, <3>1 DEF Tokens
      <4>2. SerializeInt
        BY <3>1 DEF SerializeFloat, SerializeArray, CheckObject, SkipDeclaration, Due, Arrays
      <4> QED BY <1>4, <4>1, <4>2, ShortList DEF SerializeInt, Writes
    <3>2. CASE Head(todo).type = "FLOAT_PARM"
      <4>1. Tokens(h, w) = <<Token("float", Head(todo).words)>>
        BY <1>1, <1>3, <1>4, <3>2 DEF Tokens
      <4>2. SerializeFloat
        BY <3>2 DEF SerializeInt, SerializeArray, CheckObject, SkipDeclaration, Due, Arrays
      <4> QED BY <1>4, <4>1, <4>2, ShortList DEF SerializeFloat, Writes
    <3>3. CASE Head(todo).type = "OBJ_ARY_PARM"
      <4>1. Tokens(h, w) = <<>>
        BY <1>1, <1>3, <1>4, <3>3 DEF Tokens, Arrays
      <4>2. SkipDeclaration
        BY <3>3 DEF SerializeInt, SerializeArray, CheckObject, SerializeFloat, Due, Arrays
      <4> QED BY <1>4, <4>1, <4>2, ShortList DEF SkipDeclaration, Writes
    <3> QED BY <1>9, <3>1, <3>2, <3>3
  <2> QED BY <1>6, <1>8, <2>1, <2>2, <2>3 DEF Known
<1>10. CASE Head(todo).type \in Arrays
  <2>1. SerializeArray
    BY <1>10 DEF SerializeInt, SerializeFloat, CheckObject, SkipDeclaration, Due, Arrays
  <2>2. More(h, w) = <<>>
    BY <1>3, <1>10 DEF More, Arrays
  <2>3. Head(todo).type \notin {"INT_PARM", "FLOAT_PARM", "OBJ_ARY_PARM", "OBJ_PARM"}
    BY <1>10 DEF Arrays
  <2>4. CASE a = 0
    <3>1. Tokens(h, w) = <<OneByte(0)>> /\ ~Fresh(w) /\ Ids(w) = serial_ids
      BY <1>1, <1>3, <1>4, <1>10, <2>3, <2>4 DEF Tokens, Fresh, Ids
    <3>2. Writes(<<OneByte(0)>>, <<>>) /\ Known
      BY <1>4, <2>1, <2>4 DEF SerializeArray
    <3> QED BY <1>6, <1>8, <2>2, <3>1, <3>2, ShortList DEF Writes, Known
  <2>5. CASE a # 0
    <3> DEFINE contents == Token("array", Contents(Head(todo).type, heap[a].mem))
    <3>1. /\ Writes(<<OneByte(1), IntBytes(Number(a))>> \o (IF Seen(a) THEN <<>> ELSE <<contents>>), <<>>)
          /\ WasSerialized(a)
      BY <1>4, <2>1, <2>5 DEF SerializeArray
    <3> HIDE DEF contents
    <3>2. CASE Seen(a)
      <4>1. ~Fresh(w) /\ Ids(w) = serial_ids /\ serial_ids' = serial_ids /\ next_id' = next_id
        BY <1>3, <1>4, <3>1, <3>2 DEF Fresh, Ids, WasSerialized
      <4>2. Tokens(h, w) = <<OneByte(1), IntBytes(Number(a))>>
        BY <1>1, <1>3, <1>4, <1>10, <2>3, <2>5, <3>2 DEF Tokens
      <4>3. IsSeq(Tokens(h, w)) /\ buffer' = buffer \o Tokens(h, w) /\ todo' = <<>> \o Tail(todo)
        <5>1. <<OneByte(1), IntBytes(Number(a))>> \o <<>> = <<OneByte(1), IntBytes(Number(a))>>
          BY ShortList, NothingMore
        <5> QED BY <3>1, <3>2, <4>2, <5>1, ShortList DEF Writes
      <4> QED BY <1>6, <1>8, <2>2, <4>1, <4>3
    <3>3. CASE ~Seen(a)
      <4>1. Fresh(w) /\ serial_ids' = Ids(w) /\ next_id' = next_id + 1
        BY <1>3, <1>4, <1>10, <2>5, <3>1, <3>3 DEF Fresh, Ids, WasSerialized
      <4>2. Tokens(h, w) = <<OneByte(1), IntBytes(Number(a)), contents>>
        BY <1>1, <1>3, <1>4, <1>5, <2>3, <2>5, <3>3 DEF Tokens, contents
      <4>3. IsSeq(Tokens(h, w)) /\ buffer' = buffer \o Tokens(h, w) /\ todo' = <<>> \o Tail(todo)
        <5>1. <<OneByte(1), IntBytes(Number(a))>> \o <<contents>> = <<OneByte(1), IntBytes(Number(a)), contents>>
          BY Three
        <5> QED BY <3>1, <3>3, <4>2, <5>1, ShortList DEF Writes
      <4> QED BY <1>6, <1>8, <2>2, <4>1, <4>3
    <3> QED BY <3>2, <3>3
  <2> QED BY <2>4, <2>5
<1>11. CASE Head(todo).type = "OBJ_PARM"
  <2>1. CheckObject
    BY <1>11 DEF SerializeInt, SerializeFloat, SerializeArray, SkipDeclaration, Due, Arrays
  <2>3. Head(todo).type # "INT_PARM" /\ Head(todo).type # "FLOAT_PARM" /\ Head(todo).type \notin Arrays
    BY <1>11 DEF Arrays
  <2>4. CASE a = 0
    <3>1. Tokens(h, w) = <<OneByte(0)>> /\ ~Fresh(w) /\ Ids(w) = serial_ids /\ More(h, w) = <<>>
      BY <1>1, <1>3, <1>4, <1>11, <2>3, <2>4 DEF Tokens, Fresh, Ids, More
    <3>2. Writes(<<OneByte(0)>>, <<>>) /\ Known
      BY <1>4, <2>1, <2>4 DEF CheckObject
    <3> QED BY <1>6, <1>8, <3>1, <3>2, ShortList DEF Writes, Known
  <2>5. CASE a # 0
    <3>1. a \in met /\ heap[a].cls # 0
      BY <1>2, <1>5, <1>11, <2>5 DEF Fits, Good, item
    <3>2. /\ Writes(<<OneByte(1)>> \o <<IntBytes(heap[a].cls)>> \o <<IntBytes(Number(a))>>,
                    IF Seen(a) THEN <<>> ELSE Items(heap[a]))
          /\ WasSerialized(a)
      BY <1>4, <2>1, <2>5, <3>1 DEF CheckObject
    <3>3. Tokens(h, w) = <<OneByte(1), IntBytes(heap[a].cls), IntBytes(Number(a))>>
      BY <1>1, <1>3, <1>4, <1>5, <1>11, <2>3, <2>5 DEF Tokens
    <3>4. <<OneByte(1)>> \o <<IntBytes(heap[a].cls)>> \o <<IntBytes(Number(a))>>
            = <<OneByte(1), IntBytes(heap[a].cls), IntBytes(Number(a))>>
      BY Three
    <3>5. IsSeq(Tokens(h, w)) /\ buffer' = buffer \o Tokens(h, w)
      BY <3>2, <3>3, <3>4, ShortList DEF Writes
    <3>6. todo' = More(h, w) \o Tail(todo) /\ serial_ids' = Ids(w)
          /\ next_id' = IF Fresh(w) THEN next_id + 1 ELSE next_id
      <4>1. CASE Seen(a)
        BY <1>3, <1>4, <3>2, <4>1 DEF Fresh, Ids, WasSerialized, More, Writes
      <4>2. CASE ~Seen(a)
        BY <1>3, <1>4, <1>5, <1>11, <2>5, <3>2, <4>2 DEF Fresh, Ids, WasSerialized, More, Writes
      <4> QED BY <4>1, <4>2
    <3> QED BY <1>6, <1>8, <3>5, <3>6
  <2> QED BY <2>4, <2>5
<1>12. Head(todo).type \in {"INT_PARM", "FLOAT_PARM", "OBJ_ARY_PARM", "OBJ_PARM"} \cup Arrays
  BY DEF SerializeInt, SerializeFloat, SerializeArray, CheckObject, SkipDeclaration, Due
<1>13. /\ Current' = After(h, w) /\ IsAt(Tokens(h, w), w.at)'
  BY <1>9, <1>10, <1>11, <1>12
<1> QED BY <1>6, <1>9, <1>10, <1>11, <1>12

\* What is left of a list from its k-th element on, in front of something else.
FrontOf(list, k, rest) == SubSeq(list, k, Len(list)) \o rest

\* The first of it.
LEMMA ListPops ==
  ASSUME NEW list, IsSeq(list), NEW rest, IsSeq(rest), NEW k, k \in 1..Len(list)
  PROVE  LET all == FrontOf(list, k, rest)
         IN  /\ IsSeq(all) /\ all # <<>> /\ Head(all) = list[k]
             /\ Tail(all) = FrontOf(list, k + 1, rest)
<1> DEFINE all  == FrontOf(list, k, rest)
           size == Len(list)
           part == SubSeq(list, k, size)
           more == SubSeq(list, k + 1, size)
<1>1. size \in Nat /\ k \in 1..(size + 1) /\ k + 1 \in 1..(size + 1) /\ k \in Nat /\ k >= 1 /\ k <= size
      /\ Len(rest) \in Nat
  BY SeqHas
<1> HIDE DEF size
<1>0. ASSUME NEW b, b = size, NEW a \in 1..(b + 1), NEW p, p = SubSeq(list, a, b)
      PROVE  /\ IsSeq(p) /\ Len(p) = b - a + 1
             /\ \A n \in 1..(b - a + 1) : p[n] = list[a + n - 1]
  <2>1. b \in Nat /\ b <= Len(list)
    BY <1>0, <1>1 DEF size
  <2>2. IsSeq(SubSeq(list, a, b))
    BY <2>1, PartOf
  <2>3. Len(SubSeq(list, a, b)) = b - a + 1
    BY <2>1, PartOf
  <2>4. \A n \in 1..(b - a + 1) : SubSeq(list, a, b)[n] = list[a + n - 1]
    BY <2>1, PartOf
  <2> QED BY <1>0, <2>2, <2>3, <2>4
<1>2. /\ IsSeq(part) /\ Len(part) = size - k + 1
      /\ \A n \in 1..(size - k + 1) : part[n] = list[k + n - 1]
  BY <1>0, <1>1
<1>3. /\ IsSeq(more) /\ Len(more) = size - (k + 1) + 1
      /\ \A n \in 1..(size - (k + 1) + 1) : more[n] = list[k + 1 + n - 1]
  BY <1>0, <1>1
<1>4. all = part \o rest
  BY DEF size, FrontOf
<1> HIDE DEF part, more, all
<1>5. IsSeq(all) /\ Len(all) = Len(part) + Len(rest)
  BY <1>2, <1>4, Joined
<1>6. \A n \in 1..Len(part) : all[n] = part[n]
  BY <1>2, <1>4, Joined
<1>7. \A n \in 1..Len(rest) : all[Len(part) + n] = rest[n]
  BY <1>2, <1>4, Joined
<1>8. all # <<>>
  <2> SUFFICES ASSUME all = <<>> PROVE FALSE
    OBVIOUS
  <2>1. Len(all) = 0
    BY ShortList
  <2> QED BY <1>1, <1>2, <1>5, <2>1
<1>9. /\ IsSeq(Tail(all)) /\ Len(Tail(all)) = Len(all) - 1 /\ Head(all) = all[1]
      /\ \A n \in 1..(Len(all) - 1) : Tail(all)[n] = all[n + 1]
  BY <1>5, <1>8, TailOf
<1>10. Head(all) = list[k]
  <2>1. 1 \in 1..Len(part) /\ 1 \in 1..(size - k + 1) /\ k + 1 - 1 = k
    BY <1>1, <1>2
  <2>2. part[1] = list[k + 1 - 1]
    BY <1>2, <2>1
  <2> QED BY <1>6, <1>9, <2>1, <2>2
<1>11. Tail(all) = more \o rest
  <2> DEFINE t == Tail(all)
  <2> HIDE DEF t
  <2>1. IsSeq(t) /\ Len(t) = Len(more) + Len(rest)
    <3>1. Len(t) = (size - k + 1) + Len(rest) - 1 /\ Len(more) = size - (k + 1) + 1
      BY <1>2, <1>3, <1>5, <1>9 DEF t
    <3>2. (size - k + 1) + Len(rest) - 1 = (size - (k + 1) + 1) + Len(rest)
      BY <1>1
    <3> QED BY <1>9, <3>1, <3>2 DEF t
  <2>2. \A n \in 1..Len(more) : t[n] = more[n]
    <3> SUFFICES ASSUME NEW n \in 1..Len(more) PROVE t[n] = more[n]
      OBVIOUS
    <3>1. n \in 1..(Len(all) - 1) /\ n + 1 \in 1..Len(part) /\ n + 1 \in 1..(size - k + 1)
          /\ n \in 1..(size - (k + 1) + 1) /\ k + (n + 1) - 1 = k + 1 + n - 1
      BY <1>1, <1>2, <1>3, <1>5
    <3>2. t[n] = all[n + 1] /\ all[n + 1] = part[n + 1] /\ part[n + 1] = list[k + (n + 1) - 1]
      BY <1>2, <1>6, <1>9, <3>1 DEF t
    <3>3. more[n] = list[k + 1 + n - 1]
      BY <1>3, <3>1
    <3> QED BY <3>1, <3>2, <3>3
  <2>3. \A n \in 1..Len(rest) : t[Len(more) + n] = rest[n]
    <3> SUFFICES ASSUME NEW n \in 1..Len(rest) PROVE t[Len(more) + n] = rest[n]
      OBVIOUS
    <3>1. Len(more) + n \in 1..(Len(all) - 1) /\ Len(more) + n + 1 = Len(part) + n
      BY <1>1, <1>2, <1>3, <1>5
    <3>2. t[Len(more) + n] = all[Len(more) + n + 1]
      BY <1>9, <3>1 DEF t
    <3> QED BY <1>7, <3>1, <3>2
  <2>4. more \o rest = t
    BY <1>3, <2>1, <2>2, <2>3, JoinedIs
  <2> QED BY <2>4 DEF t
<1> QED BY <1>5, <1>8, <1>10, <1>11 DEF all, more, size, FrontOf

\* All of a list, and nothing of it.
LEMMA ListEnds ==
  ASSUME NEW list, IsSeq(list), NEW rest, IsSeq(rest)
  PROVE  FrontOf(list, 1, rest) = list \o rest /\ FrontOf(list, Len(list) + 1, rest) = rest
<1>1. Len(list) \in Nat
  BY SeqHas
<1>2. SubSeq(list, 1, Len(list)) = list
  <2> DEFINE all == SubSeq(list, 1, Len(list))
  <2>1. /\ IsSeq(all) /\ Len(all) = Len(list) - 1 + 1
        /\ \A n \in 1..(Len(list) - 1 + 1) : all[n] = list[1 + n - 1]
    BY <1>1, PartOf
  <2> HIDE DEF all
  <2>2. Len(all) = Len(list) /\ \A n \in 1..Len(all) : all[n] = list[n]
    BY <1>1, <2>1
  <2>3. all = list
    BY <2>1, <2>2, SameSeq
  <2> QED BY <2>3 DEF all
<1>3. SubSeq(list, Len(list) + 1, Len(list)) = <<>>
  <2> DEFINE none == SubSeq(list, Len(list) + 1, Len(list))
  <2>1. IsSeq(none) /\ Len(none) = Len(list) - (Len(list) + 1) + 1
    BY <1>1, PartOf
  <2> HIDE DEF none
  <2>2. Len(none) = 0
    BY <1>1, <2>1
  <2>3. none = <<>>
    BY <2>1, <2>2, SeqHas
  <2> QED BY <2>3 DEF none
<1> QED BY <1>2, <1>3, NothingMore DEF FrontOf

Writing(h, met) == \E steps, last : last = Current /\ Script(h, met, steps, last)
Complete(h, met, steps, last) == Script(h, met, steps, last) /\ Final(h, last) /\ last.at = Len(buffer) + 1

\* The tokens are a sequence whatever is written.
LEMMA TokensList ==
  ASSUME NEW h, NEW w
  PROVE  IsSeq(Tokens(h, w)) /\ (w.todo = <<>> => Tokens(h, w) = <<>>)
BY ShortList DEF Tokens

\* While graphs are written the configuration is one of a program.
LEMMA CurrentFits ==
  ASSUME NEW h \in Heaps, NEW met, Walk(h, met)', NumberInv', status' = "write", NEW w, w = Current'
  PROVE  IsConfig(h, met, w)
<1>1. /\ w.turn = turn' /\ w.todo = todo' /\ w.ids = serial_ids' /\ w.next = next_id'
      /\ w.at = Len(buffer') + 1
  BY DEF Current, Config
<1>2. Len(buffer') \in Nat
  <2>1. IsSeq(buffer')
    BY DEF Walk, Basic
  <2> QED BY <2>1, SeqHas
<1>3. turn' \in DOMAIN h.roots
  <2>1. DOMAIN h.roots = 1..Len(h.roots)
    BY Program, SeqHas
  <2> QED BY <2>1 DEF Walk, Stage, Basic
<1>4. IsSeq(todo') /\ \A n \in DOMAIN todo' : Fits(h, met, todo'[n])
  BY DEF Walk, Basic, Fitting
<1>5. next_id' \in Nat /\ DOMAIN serial_ids' \subseteq DOMAIN h.heap
  BY DEF Walk, Basic
<1>6. \A a \in DOMAIN serial_ids' : serial_ids'[a] \in 1..next_id'
  BY DEF NumberInv, NumberedOnce
<1> QED BY <1>1, <1>2, <1>3, <1>4, <1>5, <1>6 DEF IsConfig

\* One step more in the script.
LEMMA ScriptGrows ==
  ASSUME NEW h \in Heaps, NEW met, NEW steps, NEW w, w = Current, Script(h, met, steps, w),
         IsSeq(buffer), NEW more, IsSeq(more), buffer' = buffer \o more, ~Final(h, w),
         IsAt(Tokens(h, w), w.at)', NEW last, last = After(h, w), IsConfig(h, met, last)
  PROVE  Script(h, met, steps \cup {last}, last)'
<1> DEFINE all == steps \cup {last}
<1>1. First(h) \in all /\ last \in all /\ \A x \in all : IsConfig(h, met, x)
  BY DEF Script
<1>2. ASSUME NEW x \in all \ {last} PROVE ~Final(h, x) /\ IsAt(Tokens(h, x), x.at)' /\ After(h, x) \in all
  <2>1. CASE x = w
    BY <2>1
  <2>2. CASE x # w
    <3>1. ~Final(h, x) /\ IsAt(Tokens(h, x), x.at) /\ After(h, x) \in all
      BY <2>2 DEF Script
    <3>2. x.at \in Nat
      BY DEF Script, IsConfig
    <3>3. IsAt(Tokens(h, x), x.at)'
      <4> DEFINE list == Tokens(h, x)
                 at == x.at
      <4>1. IsSeq(list) /\ at \in Nat /\ IsAt(list, at)
        BY <3>1, <3>2, TokensList
      <4> HIDE DEF list, at
      <4>2. IsAt(list, at)'
        BY <4>1, TokensStay
      <4> QED BY <4>2 DEF list, at
    <3> QED BY <3>1, <3>3
  <2> QED BY <2>1, <2>2
<1> QED BY <1>1, <1>2 DEF Script

\* So while graphs are written.
LEMMA WritingGoesOn ==
  ASSUME NEW h \in Heaps, NEW met, Walk(h, met), Good(h, met), Writing(h, met), Walk(h, met)', NumberInv',
         SerializeInt \/ SerializeFloat \/ SerializeArray \/ CheckObject \/ SkipDeclaration
  PROVE  Writing(h, met)'
<1>1. PICK steps, w : w = Current /\ Script(h, met, steps, w)
  BY DEF Writing
<1>2. PICK last : last = Current'
  OBVIOUS
<1>3. status' = "write"
  BY DEF SerializeInt, SerializeFloat, SerializeArray, CheckObject, SkipDeclaration, control, Due
<1>4. last = After(h, w) /\ IsSeq(Tokens(h, w)) /\ buffer' = buffer \o Tokens(h, w)
      /\ IsAt(Tokens(h, w), w.at)' /\ ~Final(h, w)
  BY <1>1, <1>2, StepWritten
<1>5. IsConfig(h, met, last)
  BY <1>2, <1>3, CurrentFits
<1>6. IsSeq(buffer)
  BY DEF Walk, Basic
<1>7. Script(h, met, steps \cup {last}, last)'
  <2> DEFINE more == Tokens(h, w)
  <2>1. IsSeq(more) /\ buffer' = buffer \o more
    BY <1>4
  <2> HIDE DEF more
  <2> QED BY <1>1, <1>4, <1>5, <1>6, <2>1, ScriptGrows
<1> QED BY <1>2, <1>7 DEF Writing

\* A graph is written: the next one, or all of them.
LEMMA WritingEnds ==
  ASSUME NEW h \in Heaps, NEW met, Walk(h, met), Writing(h, met), Walk(h, met)', NumberInv', EndSerialize
  PROVE  /\ status' = "write" => Writing(h, met)'
         /\ status' # "write" => /\ \E steps, last : Complete(h, met, steps, last)'
                                 /\ status' = "read" /\ turn' = 1 /\ readers' = <<>> /\ pos' = 1
<1>1. PICK steps, w : w = Current /\ Script(h, met, steps, w)
  BY DEF Writing
<1>2. /\ todo = <<>> /\ buffer' = buffer /\ status = "write" /\ roots = h.roots
      /\ readers' = readers /\ pos' = pos /\ serial_ids' = << >> /\ next_id' = 0
  BY DEF EndSerialize, Walk, Basic, reader
<1>3. /\ w.turn = turn /\ w.todo = <<>> /\ w.at = Len(buffer) + 1
  BY <1>1, <1>2, CurrentIs
<1>4. readers = <<>> /\ pos = 1 /\ turn \in 1..Len(h.roots) /\ Len(h.roots) \in Nat
  BY <1>2, Program DEF Walk, Stage
<1>5. IsSeq(buffer) /\ buffer' = buffer \o <<>>
  BY <1>2, NothingMore DEF Walk, Basic
<1>6. CASE turn < Len(roots)
  <2>1. turn' = turn + 1 /\ todo' = Wanted(h.roots[turn + 1]) /\ status' = "write"
    BY <1>2, <1>6 DEF EndSerialize
  <2>2. PICK last : last = Current'
    OBVIOUS
  <2>3. last = After(h, w)
    <3>1. After(h, w) = Config(turn + 1, Wanted(h.roots[turn + 1]), << >>, 0, Len(buffer) + 1)
      BY <1>3 DEF After
    <3> QED BY <1>2, <2>1, <2>2, <3>1 DEF Current
  <2>4. IsConfig(h, met, last)
    BY <2>1, <2>2, CurrentFits
  <2>5. Tokens(h, w) = <<>>
    BY <1>3, TokensList
  <2>6. IsAt(Tokens(h, w), w.at)'
    BY <2>5 DEF IsAt
  <2>7. ~Final(h, w)
    BY <1>2, <1>3, <1>4, <1>6 DEF Final
  <2>8. Script(h, met, steps \cup {last}, last)'
    BY <1>1, <1>5, <2>3, <2>4, <2>6, <2>7, ShortList, ScriptGrows
  <2> QED BY <2>1, <2>2, <2>8 DEF Writing
<1>7. CASE ~(turn < Len(roots))
  <2>1. turn' = 1 /\ status' = "read"
    BY <1>7 DEF EndSerialize
  <2>2. Final(h, w)
    BY <1>2, <1>3, <1>4, <1>7 DEF Final
  <2>3. Script(h, met, steps, w)'
    BY <1>1, <1>2 DEF Script, IsAt
  <2>4. Complete(h, met, steps, w)'
    BY <1>2, <1>3, <2>2, <2>3 DEF Complete
  <2> QED BY <1>2, <1>4, <2>1, <2>4
<1> QED BY <1>6, <1>7

-----------------------------------------------------------------------------
(* What the deserializer reads of it *)

\* the variables of a block that its reader has not come to, and what follows the block
Left(h, d, level) ==
  LET items == Items(h.heap[level.of]) IN FrontOf(items, d.dclr_pos, level.left)

\* Each of the nested readers fills in a copy of a block; the innermost one is
\* where the writer was in configuration w, or has read the first byte of an object.
Follow(h, met, w, levels, rs) ==
  LET m == Len(rs)  d == rs[m] IN
  /\ levels[1].left = <<>> /\ \A n \in 1..m : IsSeq(levels[n].left)
  /\ \A n \in 1..(m - 1) : /\ levels[n].of \in met /\ rs[n].cls = h.heap[levels[n].of].cls
                           /\ levels[n + 1].left = Left(h, rs[n], levels[n])
  /\ DOMAIN d.mem_cache = 1..w.next
  /\ IF d.cls = 0
     THEN /\ d.offset = w.at + 1 /\ w.todo # <<>> /\ Head(w.todo).type = "OBJ_PARM" /\ About(w) # 0
          /\ levels[m].left = Tail(w.todo)
     ELSE /\ d.offset = w.at /\ levels[m].of \in met /\ d.cls = h.heap[levels[m].of].cls
          /\ w.todo = Left(h, d, levels[m])

\* The variables of a block that was met.
LEMMA MetBlock ==
  ASSUME NEW h \in Heaps, NEW met, Good(h, met), NEW b \in met
  PROVE  LET block == h.heap[b]  items == Items(h.heap[b])  types == Classes[h.heap[b].cls]
         IN  /\ b \in DOMAIN h.heap /\ block.cls \in DOMAIN Classes /\ block.cls # 0
             /\ IsSeq(items) /\ Len(items) = Len(types) /\ Len(types) \in Nat
             /\ \A n \in 1..Len(types) :
                  /\ items[n].type = types[n] /\ types[n] # "OBJ_ARY_PARM"
                  /\ types[n] \in {"INT_PARM", "FLOAT_PARM", "INT_ARY_PARM", "CHAR_ARY_PARM", "OBJ_PARM"}
<1> DEFINE block == h.heap[b]
           items == Items(block)
           types == Classes[block.cls]
<1>1. b \in DOMAIN h.heap /\ block.cls # 0
  BY DEF Good, Closed
<1>2. block.cls \in DOMAIN Classes
  BY <1>1, Program
<1>3. IsSeq(items) /\ Len(items) = Len(types)
  BY <1>1, ItemsList
<1>4. /\ types \in Seq({"INT_PARM", "FLOAT_PARM", "INT_ARY_PARM", "CHAR_ARY_PARM", "OBJ_PARM", "OBJ_ARY_PARM"})
  BY <1>2, SerializerAssumption
<1>5. \A n \in DOMAIN types : items[n].type = types[n]
  BY <1>1 DEF Items, Item
<1>6. \A n \in DOMAIN types : types[n] # "OBJ_ARY_PARM"
  BY DEF Good
<1> HIDE DEF items, types, block
<1>7. DOMAIN types = 1..Len(types) /\ Len(types) \in Nat
  BY <1>4
<1>8. \A n \in 1..Len(types) : types[n] \in {"INT_PARM", "FLOAT_PARM", "INT_ARY_PARM", "CHAR_ARY_PARM", "OBJ_PARM",
                                             "OBJ_ARY_PARM"}
  BY <1>4
<1>9. \A n \in 1..Len(types) : types[n] \in {"INT_PARM", "FLOAT_PARM", "INT_ARY_PARM", "CHAR_ARY_PARM", "OBJ_PARM"}
  BY <1>6, <1>7, <1>8
<1> QED BY <1>1, <1>2, <1>3, <1>5, <1>6, <1>7, <1>9 DEF items, types, block

\* A configuration from which something is still written has a next one.
LEMMA GoesToNext ==
  ASSUME NEW h \in Heaps, NEW met, NEW steps, NEW last, Complete(h, met, steps, last), NEW w \in steps
  PROVE  /\ IsConfig(h, met, w)
         /\ ~Final(h, w) => /\ IsAt(Tokens(h, w), w.at) /\ After(h, w) \in steps
                            /\ IsConfig(h, met, After(h, w))
         /\ Final(h, w) => w.at = Len(buffer) + 1
BY DEF Complete, Script

\* In the loop: the next variable is the one that is written next.
LEMMA ReadyFor ==
  ASSUME NEW h \in Heaps, NEW met, Walk(h, met), Good(h, met), status = "read", readers # <<>>, r.cls # 0,
         NEW steps, NEW last, Complete(h, met, steps, last), NEW w \in steps, NEW levels,
         Follow(h, met, w, levels, readers), r.dclr_pos <= Len(declared)
  PROVE  /\ InLoop /\ Head(w.todo).type = declared[r.dclr_pos]
         /\ Head(w.todo) = Items(h.heap[levels[Len(readers)].of])[r.dclr_pos]
         /\ declared[r.dclr_pos] \in {"INT_PARM", "FLOAT_PARM", "INT_ARY_PARM", "CHAR_ARY_PARM", "OBJ_PARM"}
         /\ w.todo # <<>> /\ w.at = r.offset /\ Fits(h, met, Head(w.todo))
         /\ IsAt(Tokens(h, w), w.at) /\ After(h, w) \in steps /\ IsConfig(h, met, After(h, w))
         /\ IsSeq(Tail(w.todo)) /\ Tail(w.todo) = Left(h, next, levels[Len(readers)])
<1> DEFINE m == Len(readers)
<1>1. m \in Nat /\ m > 0 /\ m \in 1..m /\ r = readers[m] /\ IsReader(DOMAIN heap \ DOMAIN h.heap, Len(buffer), r)
  BY Innermost
<1>2. /\ r.offset = w.at /\ levels[m].of \in met /\ r.cls = h.heap[levels[m].of].cls
      /\ w.todo = Left(h, r, levels[m])
  BY <1>1 DEF Follow
<1>3. IsSeq(levels[m].left)
  BY <1>1 DEF Follow
<1>4. PICK b \in met : b = levels[m].of
  BY <1>2
<1> DEFINE types == Classes[h.heap[b].cls]
<1>5. PICK items, rest, k : /\ items = Items(h.heap[b]) /\ rest = levels[m].left /\ k = r.dclr_pos
  OBVIOUS
<1>6. declared = types
  BY <1>2, <1>4 DEF declared
<1> HIDE DEF m
<1>7. /\ IsSeq(items) /\ Len(items) = Len(types) /\ Len(types) \in Nat
      /\ \A n \in 1..Len(types) :
           /\ items[n].type = types[n]
           /\ types[n] \in {"INT_PARM", "FLOAT_PARM", "INT_ARY_PARM", "CHAR_ARY_PARM", "OBJ_PARM"}
  BY <1>5, MetBlock
<1> HIDE DEF types
<1>8. /\ k \in Nat \ {0} /\ r.base \in Nat /\ r.base > 1
      /\ Len(buffer) \in Nat /\ r.offset \in Nat /\ r.offset > 0 /\ r.offset <= Len(buffer) + 1
  BY <1>1, <1>5, AtWork DEF IsReader
<1>9. InLoop
  BY <1>8 DEF InLoop
<1>10. k \in 1..Len(items) /\ k \in 1..Len(types)
  BY <1>5, <1>6, <1>7, <1>8
<1>11. next.dclr_pos = k + 1
  BY <1>1, <1>5 DEF next, IsReader, Fields
<1>12. w.todo = FrontOf(items, k, rest) /\ IsSeq(rest)
  BY <1>2, <1>3, <1>4, <1>5 DEF Left
<1>21. IsSeq(items) /\ k \in 1..Len(items) /\ IsSeq(rest)
  BY <1>7, <1>10, <1>12
<1>22. /\ IsSeq(FrontOf(items, k, rest)) /\ FrontOf(items, k, rest) # <<>>
       /\ Head(FrontOf(items, k, rest)) = items[k]
       /\ Tail(FrontOf(items, k, rest)) = FrontOf(items, k + 1, rest)
  BY <1>21, ListPops
<1>13. IsSeq(w.todo) /\ w.todo # <<>> /\ Head(w.todo) = items[k]
  BY <1>12, <1>22
<1>14. Tail(w.todo) = FrontOf(items, k + 1, rest)
  BY <1>12, <1>22
<1>15. Tail(w.todo) = Left(h, next, levels[m])
  BY <1>4, <1>5, <1>11, <1>14 DEF Left
<1>16. IsSeq(Tail(w.todo)) /\ 1 \in DOMAIN w.todo /\ Head(w.todo) = w.todo[1]
  BY <1>13, TailOf
<1>17. ~Final(h, w)
  BY <1>13 DEF Final
<1>18. IsConfig(h, met, w) /\ IsAt(Tokens(h, w), w.at) /\ After(h, w) \in steps /\ IsConfig(h, met, After(h, w))
  BY <1>17, GoesToNext
<1>19. Fits(h, met, Head(w.todo))
  BY <1>16, <1>18 DEF IsConfig
<1>20. /\ Head(w.todo).type = declared[k]
       /\ declared[k] \in {"INT_PARM", "FLOAT_PARM", "INT_ARY_PARM", "CHAR_ARY_PARM", "OBJ_PARM"}
  BY <1>6, <1>7, <1>10, <1>13
<1>23. Head(w.todo) = Items(h.heap[levels[Len(readers)].of])[r.dclr_pos]
  BY <1>4, <1>5, <1>13 DEF m
<1> QED BY <1>2, <1>5, <1>9, <1>13, <1>15, <1>16, <1>18, <1>19, <1>20, <1>23 DEF m

\* The reader has come to the next variable, the writer to its next configuration.
LEMMA FollowOn ==
  ASSUME NEW h \in Heaps, NEW met, Walk(h, met), status = "read", readers # <<>>, r.cls # 0,
         NEW w, NEW levels, Follow(h, met, w, levels, readers),
         NEW v, v.todo = Left(h, next, levels[Len(readers)]),
         NEW d, d.cls = r.cls, d.dclr_pos = r.dclr_pos + 1, d.offset = v.at, DOMAIN d.mem_cache = 1..v.next,
         NEW rs, rs = Replaced(d)
  PROVE  Follow(h, met, v, levels, rs)
<1> DEFINE m == Len(readers)
<1>1. m \in Nat /\ m > 0 /\ r = readers[m] /\ next.dclr_pos = r.dclr_pos + 1
  <2>1. IsReader(DOMAIN heap \ DOMAIN h.heap, Len(buffer), r)
    BY Innermost
  <2>2. next.dclr_pos = r.dclr_pos + 1
    BY <2>1 DEF IsReader, Fields, next
  <2> QED BY <2>2, Innermost
<1>2. Len(rs) = m /\ rs[m] = d /\ \A n \in 1..(m - 1) : rs[n] = readers[n]
  BY Innermost
<1>3. Left(h, d, levels[m]) = Left(h, next, levels[m])
  BY <1>1 DEF Left
<1> HIDE DEF m
<1>4. /\ levels[1].left = <<>> /\ \A n \in 1..m : IsSeq(levels[n].left)
      /\ \A n \in 1..(m - 1) : /\ levels[n].of \in met /\ readers[n].cls = h.heap[levels[n].of].cls
                               /\ levels[n + 1].left = Left(h, readers[n], levels[n])
      /\ levels[m].of \in met /\ r.cls = h.heap[levels[m].of].cls
  BY <1>1 DEF Follow, m
<1>5. \A n \in 1..(m - 1) : /\ levels[n].of \in met /\ rs[n].cls = h.heap[levels[n].of].cls
                            /\ levels[n + 1].left = Left(h, rs[n], levels[n])
  BY <1>2, <1>4
<1>6. v.todo = Left(h, d, levels[m])
  BY <1>3 DEF m
<1> QED BY <1>2, <1>4, <1>5, <1>6 DEF Follow

\* A token of a kind is at a place in the buffer.
Holds(n, kind) == n \in DOMAIN buffer /\ buffer[n].kind = kind

\* One, two, three tokens in the buffer.
LEMMA ListAt ==
  ASSUME NEW list, NEW at \in Nat, IsAt(list, at), IsSeq(list), NEW k \in 1..Len(list),
         NEW n, n = at + k - 1
  PROVE  n \in DOMAIN buffer /\ buffer[n] = list[k]
BY SeqHas DEF IsAt

\* One token.
LEMMA OneAt ==
  ASSUME NEW x, NEW at \in Nat, IsAt(<<x>>, at)
  PROVE  at \in DOMAIN buffer /\ buffer[at] = x
<1> DEFINE list == <<x>>
<1>1. IsSeq(list) /\ Len(list) = 1 /\ list[1] = x
  BY ShortList
<1>6. IsAt(list, at)
  OBVIOUS
<1> HIDE DEF list
<1>2. at \in DOMAIN buffer /\ buffer[at] = list[1]
  <2>1. 1 \in 1..Len(list) /\ at = at + 1 - 1
    BY <1>1
  <2> QED BY <1>1, <1>6, <2>1, ListAt
<1> QED BY <1>1, <1>2

\* Two tokens.
LEMMA TwoAt ==
  ASSUME NEW x, NEW y, NEW at \in Nat, IsAt(<<x, y>>, at)
  PROVE  /\ at \in DOMAIN buffer /\ buffer[at] = x
         /\ at + 1 \in DOMAIN buffer /\ buffer[at + 1] = y
<1> DEFINE list == <<x, y>>
<1>1. IsSeq(list) /\ Len(list) = 2 /\ list[1] = x /\ list[2] = y
  BY ShortList
<1>6. IsAt(list, at)
  OBVIOUS
<1> HIDE DEF list
<1>2. at \in DOMAIN buffer /\ buffer[at] = list[1]
  <2>1. 1 \in 1..Len(list) /\ at = at + 1 - 1
    BY <1>1
  <2> QED BY <1>1, <1>6, <2>1, ListAt
<1>3. at + 1 \in DOMAIN buffer /\ buffer[at + 1] = list[2]
  <2>1. 2 \in 1..Len(list) /\ at + 1 = at + 2 - 1
    BY <1>1
  <2> QED BY <1>1, <1>6, <2>1, ListAt
<1> QED BY <1>1, <1>2, <1>3

\* Three tokens.
LEMMA ThreeAt ==
  ASSUME NEW x, NEW y, NEW z, NEW at \in Nat, IsAt(<<x, y, z>>, at)
  PROVE  /\ at \in DOMAIN buffer /\ buffer[at] = x
         /\ at + 1 \in DOMAIN buffer /\ buffer[at + 1] = y
         /\ at + 2 \in DOMAIN buffer /\ buffer[at + 2] = z
<1> DEFINE list == <<x, y, z>>
<1>1. IsSeq(list) /\ Len(list) = 3 /\ list[1] = x /\ list[2] = y /\ list[3] = z
  BY ShortList
<1>6. IsAt(list, at)
  OBVIOUS
<1> HIDE DEF list
<1>2. at \in DOMAIN buffer /\ buffer[at] = list[1]
  <2>1. 1 \in 1..Len(list) /\ at = at + 1 - 1
    BY <1>1
  <2> QED BY <1>1, <1>6, <2>1, ListAt
<1>3. at + 1 \in DOMAIN buffer /\ buffer[at + 1] = list[2]
  <2>1. 2 \in 1..Len(list) /\ at + 1 = at + 2 - 1
    BY <1>1
  <2> QED BY <1>1, <1>6, <2>1, ListAt
<1>4. at + 2 \in DOMAIN buffer /\ buffer[at + 2] = list[3]
  <2>1. 3 \in 1..Len(list) /\ at + 2 = at + 3 - 1
    BY <1>1
  <2> QED BY <1>1, <1>6, <2>1, ListAt
<1> QED BY <1>1, <1>2, <1>3, <1>4

\* What is read for a variable of a type.
LEMMA TokensAt ==
  ASSUME NEW h, NEW w, NEW at \in Nat, at = w.at, IsAt(Tokens(h, w), at), w.todo # <<>>,
         NEW type, type = Head(w.todo).type, NEW a, a = About(w)
  PROVE  /\ type = "INT_PARM" => Holds(at, "int") /\ Len(Tokens(h, w)) = 1
         /\ type = "FLOAT_PARM" => Holds(at, "float") /\ Len(Tokens(h, w)) = 1
         /\ type \in Arrays \cup {"OBJ_PARM"} =>
              /\ Holds(at, "byte") /\ (Read(at) = 0 <=> a = 0)
              /\ a = 0 => Len(Tokens(h, w)) = 1
         /\ type \in Arrays /\ a # 0 =>
              /\ Holds(at + 1, "int") /\ Read(at + 1) = Numbering(w, a)
              /\ a \in DOMAIN w.ids => Len(Tokens(h, w)) = 2
              /\ a \notin DOMAIN w.ids => Len(Tokens(h, w)) = 3 /\ Holds(at + 2, "array")
         /\ type = "OBJ_PARM" /\ a # 0 =>
              /\ Holds(at + 1, "int") /\ Read(at + 1) = h.heap[a].cls
              /\ Holds(at + 2, "int") /\ Read(at + 2) = Numbering(w, a)
              /\ Len(Tokens(h, w)) = 3
<1>1. PICK list : list = Tokens(h, w)
  OBVIOUS
<1>2. CASE type = "INT_PARM"
  <2>1. PICK x : x = IntBytes(Narrow(a)) /\ list = <<x>>
    BY <1>1, <1>2 DEF Tokens
  <2>2. x.kind = "int"
    BY <2>1 DEF IntBytes, Token
  <2>3. at \in DOMAIN buffer /\ buffer[at] = x /\ Len(list) = 1
    <3>1. IsAt(<<x>>, at) /\ Len(<<x>>) = Len(list)
      BY <1>1, <2>1
    <3> QED BY <3>1, OneAt, ShortList
  <2> QED BY <1>1, <1>2, <2>2, <2>3 DEF Holds, Arrays
<1>3. CASE type = "FLOAT_PARM"
  <2>1. PICK x : x = Token("float", Head(w.todo).words) /\ list = <<x>>
    BY <1>1, <1>3 DEF Tokens
  <2>2. x.kind = "float"
    BY <2>1 DEF Token
  <2>3. at \in DOMAIN buffer /\ buffer[at] = x /\ Len(list) = 1
    <3>1. IsAt(<<x>>, at) /\ Len(<<x>>) = Len(list)
      BY <1>1, <2>1
    <3> QED BY <3>1, OneAt, ShortList
  <2> QED BY <1>1, <1>3, <2>2, <2>3 DEF Holds, Arrays
<1>4. CASE type \in Arrays \cup {"OBJ_PARM"} /\ a = 0
  <2>0. type # "INT_PARM" /\ type # "FLOAT_PARM" /\ type # "OBJ_ARY_PARM"
    BY <1>4 DEF Arrays
  <2>1. PICK x : x = OneByte(0) /\ list = <<x>>
    BY <1>1, <1>4, <2>0 DEF Tokens
  <2>2. x.kind = "byte" /\ x.v = 0
    BY <2>1 DEF OneByte, Token
  <2>3. at \in DOMAIN buffer /\ buffer[at] = x /\ Len(list) = 1
    <3>1. IsAt(<<x>>, at) /\ Len(<<x>>) = Len(list)
      BY <1>1, <2>1
    <3> QED BY <3>1, OneAt, ShortList
  <2> QED BY <1>1, <1>4, <2>0, <2>2, <2>3 DEF Holds, Read
<1>5. CASE type \in Arrays /\ a # 0 /\ a \in DOMAIN w.ids
  <2>0. type # "INT_PARM" /\ type # "FLOAT_PARM" /\ type # "OBJ_ARY_PARM" /\ type # "OBJ_PARM"
    BY <1>5 DEF Arrays
  <2>1. PICK x, y : x = OneByte(1) /\ y = IntBytes(Numbering(w, a)) /\ list = <<x, y>>
    BY <1>1, <1>5, <2>0 DEF Tokens
  <2>2. x.kind = "byte" /\ x.v = 1 /\ y.kind = "int" /\ y.v = Numbering(w, a)
    BY <2>1 DEF OneByte, IntBytes, Token
  <2>3. /\ at \in DOMAIN buffer /\ buffer[at] = x /\ Len(list) = 2
        /\ at + 1 \in DOMAIN buffer /\ buffer[at + 1] = y
    <3>1. IsAt(<<x, y>>, at) /\ Len(<<x, y>>) = Len(list)
      BY <1>1, <2>1
    <3> QED BY <3>1, TwoAt, ShortList
  <2> QED BY <1>1, <1>5, <2>0, <2>2, <2>3 DEF Holds, Read
<1>6. CASE type \in Arrays /\ a # 0 /\ a \notin DOMAIN w.ids
  <2>0. type # "INT_PARM" /\ type # "FLOAT_PARM" /\ type # "OBJ_ARY_PARM" /\ type # "OBJ_PARM"
    BY <1>6 DEF Arrays
  <2>1. PICK x, y, z : /\ x = OneByte(1) /\ y = IntBytes(Numbering(w, a)) /\ list = <<x, y, z>>
                       /\ z = Token("array", Contents(type, h.heap[a].mem))
    BY <1>1, <1>6, <2>0 DEF Tokens
  <2>2. x.kind = "byte" /\ x.v = 1 /\ y.kind = "int" /\ y.v = Numbering(w, a) /\ z.kind = "array"
    BY <2>1 DEF OneByte, IntBytes, Token
  <2>3. /\ at \in DOMAIN buffer /\ buffer[at] = x /\ Len(list) = 3
        /\ at + 1 \in DOMAIN buffer /\ buffer[at + 1] = y
        /\ at + 2 \in DOMAIN buffer /\ buffer[at + 2] = z
    <3>1. IsAt(<<x, y, z>>, at) /\ Len(<<x, y, z>>) = Len(list)
      BY <1>1, <2>1
    <3> QED BY <3>1, ThreeAt, ShortList
  <2> QED BY <1>1, <1>6, <2>0, <2>2, <2>3 DEF Holds, Read
<1>7. CASE type = "OBJ_PARM" /\ a # 0
  <2>0. type # "INT_PARM" /\ type # "FLOAT_PARM" /\ type # "OBJ_ARY_PARM" /\ type \notin Arrays
    BY <1>7 DEF Arrays
  <2>1. PICK x, y, z : /\ x = OneByte(1) /\ y = IntBytes(h.heap[a].cls) /\ z = IntBytes(Numbering(w, a))
                       /\ list = <<x, y, z>>
    BY <1>1, <1>7, <2>0 DEF Tokens
  <2>2. /\ x.kind = "byte" /\ x.v = 1 /\ y.kind = "int" /\ y.v = h.heap[a].cls
        /\ z.kind = "int" /\ z.v = Numbering(w, a)
    BY <2>1 DEF OneByte, IntBytes, Token
  <2>3. /\ at \in DOMAIN buffer /\ buffer[at] = x /\ Len(list) = 3
        /\ at + 1 \in DOMAIN buffer /\ buffer[at + 1] = y
        /\ at + 2 \in DOMAIN buffer /\ buffer[at + 2] = z
    <3>1. IsAt(<<x, y, z>>, at) /\ Len(<<x, y, z>>) = Len(list)
      BY <1>1, <2>1
    <3> QED BY <3>1, ThreeAt, ShortList
  <2> QED BY <1>1, <1>7, <2>0, <2>2, <2>3 DEF Holds, Read
<1>8. \/ type \in {"INT_PARM", "FLOAT_PARM"} \/ type \in Arrays \cup {"OBJ_PARM"}
      \/ type \notin {"INT_PARM", "FLOAT_PARM", "OBJ_PARM"} /\ type \notin Arrays
  OBVIOUS
<1>9. CASE type \notin {"INT_PARM", "FLOAT_PARM", "OBJ_PARM"} /\ type \notin Arrays
  BY <1>9
<1> QED BY <1>2, <1>3, <1>4, <1>5, <1>6, <1>7, <1>8, <1>9

\* The configuration after it.
LEMMA AfterIs ==
  ASSUME NEW h, NEW w, w.todo # <<>>, IsSeq(Tail(w.todo))
  PROVE  /\ After(h, w).turn = w.turn /\ After(h, w).at = w.at + Len(Tokens(h, w))
         /\ ~Fresh(w) => After(h, w).todo = Tail(w.todo) /\ After(h, w).next = w.next
         /\ Fresh(w) => After(h, w).next = w.next + 1
         /\ Fresh(w) /\ Head(w.todo).type # "OBJ_PARM" => After(h, w).todo = Tail(w.todo)
         /\ Fresh(w) /\ Head(w.todo).type = "OBJ_PARM" =>
              After(h, w).todo = Items(h.heap[About(w)]) \o Tail(w.todo)
<1>1. PICK v : v = After(h, w)
  OBVIOUS
<1>2. /\ v.turn = w.turn /\ v.todo = More(h, w) \o Tail(w.todo)
      /\ v.next = (IF Fresh(w) THEN w.next + 1 ELSE w.next) /\ v.at = w.at + Len(Tokens(h, w))
  BY <1>1 DEF After, Config
<1>3. <<>> \o Tail(w.todo) = Tail(w.todo)
  BY NothingMore
<1> QED BY <1>1, <1>2, <1>3 DEF More

\* A reader is where the writer was in one of its configurations.
Following(h, met, steps, rs, t) == \E w \in steps : \E levels : w.turn = t /\ Follow(h, met, w, levels, rs)

\* The number of a block, positive if it was written before.
LEMMA Numbered ==
  ASSUME NEW h, NEW met, NEW w, IsConfig(h, met, w), NEW a
  PROVE  /\ w.next \in Nat
         /\ a \in DOMAIN w.ids => Numbering(w, a) \in 1..w.next /\ Numbering(w, a) >= 0
         /\ a \notin DOMAIN w.ids => Numbering(w, a) < 0 /\ -Numbering(w, a) = w.next + 1
BY DEF IsConfig, Numbering

\* A value, Nil or an array: the next variable of the same object.
LEMMA VariableRead ==
  ASSUME NEW h \in Heaps, NEW met, Walk(h, met), Good(h, met),
         NEW steps, NEW last, Complete(h, met, steps, last), NEW w \in steps, NEW levels,
         Follow(h, met, w, levels, readers), w.turn = turn,
         DeserializeValue \/ Nil \/ AllocateArray \/ KnownArray
  PROVE  /\ After(h, w) \in steps /\ After(h, w).turn = turn'
         /\ Follow(h, met, After(h, w), levels, readers') /\ readers' # <<>>
<1>1. status = "read" /\ readers # <<>> /\ r.cls # 0 /\ InLoop /\ r.dclr_pos <= Len(declared)
  BY DEF DeserializeValue, Nil, AllocateArray, KnownArray, Refers, Reads, InLoop
<1>2. /\ DOMAIN r = Fields /\ r.dclr_pos \in Nat
  BY <1>1, AtWork DEF IsReader
<1> DEFINE type == declared[r.dclr_pos]
           m    == Len(readers)
<1>3. /\ Head(w.todo).type = type
      /\ type \in {"INT_PARM", "FLOAT_PARM", "INT_ARY_PARM", "CHAR_ARY_PARM", "OBJ_PARM"}
      /\ w.todo # <<>> /\ w.at = r.offset /\ IsSeq(Tail(w.todo)) /\ Tail(w.todo) = Left(h, next, levels[m])
  BY <1>1, ReadyFor
<1>4. IsAt(Tokens(h, w), w.at) /\ After(h, w) \in steps /\ IsConfig(h, met, After(h, w))
  BY <1>1, ReadyFor
<1>5. PICK v \in steps : v = After(h, w)
  BY <1>4
<1> SUFFICES v.turn = turn' /\ Follow(h, met, v, levels, readers') /\ readers' # <<>>
  BY <1>5
<1> DEFINE a  == About(w)
           at == r.offset
<1>6. at \in Nat
  BY <1>1, AtWork
<1>7. /\ IsConfig(h, met, w) /\ DOMAIN r.mem_cache = 1..w.next
  <2>1. m \in Nat /\ r = readers[m]
    BY <1>1, Innermost
  <2> QED BY <2>1, GoesToNext DEF Follow
<1>8. /\ v.turn = w.turn /\ v.at = at + Len(Tokens(h, w))
      /\ ~Fresh(w) => v.todo = Tail(w.todo) /\ v.next = w.next
      /\ Fresh(w) => v.next = w.next + 1
      /\ Fresh(w) /\ type # "OBJ_PARM" => v.todo = Tail(w.todo)
  <2>1. w.todo # <<>> /\ IsSeq(Tail(w.todo)) /\ v = After(h, w) /\ w.at = at /\ Head(w.todo).type = type
    BY <1>3, <1>5
  <2> HIDE DEF at, type
  <2>2. /\ After(h, w).turn = w.turn /\ After(h, w).at = w.at + Len(Tokens(h, w))
        /\ ~Fresh(w) => After(h, w).todo = Tail(w.todo) /\ After(h, w).next = w.next
        /\ Fresh(w) => After(h, w).next = w.next + 1
        /\ Fresh(w) /\ Head(w.todo).type # "OBJ_PARM" => After(h, w).todo = Tail(w.todo)
    BY <2>1, AfterIs
  <2> QED BY <2>1, <2>2
<1>9. /\ type = "INT_PARM" => Holds(at, "int") /\ Len(Tokens(h, w)) = 1
      /\ type = "FLOAT_PARM" => Holds(at, "float") /\ Len(Tokens(h, w)) = 1
      /\ type \in Arrays \cup {"OBJ_PARM"} =>
           /\ Holds(at, "byte") /\ (Read(at) = 0 <=> a = 0)
           /\ a = 0 => Len(Tokens(h, w)) = 1
      /\ type \in Arrays /\ a # 0 =>
           /\ Holds(at + 1, "int") /\ Read(at + 1) = Numbering(w, a)
           /\ a \in DOMAIN w.ids => Len(Tokens(h, w)) = 2
           /\ a \notin DOMAIN w.ids => Len(Tokens(h, w)) = 3 /\ Holds(at + 2, "array")
  BY <1>3, <1>4, <1>6, TokensAt
<1>10. Fresh(w) <=> type \in Arrays \cup {"OBJ_PARM"} /\ a # 0 /\ a \notin DOMAIN w.ids
  BY <1>3 DEF Fresh
<1>11. ASSUME NEW d, readers' = Replaced(d), turn' = turn, DOMAIN d = Fields, d.cls = r.cls,
              d.dclr_pos = r.dclr_pos + 1, d.offset = v.at, DOMAIN d.mem_cache = 1..v.next,
              v.todo = Left(h, next, levels[m])
       PROVE  v.turn = turn' /\ Follow(h, met, v, levels, readers') /\ readers' # <<>>
  <2>1. PICK rs : rs = Replaced(d)
    OBVIOUS
  <2>2. Follow(h, met, v, levels, rs)
    BY <1>1, <1>11, <2>1, FollowOn
  <2>3. IsSeq(rs) /\ Len(rs) = Len(readers) /\ Len(readers) > 0 /\ Len(readers) \in Nat
    BY <1>1, <2>1, Innermost
  <2>4. rs # <<>>
    BY <2>3, ShortList
  <2> QED BY <1>8, <1>11, <2>1, <2>2, <2>4
<1> HIDE DEF type, m, a, at
<1>12. CASE DeserializeValue
  <2> DEFINE words == IF Ahead1("int") THEN <<Read(r.offset)>> ELSE Read(r.offset)
             d == [Moved(next, Len(words)) EXCEPT !.offset = @ + 1]
  <2>1. readers' = Replaced(d) /\ turn' = turn /\ type \in {"INT_PARM", "FLOAT_PARM"}
    BY <1>12 DEF DeserializeValue, control, Reads, type
  <2>2. /\ DOMAIN d = Fields /\ d.offset = r.offset + 1 /\ d.cls = r.cls
        /\ d.dclr_pos = r.dclr_pos + 1 /\ d.mem_cache = r.mem_cache
    BY <1>2 DEF Moved, next, Fields
  <2> HIDE DEF words, d
  <2>3. ~Fresh(w) /\ Len(Tokens(h, w)) = 1
    BY <1>9, <1>10, <2>1 DEF Arrays
  <2>4. d.offset = v.at /\ DOMAIN d.mem_cache = 1..v.next /\ v.todo = Left(h, next, levels[m])
    BY <1>3, <1>7, <1>8, <2>2, <2>3 DEF at
  <2> QED BY <1>11, <2>1, <2>2, <2>4
<1>13. CASE Nil
  <2> DEFINE d == [Moved(next, 1) EXCEPT !.offset = @ + 1]
  <2>1. readers' = Replaced(d) /\ turn' = turn /\ type \in Arrays \cup {"OBJ_PARM"} /\ Read(at) = 0
    BY <1>13 DEF Nil, control, Reads, type, at
  <2>2. /\ DOMAIN d = Fields /\ d.offset = r.offset + 1 /\ d.cls = r.cls
        /\ d.dclr_pos = r.dclr_pos + 1 /\ d.mem_cache = r.mem_cache
    BY <1>2 DEF Moved, next, Fields
  <2> HIDE DEF d
  <2>3. ~Fresh(w) /\ Len(Tokens(h, w)) = 1
    BY <1>9, <1>10, <2>1
  <2>4. d.offset = v.at /\ DOMAIN d.mem_cache = 1..v.next /\ v.todo = Left(h, next, levels[m])
    BY <1>3, <1>7, <1>8, <2>2, <2>3 DEF at
  <2> QED BY <1>11, <2>1, <2>2, <2>4
<1>14. CASE AllocateArray
  <2> DEFINE d == Cached([Moved(next, 1) EXCEPT !.offset = @ + 3], -mem_id, New)
  <2>1. readers' = Replaced(d) /\ turn' = turn /\ type \in Arrays /\ Read(at) # 0 /\ mem_id < 0
    BY <1>14 DEF AllocateArray, control, Refers, Reads, type, at
  <2>2. /\ DOMAIN d = Fields /\ d.offset = r.offset + 3 /\ d.cls = r.cls
        /\ d.dclr_pos = r.dclr_pos + 1 /\ DOMAIN d.mem_cache = DOMAIN r.mem_cache \cup {-mem_id}
    BY <1>2 DEF Moved, next, Cached, Fields
  <2> HIDE DEF d
  <2>3. a # 0 /\ mem_id = Numbering(w, a)
    BY <1>9, <2>1 DEF mem_id, at
  <2>4. a \notin DOMAIN w.ids /\ w.next \in Nat /\ -mem_id = w.next + 1
    <3>1. /\ w.next \in Nat
          /\ a \in DOMAIN w.ids => Numbering(w, a) \in 1..w.next
          /\ a \notin DOMAIN w.ids => -Numbering(w, a) = w.next + 1
      BY <1>7, Numbered
    <3>2. CASE a \in DOMAIN w.ids
      BY <2>1, <2>3, <3>1, <3>2
    <3>3. CASE a \notin DOMAIN w.ids
      BY <2>3, <3>1, <3>3
    <3> QED BY <3>2, <3>3
  <2>5. Fresh(w) /\ Len(Tokens(h, w)) = 3 /\ type # "OBJ_PARM"
    BY <1>9, <1>10, <2>1, <2>3, <2>4 DEF Arrays
  <2>6. v.next = w.next + 1 /\ DOMAIN d.mem_cache = (1..w.next) \cup {w.next + 1}
    BY <1>7, <1>8, <2>2, <2>4, <2>5
  <2>7. d.offset = v.at /\ DOMAIN d.mem_cache = 1..v.next /\ v.todo = Left(h, next, levels[m])
    BY <1>3, <1>8, <2>2, <2>4, <2>5, <2>6 DEF at
  <2> QED BY <1>11, <2>1, <2>2, <2>7
<1>15. CASE KnownArray
  <2> DEFINE d == [Moved(next, 1) EXCEPT !.offset = @ + 2]
  <2>1. type \in Arrays /\ Read(at) # 0 /\ mem_id >= 0
    BY <1>15 DEF KnownArray, Refers, Reads, type, at
  <2>2. /\ DOMAIN d = Fields /\ d.offset = r.offset + 2 /\ d.cls = r.cls
        /\ d.dclr_pos = r.dclr_pos + 1 /\ d.mem_cache = r.mem_cache
    BY <1>2 DEF Moved, next, Fields
  <2>3. a # 0 /\ mem_id = Numbering(w, a)
    BY <1>9, <2>1 DEF mem_id, at
  <2>4. a \in DOMAIN w.ids /\ mem_id \in 1..w.next
    <3>1. /\ a \in DOMAIN w.ids => Numbering(w, a) \in 1..w.next
          /\ a \notin DOMAIN w.ids => Numbering(w, a) < 0
      BY <1>7, Numbered
    <3>2. CASE a \in DOMAIN w.ids
      BY <2>3, <3>1, <3>2
    <3>3. CASE a \notin DOMAIN w.ids
      BY <1>7, <2>1, <2>3, <3>1, <3>3 DEF IsConfig, Numbering
    <3> QED BY <3>2, <3>3
  <2>5. readers' = Replaced(d) /\ turn' = turn
    BY <1>7, <1>15, <2>4 DEF KnownArray
  <2> HIDE DEF d
  <2>6. ~Fresh(w) /\ Len(Tokens(h, w)) = 2
    BY <1>9, <1>10, <2>1, <2>3, <2>4
  <2>7. d.offset = v.at /\ DOMAIN d.mem_cache = 1..v.next /\ v.todo = Left(h, next, levels[m])
    BY <1>3, <1>7, <1>8, <2>2, <2>6 DEF at
  <2> QED BY <1>11, <2>2, <2>5, <2>7
<1> QED BY <1>12, <1>13, <1>14, <1>15

\* Between two graphs the reader is where the next one begins, or at the end.
Begins(h, t, p) == Config(t, Wanted(h.roots[t]), << >>, 0, p)
GraphRead(h, steps, t, p) ==
  IF t <= Len(h.roots) THEN Begins(h, t, p) \in steps ELSE p = Len(buffer) + 1
Reading(h, met, steps, rs, t, p) ==
  IF rs = <<>> THEN GraphRead(h, steps, t, p) ELSE Following(h, met, steps, rs, t)

\* A graph ends for the reader where it ended for the writer.
LEMMA GraphEnds ==
  ASSUME NEW h \in Heaps, NEW met, NEW steps, NEW last, Complete(h, met, steps, last),
         NEW w \in steps, w.todo = <<>>
  PROVE  GraphRead(h, steps, w.turn + 1, w.at)
<1>1. IsConfig(h, met, w)
  BY GoesToNext
<1>2. w.turn \in 1..Len(h.roots) /\ Len(h.roots) \in Nat
  <2>1. IsSeq(h.roots) /\ Len(h.roots) \in Nat
    BY Program
  <2>2. DOMAIN h.roots = 1..Len(h.roots)
    BY <2>1, SeqHas
  <2> QED BY <1>1, <2>1, <2>2 DEF IsConfig
<1>3. CASE Final(h, w)
  <2>1. w.turn = Len(h.roots) /\ w.at = Len(buffer) + 1
    BY <1>3, GoesToNext DEF Final
  <2> QED BY <1>2, <2>1 DEF GraphRead
<1>4. CASE ~Final(h, w)
  <2>1. w.turn # Len(h.roots)
    BY <1>4 DEF Final
  <2>2. After(h, w) \in steps
    BY <1>4, GoesToNext
  <2>3. After(h, w) = Begins(h, w.turn + 1, w.at)
    BY DEF After, Begins
  <2>4. w.turn + 1 <= Len(h.roots)
    BY <1>2, <2>1
  <2> QED BY <2>2, <2>3, <2>4 DEF GraphRead
<1> QED BY <1>3, <1>4

\* The graph has ended, or the reader outside follows the writer from v on.
Returned(h, met, steps, v, levels) ==
  IF Len(readers) = 1 THEN readers' = <<>> /\ GraphRead(h, steps, turn', pos')
  ELSE readers' # <<>> /\ turn' = turn /\ Follow(h, met, v, levels, readers')

\* An object is returned when the writer has come to what follows it.
LEMMA ReturnFollows ==
  ASSUME NEW h \in Heaps, NEW met, Walk(h, met), Good(h, met), status = "read", readers # <<>>,
         NEW steps, NEW last, Complete(h, met, steps, last), NEW w, NEW levels,
         Follow(h, met, w, levels, readers),
         NEW address, NEW d, IsReader(DOMAIN heap \ DOMAIN h.heap, Len(buffer), d), Return(address, d),
         NEW v \in steps, v.turn = turn, v.todo = levels[Len(readers)].left,
         d.offset = v.at, DOMAIN d.mem_cache = 1..v.next
  PROVE  Returned(h, met, steps, v, levels)
<1> DEFINE m == Len(readers)
<1>1. m \in Nat /\ m > 0
  BY Innermost
<1>2. /\ levels[1].left = <<>> /\ \A n \in 1..m : IsSeq(levels[n].left)
      /\ \A n \in 1..(m - 1) : /\ levels[n].of \in met /\ readers[n].cls = h.heap[levels[n].of].cls
                               /\ levels[n + 1].left = Left(h, readers[n], levels[n])
  BY DEF Follow
<1>3. CASE m = 1
  <2>1. turn' = turn + 1 /\ pos' = d.offset /\ readers' = <<>>
    BY <1>3 DEF Return
  <2>2. v.todo = <<>>
    BY <1>2, <1>3
  <2>3. GraphRead(h, steps, v.turn + 1, v.at)
    BY <2>2, GraphEnds
  <2> QED BY <1>3, <2>1, <2>3 DEF Returned
<1>4. CASE m # 1
  <2> DEFINE q  == Moved(TakenBack(outer, d), 1)
             rs == Append(SubSeq(readers, 1, m - 2), q)
             k  == m - 1
  <2>1. readers' = rs /\ turn' = turn
    BY <1>4 DEF Return
  <2>2. k \in 1..k /\ outer = readers[k] /\ IsReader(DOMAIN heap \ DOMAIN h.heap, Len(buffer), outer)
    BY <1>4, Outer
  <2>3. q.offset = d.offset /\ q.mem_cache = d.mem_cache /\ q.cls = outer.cls /\ q.dclr_pos = outer.dclr_pos
    BY <2>2, OuterGoesOn
  <2>4. /\ Len(rs) = k /\ rs[k] = q /\ rs # <<>> /\ \A n \in 1..(m - 2) : rs[n] = readers[n]
    BY <1>4, Outer
  <2>5. m - 2 = k - 1 /\ k \in 1..(m - 1) /\ k + 1 = m /\ k \in Nat /\ k < m
    BY <1>1, <2>2
  <2> HIDE DEF q, rs, k, m
  <2>6. levels[k].of \in met /\ outer.cls = h.heap[levels[k].of].cls /\ levels[m].left = Left(h, outer, levels[k])
    BY <1>2, <2>2, <2>5
  <2>7. q.cls # 0 /\ q.cls = h.heap[levels[k].of].cls
    BY <2>3, <2>6 DEF Good
  <2>8. v.todo = Left(h, q, levels[k])
    BY <2>3, <2>6 DEF Left, m
  <2>9. q.offset = v.at /\ DOMAIN q.mem_cache = 1..v.next
    BY <2>3
  <2>10. \A n \in 1..k : IsSeq(levels[n].left)
    BY <1>1, <1>2, <2>5
  <2>11. \A n \in 1..(k - 1) : /\ levels[n].of \in met /\ rs[n].cls = h.heap[levels[n].of].cls
                               /\ levels[n + 1].left = Left(h, rs[n], levels[n])
    <3> SUFFICES ASSUME NEW n \in 1..(k - 1)
                 PROVE  /\ levels[n].of \in met /\ rs[n].cls = h.heap[levels[n].of].cls
                        /\ levels[n + 1].left = Left(h, rs[n], levels[n])
      OBVIOUS
    <3>1. n \in 1..(m - 1) /\ rs[n] = readers[n]
      BY <1>1, <2>4, <2>5
    <3> QED BY <1>2, <3>1
  <2>12. Follow(h, met, v, levels, rs)
    BY <1>2, <2>4, <2>6, <2>7, <2>8, <2>9, <2>10, <2>11 DEF Follow
  <2> QED BY <1>4, <2>1, <2>4, <2>12 DEF Returned, m
<1> QED BY <1>3, <1>4 DEF m

\* After its last variable an object is returned.
LEMMA ObjectEnds ==
  ASSUME NEW h \in Heaps, NEW met, Walk(h, met), Good(h, met),
         NEW steps, NEW last, Complete(h, met, steps, last), NEW w \in steps, NEW levels,
         Follow(h, met, w, levels, readers), w.turn = turn, EndObject
  PROVE  Returned(h, met, steps, w, levels)
<1>1. status = "read" /\ readers # <<>> /\ r.cls # 0 /\ ~InLoop /\ Return(r.instance, r)
  BY DEF EndObject
<1> DEFINE m == Len(readers)
<1>2. m \in Nat /\ m > 0 /\ m \in 1..m /\ r = readers[m] /\ IsReader(DOMAIN heap \ DOMAIN h.heap, Len(buffer), r)
  BY <1>1, Innermost
<1>3. /\ r.offset = w.at /\ levels[m].of \in met /\ r.cls = h.heap[levels[m].of].cls
      /\ w.todo = Left(h, r, levels[m]) /\ IsSeq(levels[m].left) /\ DOMAIN r.mem_cache = 1..w.next
  BY <1>1, <1>2 DEF Follow
<1>4. PICK b \in met : b = levels[m].of
  BY <1>3
<1>5. ~(r.dclr_pos <= Len(declared))
  BY <1>1, ReadyFor
<1> DEFINE items == Items(h.heap[b])
<1>6. IsSeq(items) /\ Len(items) = Len(declared) /\ Len(declared) \in Nat
  BY <1>3, <1>4, MetBlock DEF declared
<1>7. r.dclr_pos = Len(declared) + 1
  <2>1. r.dclr_pos \in Nat /\ r.dclr_pos <= Len(declared) + 1
    BY <1>1, <1>2 DEF IsReader, declared
  <2> QED BY <1>5, <1>6, <2>1
<1>8. w.todo = levels[m].left
  <2>1. w.todo = FrontOf(items, Len(items) + 1, levels[m].left)
    BY <1>3, <1>4, <1>6, <1>7 DEF Left
  <2>2. FrontOf(items, Len(items) + 1, levels[m].left) = levels[m].left
    BY <1>3, <1>6, ListEnds
  <2> QED BY <2>1, <2>2
<1> QED BY <1>1, <1>2, <1>3, <1>8, ReturnFollows

\* Level n is about block a, with what is left after it.
Level(levels, n, a, left) == [k \in 1..n |-> IF k = n THEN [of |-> a, left |-> left] ELSE levels[k]]

\* A nested reader begins behind the first byte of an object.
LEMMA InnerBegins ==
  ASSUME NEW h \in Heaps, NEW met, Walk(h, met), Good(h, met),
         NEW steps, NEW last, Complete(h, met, steps, last), NEW w \in steps, NEW levels,
         Follow(h, met, w, levels, readers), w.turn = turn, DeserializeInner
  PROVE  /\ readers' # <<>> /\ turn' = turn
         /\ Follow(h, met, w, Level(levels, Len(readers) + 1, About(w), Tail(w.todo)), readers')
<1>1. status = "read" /\ readers # <<>> /\ r.cls # 0 /\ InLoop /\ r.dclr_pos <= Len(declared)
      /\ declared[r.dclr_pos] = "OBJ_PARM" /\ Read(r.offset) # 0
  BY DEF DeserializeInner, Refers, Reads, InLoop
<1> DEFINE m == Len(readers)
           d == [next EXCEPT !.offset = @ + 1]
           e == Reader(r.base, r.offset + 1, r.mem_cache)
           rs == Replaced(d)
           qs == Append(rs, e)
<1>2. /\ Head(w.todo).type = "OBJ_PARM" /\ w.todo # <<>> /\ w.at = r.offset
      /\ IsSeq(Tail(w.todo)) /\ Tail(w.todo) = Left(h, next, levels[m]) /\ IsAt(Tokens(h, w), w.at)
  BY <1>1, ReadyFor
<1>3. About(w) # 0
  <2>1. r.offset \in Nat
    BY <1>1, AtWork
  <2> QED BY <1>1, <1>2, <2>1, TokensAt
<1>4. m \in Nat /\ m > 0 /\ r = readers[m] /\ DOMAIN r = Fields /\ r.dclr_pos \in Nat
  BY <1>1, Innermost DEF IsReader
<1>5. readers' = qs /\ turn' = turn
  BY DEF DeserializeInner, control
<1>6. d.cls = r.cls /\ d.dclr_pos = next.dclr_pos
  BY <1>4 DEF next, Fields
<1>7. e.cls = 0 /\ e.offset = w.at + 1 /\ e.mem_cache = r.mem_cache
  BY <1>2 DEF Reader
<1>8. IsSeq(rs) /\ Len(rs) = m /\ rs[m] = d /\ \A n \in 1..(m - 1) : rs[n] = readers[n]
  BY <1>1, Innermost
<1> HIDE DEF d, e, rs
<1>20. qs = Append(rs, e)
  OBVIOUS
<1> HIDE DEF qs, m
<1>21. IsSeq(qs) /\ Len(qs) = Len(rs) + 1 /\ qs[Len(rs) + 1] = e
  BY <1>8, <1>20, Longer, ZenonT(60)
<1>9. IsSeq(qs) /\ Len(qs) = m + 1 /\ qs[m + 1] = e
  BY <1>8, <1>21
<1>10. \A n \in 1..m : qs[n] = rs[n]
  <2>1. \A n \in 1..Len(rs) : qs[n] = rs[n]
    BY <1>8, <1>20, Longer
  <2> QED BY <1>8, <2>1
<1> USE DEF m
<1>11. qs # <<>>
  <2> SUFFICES ASSUME qs = <<>> PROVE FALSE
    OBVIOUS
  <2>1. Len(qs) = 0
    BY ShortList
  <2> QED BY <1>4, <1>9, <2>1
<1>12. /\ levels[1].left = <<>> /\ \A n \in 1..m : IsSeq(levels[n].left)
       /\ \A n \in 1..(m - 1) : /\ levels[n].of \in met /\ readers[n].cls = h.heap[levels[n].of].cls
                                /\ levels[n + 1].left = Left(h, readers[n], levels[n])
       /\ levels[m].of \in met /\ r.cls = h.heap[levels[m].of].cls /\ DOMAIN r.mem_cache = 1..w.next
  BY <1>1, <1>4 DEF Follow
<1> HIDE DEF m
<1>13. PICK lv : lv = Level(levels, m + 1, About(w), Tail(w.todo))
  OBVIOUS
<1>14. lv[m + 1].left = Tail(w.todo) /\ \A n \in 1..m : lv[n] = levels[n]
  BY <1>4, <1>13 DEF Level
<1>15. lv[1].left = <<>> /\ \A n \in 1..(m + 1) : IsSeq(lv[n].left)
  <2>1. 1 \in 1..m
    BY <1>4
  <2>2. lv[1].left = <<>>
    BY <1>12, <1>14, <2>1
  <2>3. ASSUME NEW n \in 1..(m + 1) PROVE IsSeq(lv[n].left)
    <3>1. CASE n = m + 1
      BY <1>2, <1>14, <3>1
    <3>2. CASE n \in 1..m
      BY <1>12, <1>14, <3>2
    <3> QED BY <1>4, <3>1, <3>2
  <2> QED BY <2>2, <2>3
<1>16. ASSUME NEW n \in 1..m
       PROVE  /\ lv[n].of \in met /\ qs[n].cls = h.heap[lv[n].of].cls
              /\ lv[n + 1].left = Left(h, qs[n], lv[n])
  <2>1. CASE n = m
    <3>1. qs[n] = d /\ lv[n] = levels[m]
      BY <1>8, <1>10, <1>14, <2>1
    <3>2. Left(h, d, levels[m]) = Tail(w.todo)
      BY <1>2, <1>6 DEF Left, m
    <3> QED BY <1>6, <1>12, <1>14, <2>1, <3>1, <3>2
  <2>2. CASE n # m
    <3>1. n \in 1..(m - 1) /\ n + 1 \in 1..m
      BY <1>4, <2>2
    <3>2. qs[n] = readers[n] /\ lv[n] = levels[n] /\ lv[n + 1] = levels[n + 1]
      BY <1>8, <1>10, <1>14, <3>1
    <3> QED BY <1>12, <3>1, <3>2
  <2> QED BY <2>1, <2>2
<1>17. Follow(h, met, w, lv, qs)
  <2>1. (m + 1) - 1 = m
    BY <1>4
  <2> QED BY <1>2, <1>3, <1>7, <1>9, <1>12, <1>14, <1>15, <1>16, <2>1 DEF Follow
<1> QED BY <1>5, <1>11, <1>13, <1>17 DEF m

\* Where a nested reader begins are the class and the number of an object.
LEMMA AtObject ==
  ASSUME NEW h \in Heaps, NEW met, Walk(h, met), Good(h, met), status = "read", readers # <<>>, r.cls = 0,
         NEW steps, NEW last, Complete(h, met, steps, last), NEW w \in steps, NEW levels,
         Follow(h, met, w, levels, readers), NEW a, a = About(w)
  PROVE  /\ a \in met /\ h.heap[a].cls \in DOMAIN Classes
         /\ Holds(r.offset, "int") /\ Read(r.offset) = h.heap[a].cls
         /\ Holds(r.offset + 1, "int") /\ mem_id = Numbering(w, a)
         /\ w.todo # <<>> /\ Head(w.todo).type = "OBJ_PARM" /\ a # 0 /\ IsSeq(Tail(w.todo))
         /\ After(h, w) \in steps /\ IsConfig(h, met, w) /\ After(h, w).at = r.offset + 2
         /\ DOMAIN r.mem_cache = 1..w.next /\ levels[Len(readers)].left = Tail(w.todo)
<1> DEFINE m == Len(readers)
<1>1. m \in Nat /\ m > 0 /\ r = readers[m]
  BY Innermost
<1>2. /\ r.offset = w.at + 1 /\ w.todo # <<>> /\ Head(w.todo).type = "OBJ_PARM" /\ a # 0
      /\ levels[m].left = Tail(w.todo) /\ DOMAIN r.mem_cache = 1..w.next
  BY <1>1 DEF Follow
<1>3. ~Final(h, w)
  BY <1>2 DEF Final
<1>4. IsConfig(h, met, w) /\ IsAt(Tokens(h, w), w.at) /\ After(h, w) \in steps
  BY <1>3, GoesToNext
<1>5. IsSeq(w.todo) /\ w.at \in Nat
  BY <1>4 DEF IsConfig
<1>6. 1 \in DOMAIN w.todo /\ Head(w.todo) = w.todo[1] /\ IsSeq(Tail(w.todo))
  BY <1>2, <1>5, TailOf
<1>7. Fits(h, met, Head(w.todo))
  BY <1>4, <1>6 DEF IsConfig
<1>8. a \in met
  BY <1>2, <1>7 DEF Fits, About
<1>9. h.heap[a].cls \in DOMAIN Classes
  BY <1>8, MetBlock
<1>10. PICK at \in Nat : at = w.at
  BY <1>5
<1>11. /\ Holds(at + 1, "int") /\ Read(at + 1) = h.heap[a].cls
       /\ Holds(at + 2, "int") /\ Read(at + 2) = Numbering(w, a)
       /\ Len(Tokens(h, w)) = 3
  <2>1. IsAt(Tokens(h, w), at) /\ Head(w.todo).type = "OBJ_PARM" /\ a # 0 /\ w.todo # <<>>
    BY <1>2, <1>4, <1>10
  <2> QED BY <1>10, <2>1, TokensAt
<1>12. at + 1 = r.offset /\ at + 2 = r.offset + 1 /\ r.offset \in Nat
  BY <1>2, <1>10
<1>13. After(h, w).at = r.offset + 2
  <2>1. After(h, w).at = w.at + Len(Tokens(h, w))
    BY <1>2, <1>6, AfterIs
  <2> QED BY <1>10, <1>11, <1>12, <2>1
<1> QED BY <1>2, <1>4, <1>6, <1>8, <1>9, <1>11, <1>12, <1>13 DEF mem_id, m

\* An object that was not read before: the reader goes through its variables.
LEMMA NewObject ==
  ASSUME NEW h \in Heaps, NEW met, Walk(h, met), Good(h, met),
         NEW steps, NEW last, Complete(h, met, steps, last), NEW w \in steps, NEW levels,
         Follow(h, met, w, levels, readers), w.turn = turn, AllocateObject
  PROVE  /\ After(h, w) \in steps /\ readers' # <<>> /\ After(h, w).turn = turn'
         /\ Follow(h, met, After(h, w), Level(levels, Len(readers), About(w), Tail(w.todo)), readers')
<1>1. status = "read" /\ readers # <<>> /\ r.cls = 0 /\ mem_id < 0
  BY DEF AllocateObject, Entering
<1> DEFINE m == Len(readers)
           cls == Read(r.offset)
           d == [Cached(Skipped(2), -mem_id, New) EXCEPT !.cls = cls, !.instance = New]
           rs == Replaced(d)
<1>2. PICK a : a = About(w)
  OBVIOUS
<1>3. /\ a \in met /\ h.heap[a].cls \in DOMAIN Classes
      /\ cls = h.heap[a].cls /\ mem_id = Numbering(w, a)
      /\ w.todo # <<>> /\ Head(w.todo).type = "OBJ_PARM" /\ a # 0 /\ IsSeq(Tail(w.todo))
      /\ After(h, w) \in steps /\ IsConfig(h, met, w) /\ After(h, w).at = r.offset + 2
      /\ DOMAIN r.mem_cache = 1..w.next /\ levels[m].left = Tail(w.todo)
  BY <1>1, <1>2, AtObject
<1>4. a \notin DOMAIN w.ids /\ w.next \in Nat /\ -mem_id = w.next + 1
  <2>1. /\ w.next \in Nat
        /\ a \in DOMAIN w.ids => Numbering(w, a) \in 1..w.next
        /\ a \notin DOMAIN w.ids => -Numbering(w, a) = w.next + 1
    BY <1>3, Numbered
  <2>2. CASE a \in DOMAIN w.ids
    BY <1>1, <1>3, <2>1, <2>2
  <2>3. CASE a \notin DOMAIN w.ids
    BY <1>3, <2>1, <2>3
  <2> QED BY <2>2, <2>3
<1>5. Fresh(w)
  BY <1>2, <1>3, <1>4 DEF Fresh
<1>6. PICK v \in steps : v = After(h, w)
  BY <1>3
<1>7. v.turn = turn /\ v.next = w.next + 1 /\ v.todo = Items(h.heap[a]) \o Tail(w.todo)
  BY <1>2, <1>3, <1>5, <1>6, AfterIs
<1>8. m \in Nat /\ m > 0 /\ r = readers[m] /\ DOMAIN r = Fields /\ r.dclr_pos = 1
  BY <1>1, Innermost DEF IsReader
<1>9. readers' = rs /\ turn' = turn
  BY DEF AllocateObject, control
<1>10. /\ d.cls = cls /\ d.offset = r.offset + 2 /\ d.dclr_pos = 1
       /\ DOMAIN d.mem_cache = DOMAIN r.mem_cache \cup {-mem_id}
  BY <1>8 DEF Cached, Skipped, Fields
<1>11. IsSeq(rs) /\ Len(rs) = m /\ rs[m] = d /\ \A n \in 1..(m - 1) : rs[n] = readers[n]
  BY <1>1, Innermost
<1> HIDE DEF d, rs, cls
<1>12. rs # <<>>
  <2> SUFFICES ASSUME rs = <<>> PROVE FALSE
    OBVIOUS
  <2>1. Len(rs) = 0
    BY ShortList
  <2> QED BY <1>8, <1>11, <2>1
<1>13. DOMAIN d.mem_cache = 1..v.next
  BY <1>3, <1>4, <1>7, <1>10
<1>14. /\ levels[1].left = <<>> /\ \A n \in 1..m : IsSeq(levels[n].left)
       /\ \A n \in 1..(m - 1) : /\ levels[n].of \in met /\ readers[n].cls = h.heap[levels[n].of].cls
                                /\ levels[n + 1].left = Left(h, readers[n], levels[n])
  BY <1>8 DEF Follow
<1> HIDE DEF m
<1>15. PICK lv : lv = Level(levels, m, a, Tail(w.todo))
  OBVIOUS
<1>16. /\ \A n \in 1..m : lv[n].left = levels[n].left
       /\ lv[m].of = a
       /\ \A n \in 1..(m - 1) : lv[n].of = levels[n].of
  <2>1. lv[m].of = a /\ lv[m].left = Tail(w.todo)
    BY <1>8, <1>15 DEF Level
  <2>2. \A n \in 1..(m - 1) : lv[n] = levels[n]
    BY <1>8, <1>15 DEF Level
  <2>3. levels[m].left = Tail(w.todo)
    BY <1>3 DEF m
  <2>4. ASSUME NEW n \in 1..m PROVE lv[n].left = levels[n].left
    <3>1. CASE n = m
      BY <2>1, <2>3, <3>1
    <3>2. CASE n # m
      <4>1. n \in 1..(m - 1)
        BY <1>8, <3>2
      <4> QED BY <2>2, <4>1
    <3> QED BY <3>1, <3>2
  <2> QED BY <2>1, <2>2, <2>4
<1>17. lv[1].left = <<>> /\ \A n \in 1..m : IsSeq(lv[n].left)
  <2>1. 1 \in 1..m
    BY <1>8
  <2> QED BY <1>14, <1>16, <2>1
<1>18. ASSUME NEW n \in 1..(m - 1)
       PROVE  /\ lv[n].of \in met /\ rs[n].cls = h.heap[lv[n].of].cls
              /\ lv[n + 1].left = Left(h, rs[n], lv[n])
  <2>1. n \in 1..m /\ n + 1 \in 1..m
    BY <1>8
  <2>2. Left(h, readers[n], lv[n]) = Left(h, readers[n], levels[n])
    BY <1>16, <2>1 DEF Left
  <2> QED BY <1>11, <1>14, <1>16, <2>1, <2>2
<1>19. v.todo = Left(h, d, lv[m])
  <2>1. m \in 1..m
    BY <1>8
  <2>2. lv[m].left = Tail(w.todo) /\ lv[m].of = a
    BY <1>3, <1>16, <2>1 DEF m
  <2>3. Left(h, d, lv[m]) = FrontOf(Items(h.heap[a]), 1, Tail(w.todo))
    BY <1>10, <2>2 DEF Left
  <2>4. IsSeq(Items(h.heap[a]))
    BY <1>3, MetBlock
  <2>5. FrontOf(Items(h.heap[a]), 1, Tail(w.todo)) = Items(h.heap[a]) \o Tail(w.todo)
    BY <1>3, <2>4, ListEnds
  <2> QED BY <1>7, <2>3, <2>5
<1>20. d.cls # 0 /\ d.cls = h.heap[lv[m].of].cls /\ lv[m].of \in met /\ d.offset = v.at
  BY <1>3, <1>6, <1>10, <1>16, SerializerAssumption
<1>21. Follow(h, met, v, lv, rs)
  BY <1>11, <1>13, <1>17, <1>18, <1>19, <1>20 DEF Follow
<1> QED BY <1>2, <1>6, <1>7, <1>9, <1>12, <1>15, <1>21 DEF m

\* An object that was read before is returned.
LEMMA OldObject ==
  ASSUME NEW h \in Heaps, NEW met, Walk(h, met), Good(h, met),
         NEW steps, NEW last, Complete(h, met, steps, last), NEW w \in steps, NEW levels,
         Follow(h, met, w, levels, readers), w.turn = turn, KnownObject
  PROVE  Returned(h, met, steps, After(h, w), levels)
<1>1. status = "read" /\ readers # <<>> /\ r.cls = 0 /\ mem_id >= 0 /\ Ahead(r.offset, <<"int", "int">>)
      /\ Return(Found(mem_id), Skipped(2))
  BY DEF KnownObject, Entering
<1>2. PICK a : a = About(w)
  OBVIOUS
<1>3. /\ mem_id = Numbering(w, a) /\ w.todo # <<>> /\ Head(w.todo).type = "OBJ_PARM" /\ IsSeq(Tail(w.todo))
      /\ After(h, w) \in steps /\ IsConfig(h, met, w) /\ After(h, w).at = r.offset + 2
      /\ DOMAIN r.mem_cache = 1..w.next /\ levels[Len(readers)].left = Tail(w.todo)
  BY <1>1, <1>2, AtObject
<1>4. a \in DOMAIN w.ids
  <2>1. /\ w.next \in Nat
        /\ a \notin DOMAIN w.ids => Numbering(w, a) < 0 /\ -Numbering(w, a) = w.next + 1
    BY <1>3, Numbered
  <2> SUFFICES ASSUME a \notin DOMAIN w.ids PROVE FALSE
    OBVIOUS
  <2>2. mem_id = -(w.next + 1)
    BY <1>3 DEF Numbering
  <2> QED BY <1>1, <2>1, <2>2
<1>5. ~Fresh(w)
  BY <1>2, <1>4 DEF Fresh
<1>6. PICK v \in steps : v = After(h, w)
  BY <1>3
<1>7. v.turn = turn /\ v.next = w.next /\ v.todo = Tail(w.todo)
  BY <1>3, <1>5, <1>6, AfterIs
<1>8. DOMAIN r = Fields /\ r.offset \in Nat /\ r.offset > 0 /\ Len(buffer) \in Nat /\ DOMAIN buffer = 1..Len(buffer)
  BY <1>1, AtWork DEF IsReader
<1>9. r.offset + 2 <= Len(buffer) + 1
  BY <1>1, <1>8, AheadAre
<1> DEFINE d == Skipped(2)
<1>10. IsReader(DOMAIN heap \ DOMAIN h.heap, Len(buffer), d)
  BY <1>1, <1>8, <1>9, ReaderAfter DEF Skipped, Fields
<1>11. d.offset = v.at /\ DOMAIN d.mem_cache = 1..v.next
  BY <1>3, <1>6, <1>7, <1>8 DEF Skipped, Fields
<1>12. Return(Found(mem_id), d)
  BY <1>1
<1>13. v.todo = levels[Len(readers)].left
  BY <1>3, <1>7
<1> HIDE DEF d
<1>14. Returned(h, met, steps, v, levels)
  BY <1>1, <1>7, <1>10, <1>11, <1>12, <1>13, ReturnFollows
<1> QED BY <1>6, <1>14

\* What a graph begins with.
LEMMA FirstOf ==
  ASSUME NEW h \in Heaps, NEW k \in 1..Len(h.roots), NEW p
  PROVE  LET w == Begins(h, k, p) IN
         /\ w.turn = k /\ w.at = p /\ w.next = 0 /\ DOMAIN w.ids = {} /\ w.todo # <<>>
         /\ Head(w.todo).type = "OBJ_PARM" /\ About(w) = h.roots[k] /\ Tail(w.todo) = <<>>
<1> DEFINE w == Begins(h, k, p)
<1>1. w.turn = k /\ w.at = p /\ w.next = 0 /\ w.ids = << >> /\ w.todo = <<Item("OBJ_PARM", <<h.roots[k]>>)>>
  BY DEF Begins, Config, Wanted
<1> HIDE DEF w
<1> DEFINE item == Item("OBJ_PARM", <<h.roots[k]>>)
<1>2. item.type = "OBJ_PARM" /\ item.words[1] = h.roots[k]
  BY DEF Item
<1>3. w.todo = <<item>>
  BY <1>1
<1> HIDE DEF item
<1>4. IsSeq(w.todo) /\ Len(w.todo) = 1 /\ w.todo[1] = item
  BY <1>3, ShortList
<1>5. w.todo # <<>>
  BY <1>4, ShortList
<1>6. /\ IsSeq(Tail(w.todo)) /\ Len(Tail(w.todo)) = Len(w.todo) - 1 /\ Head(w.todo) = w.todo[1]
  BY <1>4, <1>5, TailOf
<1>7. Tail(w.todo) = <<>>
  <2>1. Len(Tail(w.todo)) = 0
    BY <1>4, <1>6
  <2> QED BY <1>6, <2>1, SeqHas
<1>8. DOMAIN w.ids = {}
  BY <1>1
<1> QED BY <1>1, <1>2, <1>4, <1>5, <1>6, <1>7, <1>8 DEF About, w

\* The first byte of a graph.
LEMMA GraphBegins ==
  ASSUME NEW h \in Heaps, NEW met, Walk(h, met), Good(h, met), readers = <<>>, turn <= Len(h.roots),
         status = "read", NEW steps, NEW last, Complete(h, met, steps, last), GraphRead(h, steps, turn, pos)
  PROVE  /\ Holds(pos, "byte")
         /\ DeserializeObject /\ Read(pos) = 0 =>
              /\ h.roots[turn] = 0 /\ readers' = <<>> /\ GraphRead(h, steps, turn', pos')
         /\ DeserializeObject /\ Read(pos) # 0 =>
              /\ h.roots[turn] # 0 /\ readers' # <<>> /\ turn' = turn /\ Begins(h, turn, pos) \in steps
              /\ Follow(h, met, Begins(h, turn, pos), Level(<<>>, 1, h.roots[turn], <<>>), readers')
<1>1. turn \in 1..Len(h.roots) /\ pos \in Nat
  <2>1. roots = h.roots /\ turn \in 1..Len(roots) + 1 /\ Len(h.roots) \in Nat /\ pos \in 1..Len(buffer) + 1
    BY Program DEF Walk, Basic, Stage
  <2> QED BY <2>1
<1>2. PICK w \in steps : w = Begins(h, turn, pos)
  BY DEF GraphRead
<1>3. /\ w.turn = turn /\ w.at = pos /\ w.next = 0 /\ DOMAIN w.ids = {} /\ w.todo # <<>>
      /\ Head(w.todo).type = "OBJ_PARM" /\ About(w) = h.roots[turn] /\ Tail(w.todo) = <<>>
  BY <1>1, <1>2, FirstOf
<1>4. ~Final(h, w)
  BY <1>3 DEF Final
<1>5. IsAt(Tokens(h, w), w.at) /\ After(h, w) \in steps
  BY <1>4, GoesToNext
<1>6. /\ Holds(pos, "byte") /\ (Read(pos) = 0 <=> About(w) = 0)
      /\ About(w) = 0 => Len(Tokens(h, w)) = 1
  BY <1>1, <1>3, <1>5, TokensAt
<1>7. ASSUME DeserializeObject, Read(pos) = 0
      PROVE  h.roots[turn] = 0 /\ readers' = <<>> /\ GraphRead(h, steps, turn', pos')
  <2>1. turn' = turn + 1 /\ pos' = pos + 1 /\ readers' = <<>>
    BY <1>7 DEF DeserializeObject
  <2>2. PICK v \in steps : v = After(h, w)
    BY <1>5
  <2>3. ~Fresh(w) /\ Len(Tokens(h, w)) = 1
    BY <1>6, <1>7 DEF Fresh
  <2>4. IsSeq(Tail(w.todo))
    BY <1>3, ShortList
  <2>5. v.turn = turn /\ v.todo = <<>> /\ v.at = pos + 1
    BY <1>3, <2>2, <2>3, <2>4, AfterIs, ZenonT(60)
  <2>6. GraphRead(h, steps, v.turn + 1, v.at)
    BY <2>5, GraphEnds
  <2> QED BY <1>3, <1>6, <1>7, <2>1, <2>5, <2>6
<1>8. ASSUME DeserializeObject, Read(pos) # 0
      PROVE  /\ h.roots[turn] # 0 /\ readers' # <<>> /\ turn' = turn
             /\ Follow(h, met, w, Level(<<>>, 1, h.roots[turn], <<>>), readers')
  <2> DEFINE e == Reader(pos + 1, pos + 1, << >>)
  <2>1. readers' = <<e>> /\ turn' = turn
    BY <1>8 DEF DeserializeObject
  <2>2. e.cls = 0 /\ e.offset = w.at + 1 /\ DOMAIN e.mem_cache = 1..w.next
    BY <1>3 DEF Reader
  <2> HIDE DEF e
  <2>3. PICK rs : rs = <<e>>
    OBVIOUS
  <2>4. Len(rs) = 1 /\ rs[1] = e /\ rs # <<>>
    BY <2>3, ShortList
  <2>5. PICK lv : lv = Level(<<>>, 1, h.roots[turn], <<>>)
    OBVIOUS
  <2>6. lv[1].left = <<>> /\ \A n \in 1..1 : IsSeq(lv[n].left)
    BY <2>5, ShortList DEF Level
  <2>7. About(w) # 0
    BY <1>6, <1>8
  <2>8. Follow(h, met, w, lv, rs)
    BY <1>3, <2>2, <2>4, <2>6, <2>7 DEF Follow
  <2> QED BY <1>3, <2>1, <2>3, <2>4, <2>5, <2>7, <2>8
<1>9. Begins(h, turn, pos) \in steps /\ w = Begins(h, turn, pos)
  BY <1>2
<1> QED BY <1>6, <1>7, <1>8, <1>9

\* Tokens of kinds that are ahead.
LEMMA AheadOf ==
  ASSUME NEW n \in Nat
  PROVE  /\ \A a : Holds(n, a) => Ahead(n, <<a>>)
         /\ \A a, b : Holds(n, a) /\ Holds(n + 1, b) => Ahead(n, <<a, b>>)
         /\ \A a, b, c : Holds(n, a) /\ Holds(n + 1, b) /\ Holds(n + 2, c) => Ahead(n, <<a, b, c>>)
<1>1. ASSUME NEW a, Holds(n, a) PROVE Ahead(n, <<a>>)
  BY <1>1 DEF Holds, Ahead
<1>2. ASSUME NEW a, NEW b, Holds(n, a), Holds(n + 1, b) PROVE Ahead(n, <<a, b>>)
  <2>1. ASSUME NEW k \in {1, 2} PROVE n + k - 1 \in DOMAIN buffer /\ buffer[n + k - 1].kind = <<a, b>>[k]
    BY <1>2 DEF Holds
  <2> QED BY <2>1 DEF Ahead
<1>3. ASSUME NEW a, NEW b, NEW c, Holds(n, a), Holds(n + 1, b), Holds(n + 2, c) PROVE Ahead(n, <<a, b, c>>)
  <2>1. ASSUME NEW k \in {1, 2, 3} PROVE n + k - 1 \in DOMAIN buffer /\ buffer[n + k - 1].kind = <<a, b, c>>[k]
    BY <1>3 DEF Holds
  <2> QED BY <2>1 DEF Ahead
<1> QED BY <1>1, <1>2, <1>3

\* What is wanted next is there: no byte is taken for a value of another kind.
LEMMA ReadsOn ==
  ASSUME NEW h \in Heaps, NEW met, Walk(h, met), Good(h, met), status = "read",
         NEW steps, NEW last, Complete(h, met, steps, last), Reading(h, met, steps, readers, turn, pos)
  PROVE  CanRead
<1>1. CASE readers = <<>>
  <2>1. roots = h.roots /\ turn \in 1..Len(roots) + 1 /\ Len(h.roots) \in Nat /\ pos \in 1..Len(buffer) + 1
    BY Program DEF Walk, Basic, Stage
  <2>2. CASE turn <= Len(h.roots)
    <3>1. Holds(pos, "byte") /\ pos \in Nat
      BY <1>1, <2>1, <2>2, GraphBegins DEF Reading
    <3>2. Ahead(pos, <<"byte">>)
      BY <3>1, AheadOf
    <3> QED BY <1>1, <2>1, <2>2, <3>2 DEF CanRead, BeginObject
  <2>3. CASE turn > Len(h.roots)
    BY <1>1, <2>1, <2>3 DEF CanRead
  <2> QED BY <2>1, <2>2, <2>3
<1>2. CASE readers # <<>>
  <2>1. PICK w \in steps : \E levels : w.turn = turn /\ Follow(h, met, w, levels, readers)
    BY <1>2 DEF Reading, Following
  <2>2. PICK levels : w.turn = turn /\ Follow(h, met, w, levels, readers)
    BY <2>1
  <2>3. r.offset \in Nat
    BY <1>2, AtWork
  <2>4. CASE r.cls = 0
    <3>1. Holds(r.offset, "int") /\ Holds(r.offset + 1, "int")
      BY <1>2, <2>2, <2>4, AtObject
    <3>2. Ahead(r.offset, <<"int">>) /\ Ahead(r.offset, <<"int", "int">>)
      BY <2>3, <3>1, AheadOf
    <3> QED BY <1>2, <2>4, <3>2 DEF CanRead, Entering
  <2>5. CASE r.cls # 0 /\ ~InLoop
    BY <1>2, <2>5 DEF CanRead
  <2>6. CASE r.cls # 0 /\ InLoop
    <3>0. r.dclr_pos <= Len(declared)
      BY <2>6 DEF InLoop
    <3> DEFINE type == declared[r.dclr_pos]
               a == About(w)
               at == r.offset
    <3>1. /\ Head(w.todo).type = type
          /\ type \in {"INT_PARM", "FLOAT_PARM", "INT_ARY_PARM", "CHAR_ARY_PARM", "OBJ_PARM"}
          /\ w.todo # <<>> /\ w.at = at /\ IsAt(Tokens(h, w), w.at)
      BY <1>2, <2>2, <2>6, <3>0, ReadyFor
    <3>2. /\ type = "INT_PARM" => Holds(at, "int")
          /\ type = "FLOAT_PARM" => Holds(at, "float")
          /\ type \in Arrays \cup {"OBJ_PARM"} => Holds(at, "byte") /\ (Read(at) = 0 <=> a = 0)
          /\ type \in Arrays /\ a # 0 =>
              /\ Holds(at + 1, "int") /\ Read(at + 1) = Numbering(w, a)
              /\ a \notin DOMAIN w.ids => Holds(at + 2, "array")
      BY <2>3, <3>1, TokensAt
    <3>3. Reads({type})
      BY <2>6 DEF Reads
    <3>4. \A set : type \in set => Reads(set)
      BY <2>6 DEF Reads
    <3> HIDE DEF type, a, at
    <3>5. CASE type = "INT_PARM"
      <4>1. Ahead1("int")
        BY <2>3, <3>2, <3>5, AheadOf DEF Ahead1, at
      <4> QED BY <3>3, <3>5, <4>1 DEF CanRead
    <3>6. CASE type = "FLOAT_PARM"
      <4>1. Ahead1("float")
        BY <2>3, <3>2, <3>6, AheadOf DEF Ahead1, at
      <4> QED BY <3>3, <3>6, <4>1 DEF CanRead
    <3>7. CASE type = "OBJ_PARM"
      <4>1. Ahead1("byte")
        BY <2>3, <3>2, <3>7, AheadOf DEF Ahead1, at
      <4> QED BY <3>3, <3>7, <4>1 DEF CanRead
    <3>8. CASE type \in Arrays
      <4>1. Ahead1("byte") /\ Reads(Arrays)
        BY <2>3, <3>2, <3>4, <3>8, AheadOf DEF Ahead1, at
      <4>2. CASE a = 0
        <5>1. Read(r.offset) = 0
          BY <3>2, <3>8, <4>2 DEF at
        <5> QED BY <4>1, <5>1 DEF CanRead
      <4>3. CASE a # 0
        <5>1. Holds(at, "byte") /\ Holds(at + 1, "int") /\ Read(at) # 0 /\ mem_id = Numbering(w, a)
              /\ (a \notin DOMAIN w.ids => Holds(at + 2, "array"))
          BY <3>2, <3>8, <4>3 DEF mem_id, at
        <5>2. Ahead(r.offset, <<"byte", "int">>) /\ Read(r.offset) # 0
          BY <2>3, <5>1, AheadOf DEF at
        <5>3. ASSUME mem_id < 0 PROVE Ahead(r.offset, <<"byte", "int", "array">>)
          <6>1. IsConfig(h, met, w)
            BY GoesToNext
          <6>2. a \notin DOMAIN w.ids
            <7> SUFFICES ASSUME a \in DOMAIN w.ids PROVE FALSE
              OBVIOUS
            <7>1. mem_id \in 1..w.next /\ w.next \in Nat
              BY <5>1, <6>1, Numbered
            <7> QED BY <5>3, <7>1
          <6> QED BY <2>3, <5>1, <6>2, AheadOf DEF at
        <5> QED BY <4>1, <5>2, <5>3 DEF CanRead
      <4> QED BY <4>2, <4>3
    <3>9. type \in {"INT_PARM", "FLOAT_PARM", "OBJ_PARM"} \cup Arrays
      BY <3>1 DEF Arrays
    <3> QED BY <3>5, <3>6, <3>7, <3>8, <3>9
  <2> QED BY <2>4, <2>5, <2>6
<1> QED BY <1>1, <1>2

-----------------------------------------------------------------------------
(* Both together *)

Exact(h, met) ==
  /\ status = "write" => Writing(h, met)
  /\ status = "read" =>
       \E steps, last : Complete(h, met, steps, last) /\ Reading(h, met, steps, readers, turn, pos)
  /\ status = "done" => pos = Len(buffer) + 1
  /\ status # "garbled"

\* A step of the reader inside a graph.
LEMMA InsideGraph ==
  ASSUME NEW h \in Heaps, NEW met, Walk(h, met), Good(h, met), status = "read", readers # <<>>,
         NEW steps, NEW last, Complete(h, met, steps, last), Reading(h, met, steps, readers, turn, pos),
         ReadNext
  PROVE  Reading(h, met, steps, readers', turn', pos') /\ buffer' = buffer /\ status' = "read"
<1>0. ASSUME NEW v \in steps, v.turn = turn, NEW lv, Returned(h, met, steps, v, lv)
      PROVE  Reading(h, met, steps, readers', turn', pos')
  BY <1>0 DEF Returned, Reading, Following
<1>1. PICK w \in steps : \E levels : w.turn = turn /\ Follow(h, met, w, levels, readers)
  BY DEF Reading, Following
<1>2. PICK levels : w.turn = turn /\ Follow(h, met, w, levels, readers)
  BY <1>1
<1>3. CASE DeserializeObject \/ EndDeserialize
  BY <1>3 DEF DeserializeObject, BeginObject, EndDeserialize
<1>4. CASE AllocateObject
  BY <1>2, <1>4, NewObject DEF AllocateObject, control, writer, Reading, Following
<1>5. CASE KnownObject
  <2>1. r.cls = 0 /\ status = "read"
    BY <1>5 DEF KnownObject, Entering
  <2>2. After(h, w) \in steps /\ w.todo # <<>> /\ IsSeq(Tail(w.todo))
    BY <1>2, <2>1, AtObject
  <2>3. After(h, w).turn = turn
    BY <1>2, <2>2, AfterIs
  <2>4. Returned(h, met, steps, After(h, w), levels)
    BY <1>2, <1>5, OldObject
  <2> QED BY <1>0, <1>5, <2>2, <2>3, <2>4 DEF KnownObject, writer
<1>6. CASE NoClass
  <2>1. r.cls = 0 /\ ~IsClass
    BY <1>6 DEF NoClass, Entering
  <2>2. IsClass
    BY <1>2, <2>1, AtObject DEF IsClass
  <2> QED BY <2>1, <2>2
<1>7. CASE DeserializeValue \/ Nil \/ AllocateArray \/ KnownArray
  <2>2. /\ After(h, w) \in steps /\ After(h, w).turn = turn'
        /\ Follow(h, met, After(h, w), levels, readers') /\ readers' # <<>>
    BY <1>2, <1>7, VariableRead
  <2>1. Following(h, met, steps, readers', turn') /\ readers' # <<>>
    BY <2>2 DEF Following
  <2>3. buffer' = buffer /\ status' = "read"
    BY <1>7 DEF DeserializeValue, Nil, AllocateArray, KnownArray, writer, control
  <2> QED BY <2>1, <2>3 DEF Reading
<1>8. CASE DeserializeInner
  BY <1>2, <1>8, InnerBegins DEF DeserializeInner, control, writer, Reading, Following
<1>9. CASE PassOver
  <2>1. r.cls # 0 /\ r.dclr_pos <= Len(declared) /\ declared[r.dclr_pos] = "OBJ_ARY_PARM"
    BY <1>9 DEF PassOver, Reads, InLoop
  <2>2. declared[r.dclr_pos] \in {"INT_PARM", "FLOAT_PARM", "INT_ARY_PARM", "CHAR_ARY_PARM", "OBJ_PARM"}
    BY <1>2, <2>1, ReadyFor
  <2> QED BY <2>1, <2>2
<1>10. CASE EndObject
  BY <1>0, <1>2, <1>10, ObjectEnds DEF EndObject, writer
<1> QED BY <1>3, <1>4, <1>5, <1>6, <1>7, <1>8, <1>9, <1>10 DEF ReadNext

\* Reader and writer stay in step.
LEMMA ExactStep ==
  ASSUME NEW h \in Heaps, NEW met, Walk(h, met), Good(h, met), Exact(h, met), Walk(h, met)', NumberInv',
         [Next]_vars
  PROVE  Exact(h, met)'
<1>1. CASE SerializeInt \/ SerializeFloat \/ SerializeArray \/ CheckObject \/ SkipDeclaration
  <2>1. status = "write" /\ status' = "write"
    BY <1>1 DEF SerializeInt, SerializeFloat, SerializeArray, CheckObject, SkipDeclaration, control, Due
  <2>2. Writing(h, met)
    BY <2>1 DEF Exact
  <2>3. Writing(h, met)'
    BY <1>1, <2>2, WritingGoesOn
  <2> QED BY <2>1, <2>3 DEF Exact
<1>2. CASE EndSerialize
  <2>1. status = "write" /\ status' \in {"write", "read"}
    BY <1>2 DEF EndSerialize
  <2>2. Writing(h, met)
    BY <2>1 DEF Exact
  <2>3. /\ status' = "write" => Writing(h, met)'
        /\ status' # "write" => /\ \E steps, last : Complete(h, met, steps, last)'
                                /\ status' = "read" /\ turn' = 1 /\ readers' = <<>> /\ pos' = 1
    BY <1>2, <2>2, WritingEnds
  <2>4. CASE status' = "write"
    BY <2>3, <2>4 DEF Exact
  <2>5. CASE status' = "read"
    <3>1. PICK steps, last : Complete(h, met, steps, last)'
      BY <2>3, <2>5
    <3>2. First(h) \in steps
      BY <3>1 DEF Complete, Script
    <3>3. 1 <= Len(h.roots)
      BY Program
    <3>4. GraphRead(h, steps, 1, 1)'
      BY <3>2, <3>3 DEF GraphRead, Begins, First
    <3>5. Reading(h, met, steps, readers, turn, pos)'
      BY <2>3, <2>5, <3>4 DEF Reading, GraphRead
    <3> QED BY <2>5, <3>1, <3>5 DEF Exact
  <2> QED BY <2>1, <2>4, <2>5
<1>3. CASE ReadNext
  <2>1. status = "read"
    BY <1>3 DEF ReadNext, DeserializeObject, BeginObject, EndDeserialize, AllocateObject, KnownObject, NoClass,
                Entering, DeserializeValue, Nil, AllocateArray, KnownArray, DeserializeInner, PassOver, EndObject,
                Refers, Reads, InLoop
  <2>2. PICK steps, last : Complete(h, met, steps, last) /\ Reading(h, met, steps, readers, turn, pos)
    BY <2>1 DEF Exact
  <2>3. ASSUME buffer' = buffer, status' = "read", Reading(h, met, steps, readers', turn', pos')
        PROVE  Exact(h, met)'
    <3>1. Complete(h, met, steps, last)'
      BY <2>2, <2>3 DEF Complete, Script, IsAt
    <3>2. Reading(h, met, steps, readers, turn, pos)'
      BY <2>3 DEF Reading, GraphRead
    <3> QED BY <2>3, <3>1, <3>2 DEF Exact
  <2>4. CASE readers # <<>>
    <3>1. Reading(h, met, steps, readers', turn', pos') /\ buffer' = buffer /\ status' = "read"
      BY <1>3, <2>1, <2>2, <2>4, InsideGraph
    <3> QED BY <2>3, <3>1
  <2>5. CASE readers = <<>>
    <3>1. DeserializeObject \/ EndDeserialize
      BY <1>3, <2>5 DEF ReadNext, AllocateObject, KnownObject, NoClass, Entering, DeserializeValue, Nil,
                        AllocateArray, KnownArray, DeserializeInner, PassOver, EndObject, Refers, Reads, InLoop
    <3>2. roots = h.roots /\ turn \in 1..Len(roots) + 1 /\ Len(h.roots) \in Nat
      BY <2>1, Program DEF Walk, Basic, Stage
    <3>3. GraphRead(h, steps, turn, pos)
      BY <2>2, <2>5 DEF Reading
    <3>4. CASE DeserializeObject
      <4>1. turn <= Len(h.roots) /\ buffer' = buffer /\ status' = "read"
        BY <2>1, <3>2, <3>4 DEF DeserializeObject, BeginObject, writer
      <4>2. Reading(h, met, steps, readers', turn', pos')
        <5>1. CASE Read(pos) = 0
          BY <2>1, <2>2, <2>5, <3>3, <3>4, <4>1, <5>1, GraphBegins DEF Reading
        <5>2. CASE Read(pos) # 0
          <6>1. /\ readers' # <<>> /\ turn' = turn /\ Begins(h, turn, pos) \in steps
                /\ Follow(h, met, Begins(h, turn, pos), Level(<<>>, 1, h.roots[turn], <<>>), readers')
            BY <2>1, <2>2, <2>5, <3>3, <3>4, <4>1, <5>2, GraphBegins
          <6>2. Begins(h, turn, pos).turn = turn
            BY DEF Begins, Config
          <6> QED BY <6>1, <6>2 DEF Reading, Following
        <5> QED BY <5>1, <5>2
      <4> QED BY <2>3, <4>1, <4>2
    <3>5. CASE EndDeserialize
      <4>1. turn > Len(h.roots) /\ status' = "done" /\ buffer' = buffer /\ pos' = pos
        BY <3>2, <3>5 DEF EndDeserialize, writer, reader
      <4>2. pos = Len(buffer) + 1
        BY <3>2, <3>3, <4>1 DEF GraphRead
      <4> QED BY <4>1, <4>2 DEF Exact
    <3> QED BY <3>1, <3>4, <3>5
  <2> QED BY <2>4, <2>5
<1>4. CASE Garble
  <2>1. status = "read" /\ ~CanRead
    BY <1>4 DEF Garble
  <2>2. PICK steps, last : Complete(h, met, steps, last) /\ Reading(h, met, steps, readers, turn, pos)
    BY <2>1 DEF Exact
  <2> QED BY <2>1, <2>2, ReadsOn
<1>5. CASE UNCHANGED vars
  <2>1. /\ turn' = turn /\ status' = status /\ buffer' = buffer /\ todo' = todo /\ serial_ids' = serial_ids
        /\ next_id' = next_id /\ pos' = pos /\ readers' = readers
    BY <1>5 DEF vars, control, writer, reader
  <2>2. Writing(h, met) => Writing(h, met)'
    BY <2>1 DEF Writing, Script, IsAt, Current
  <2>3. ASSUME NEW steps, NEW last, Complete(h, met, steps, last), Reading(h, met, steps, readers, turn, pos)
        PROVE  Complete(h, met, steps, last)' /\ Reading(h, met, steps, readers, turn, pos)'
    BY <2>1, <2>3 DEF Complete, Script, IsAt, Reading, GraphRead
  <2>4. CASE status = "read"
    <3>1. PICK steps, last : Complete(h, met, steps, last) /\ Reading(h, met, steps, readers, turn, pos)
      BY <2>4 DEF Exact
    <3>2. Complete(h, met, steps, last)' /\ Reading(h, met, steps, readers, turn, pos)'
      BY <2>3, <3>1
    <3> QED BY <2>1, <2>4, <3>2 DEF Exact
  <2>5. CASE status # "read"
    BY <2>1, <2>2, <2>5 DEF Exact
  <2> QED BY <2>4, <2>5
<1>6. CASE Stay
  BY <1>5, <1>6 DEF Stay
<1> QED BY <1>1, <1>2, <1>3, <1>4, <1>5, <1>6 DEF Next, Write

\* At first nothing is written.
LEMMA ExactStarts ==
  ASSUME NEW h \in Heaps, NEW met, Walk(h, met), NumberInv, status = "write", turn = 1, buffer = <<>>,
         todo = Wanted(h.roots[1]), serial_ids = << >>, next_id = 0
  PROVE  Exact(h, met)
<1>1. PICK w : w = Current
  OBVIOUS
<1>2. Len(buffer) + 1 = 1
  BY ShortList
<1>3. w = First(h)
  BY <1>1, <1>2 DEF Current, First
<1>4. IsConfig(h, met, w)
  <2>1. w.turn = 1 /\ w.todo = todo /\ w.next = 0 /\ w.ids = << >> /\ w.at = 1 /\ DOMAIN << >> = {}
    BY <1>3 DEF First, Config
  <2>2. IsSeq(todo) /\ \A n \in DOMAIN todo : Fits(h, met, todo[n])
    BY DEF Walk, Basic, Fitting
  <2>3. 1 \in DOMAIN h.roots
    BY Program
  <2>4. DOMAIN w.ids = {}
    BY <2>1
  <2> QED BY <2>1, <2>2, <2>3, <2>4 DEF IsConfig
<1>5. Script(h, met, {w}, w)
  BY <1>3, <1>4 DEF Script
<1> QED BY <1>1, <1>5 DEF Exact, Writing

-----------------------------------------------------------------------------
(* Where the variables of an object are *)

Advances == INSTANCE FoldTheorems WITH Op <- Advance
Adds     == INSTANCE FoldTheorems WITH Op <- AddSize
Spreads  == INSTANCE FoldTheorems WITH Op <- Spread
Grows    == INSTANCE FoldTheorems WITH Op <- Grow

\* The folds of the serializer are those FoldTheorems is about.
LEMMA Folds ==
  ASSUME NEW c, NEW s
  PROVE  /\ FoldLeft(Advance, c, s) = Advances!Left(c, s)
         /\ FoldLeft(AddSize, c, s) = Adds!Left(c, s)
         /\ FoldLeft(Spread, c, s) = Spreads!Left(c, s)
         /\ FoldLeft(Grow, c, s) = Grows!Left(c, s)
<1>1. FoldLeft(Advance, c, s) = Advances!Left(c, s)
  BY DEF FoldLeft, MapThenFoldSet, Max,
         Advances!Left, Advances!FoldLeft, Advances!MapThenFoldSet, Advances!Max
<1>2. FoldLeft(AddSize, c, s) = Adds!Left(c, s)
  BY DEF FoldLeft, MapThenFoldSet, Max, Adds!Left, Adds!FoldLeft, Adds!MapThenFoldSet, Adds!Max
<1>3. FoldLeft(Spread, c, s) = Spreads!Left(c, s)
  BY DEF FoldLeft, MapThenFoldSet, Max, Spreads!Left, Spreads!FoldLeft, Spreads!MapThenFoldSet, Spreads!Max
<1>4. FoldLeft(Grow, c, s) = Grows!Left(c, s)
  BY DEF FoldLeft, MapThenFoldSet, Max, Grows!Left, Grows!FoldLeft, Grows!MapThenFoldSet, Grows!Max
<1> QED BY <1>1, <1>2, <1>3, <1>4

\* The first k of a list.
Upto(list, k) == SubSeq(list, 1, k)

\* What the first variables move on by, their words, and the types of these.
Ahead0(types, k) == FoldLeft(Advance, 0, Upto(types, k))
Words0(types, k) == FoldLeft(AddSize, 0, Upto(types, k))
Types0(types, k) == FoldLeft(Spread, <<>>, Upto(types, k))

\* None of them.
LEMMA NoneOf ==
  ASSUME NEW types, IsSeq(types)
  PROVE  Ahead0(types, 0) = 0 /\ Words0(types, 0) = 0 /\ Types0(types, 0) = <<>>
<1> DEFINE s == Upto(types, 0)
<1>1. Len(types) \in Nat
  BY SeqHas
<1>2. IsSeq(s) /\ Len(s) = 0 - 1 + 1
  BY <1>1, PartOf DEF Upto
<1> HIDE DEF s
<1>3. DOMAIN s = {}
  <2>1. Len(s) = 0 /\ DOMAIN s = 1..Len(s)
    BY <1>2, SeqHas
  <2> QED BY <2>1
<1>4. Advances!Left(0, s) = 0 /\ Adds!Left(0, s) = 0 /\ Spreads!Left(<<>>, s) = <<>>
  BY <1>3, Advances!LeftEmpty, Adds!LeftEmpty, Spreads!LeftEmpty
<1> QED BY <1>4, Folds DEF Ahead0, Words0, Types0, s

\* One more of them.
LEMMA OneMoreOf ==
  ASSUME NEW types, IsSeq(types), NEW k \in Nat, k + 1 <= Len(types)
  PROVE  /\ Ahead0(types, k + 1) = Advance(Ahead0(types, k), types[k + 1])
         /\ Words0(types, k + 1) = AddSize(Words0(types, k), types[k + 1])
         /\ Types0(types, k + 1) = Spread(Types0(types, k), types[k + 1])
<1> DEFINE s == Upto(types, k)
           t == Upto(types, k + 1)
           x == types[k + 1]
<1>1. Len(types) \in Nat /\ k <= Len(types) /\ k - 1 + 1 = k /\ (k + 1) - 1 + 1 = k + 1
  BY SeqHas
<1>2. IsSeq(s) /\ Len(s) = k /\ \A n \in 1..k : s[n] = types[n]
  <2>1. IsSeq(s) /\ Len(s) = k - 1 + 1
    BY <1>1, PartOf DEF Upto
  <2>2. \A n \in 1..(k - 1 + 1) : s[n] = types[1 + n - 1]
    BY <1>1, PartOf DEF Upto
  <2> HIDE DEF s
  <2> QED BY <1>1, <2>1, <2>2
<1>3. IsSeq(t) /\ Len(t) = k + 1 /\ \A n \in 1..(k + 1) : t[n] = types[n]
  <2>1. IsSeq(t) /\ Len(t) = (k + 1) - 1 + 1
    BY <1>1, PartOf DEF Upto
  <2>2. \A n \in 1..((k + 1) - 1 + 1) : t[n] = types[1 + n - 1]
    BY <1>1, PartOf DEF Upto
  <2> HIDE DEF t
  <2> QED BY <1>1, <2>1, <2>2
<1> HIDE DEF s, t
<1>4. DOMAIN s = 1..k /\ DOMAIN t = 1..(k + 1)
  BY <1>2, <1>3, SeqHas
<1>5. t[k + 1] = x /\ \A n \in 1..k : t[n] = s[n]
  BY <1>2, <1>3
<1> HIDE DEF x
<1>6. Advances!Left(0, t) = Advance(Advances!Left(0, s), x)
  BY <1>4, <1>5, Advances!LeftLast
<1>7. Adds!Left(0, t) = AddSize(Adds!Left(0, s), x)
  BY <1>4, <1>5, Adds!LeftLast
<1>8. Spreads!Left(<<>>, t) = Spread(Spreads!Left(<<>>, s), x)
  BY <1>4, <1>5, Spreads!LeftLast
<1> QED BY <1>6, <1>7, <1>8, Folds DEF Ahead0, Words0, Types0, s, t, x

\* A variable begins behind the words of those in front of it.
LEMMA Layout ==
  ASSUME NEW types, IsSeq(types), NEW k \in Nat, k <= Len(types)
  PROVE  /\ IsSeq(Types0(types, k)) /\ Len(Types0(types, k)) = Words0(types, k) /\ Words0(types, k) \in Nat
         /\ \A j \in 1..k : Words0(types, j - 1) \in Nat
         /\ \A j \in 1..k : \A i \in 1..Size(types[j]) :
              /\ Words0(types, j - 1) + i <= Words0(types, k)
              /\ Types0(types, k)[Words0(types, j - 1) + i] = types[j]
<1> DEFINE Fine(n) ==
      /\ IsSeq(Types0(types, n)) /\ Len(Types0(types, n)) = Words0(types, n) /\ Words0(types, n) \in Nat
      /\ \A j \in 1..n : Words0(types, j - 1) \in Nat
      /\ \A j \in 1..n : \A i \in 1..Size(types[j]) :
           /\ Words0(types, j - 1) + i <= Words0(types, n)
           /\ Types0(types, n)[Words0(types, j - 1) + i] = types[j]
      S == {n \in Nat : n <= Len(types) => Fine(n)}
<1>0. Len(types) \in Nat
  BY SeqHas
<1>1. 0 \in S
  BY NoneOf, ShortList
<1>2. ASSUME NEW n \in Nat, n \in S PROVE n + 1 \in S
  <2> SUFFICES ASSUME n + 1 <= Len(types) PROVE Fine(n + 1)
    OBVIOUS
  <2>1. Fine(n)
    BY <1>0, <1>2
  <2> DEFINE list == Types0(types, n)
             more == Types0(types, n + 1)
             size == Words0(types, n)
             x    == types[n + 1]
             tail == [i \in 1..Size(x) |-> x]
  <2>2. /\ IsSeq(list) /\ Len(list) = size /\ size \in Nat
        /\ \A j \in 1..n : Words0(types, j - 1) \in Nat
        /\ \A j \in 1..n : \A i \in 1..Size(types[j]) :
             /\ Words0(types, j - 1) + i <= size /\ list[Words0(types, j - 1) + i] = types[j]
    BY <2>1
  <2>3. more = list \o tail /\ Words0(types, n + 1) = size + Size(x)
    BY OneMoreOf DEF Spread, AddSize
  <2>4. Size(x) \in Nat /\ Size(x) >= 1
    BY DEF Size
  <2>5. IsSeq(tail) /\ Len(tail) = Size(x) /\ \A i \in 1..Size(x) : tail[i] = x
    <3>1. tail = [i \in 1..Size(x) |-> tail[i]] /\ \A i \in 1..Size(x) : tail[i] = x
      BY <2>4
    <3> HIDE DEF tail
    <3> QED BY <2>4, <3>1, ListIs
  <2> HIDE DEF list, more, size, x, tail, Fine
  <2>12. IsSeq(list) /\ IsSeq(tail) /\ more = list \o tail
    BY <2>2, <2>3, <2>5
  <2>6. IsSeq(more) /\ Len(more) = Len(list) + Len(tail)
    BY <2>12, Joined
  <2>7. \A i \in 1..Len(list) : more[i] = list[i]
    BY <2>12, Joined
  <2>8. \A i \in 1..Len(tail) : more[Len(list) + i] = tail[i]
    BY <2>12, Joined
  <2>9. ASSUME NEW i \in 1..Size(x) PROVE more[size + i] = x
    <3>1. i \in 1..Len(tail)
      BY <2>5
    <3>2. more[Len(list) + i] = tail[i]
      BY <2>8, <3>1
    <3> QED BY <2>2, <2>5, <3>2
  <2>10. Len(more) = size + Size(x) /\ size + Size(x) \in Nat
    BY <2>2, <2>4, <2>5, <2>6
  <2>11. ASSUME NEW j \in 1..(n + 1)
         PROVE  /\ Words0(types, j - 1) \in Nat
                /\ \A i \in 1..Size(types[j]) : /\ Words0(types, j - 1) + i <= size + Size(x)
                                                /\ more[Words0(types, j - 1) + i] = types[j]
    <3>1. CASE j = n + 1
      <4>1. j - 1 = n
        BY <3>1
      <4>2. Words0(types, j - 1) = size
        BY <4>1 DEF size
      <4>3. types[j] = x
        BY <3>1 DEF x
      <4> QED BY <2>2, <2>4, <2>9, <4>2, <4>3
    <3>2. CASE j \in 1..n
      <4> DEFINE f == Words0(types, j - 1)
      <4>1. f \in Nat
        BY <2>2, <3>2
      <4>5. \A i \in 1..Size(types[j]) : f + i <= size /\ list[f + i] = types[j]
        BY <2>2, <3>2
      <4> HIDE DEF f
      <4>4. ASSUME NEW i \in 1..Size(types[j]) PROVE f + i <= size + Size(x) /\ more[f + i] = types[j]
        <5>1. f + i <= size /\ list[f + i] = types[j]
          BY <4>5
        <5>2. i \in Nat /\ i >= 1
          BY DEF Size
        <5>3. f + i \in 1..Len(list) /\ f + i <= size + Size(x)
          BY <2>2, <2>4, <4>1, <5>1, <5>2
        <5> QED BY <2>7, <5>1, <5>3
      <4> QED BY <4>1, <4>4 DEF f
    <3> QED BY <3>1, <3>2
  <2> QED BY <2>3, <2>6, <2>10, <2>11 DEF more, Fine
<1>3. k \in S
  <2> HIDE DEF S
  <2> QED BY <1>1, <1>2, Adds!SetInduction
<1> QED BY <1>3

\* Without arrays of objects the serializer comes to where it begins.
LEMMA InPlace ==
  ASSUME NEW types, IsSeq(types), \A n \in 1..Len(types) : types[n] # "OBJ_ARY_PARM",
         NEW k \in Nat, k <= Len(types)
  PROVE  Ahead0(types, k) = Words0(types, k)
<1> DEFINE S == {n \in Nat : n <= Len(types) => Ahead0(types, n) = Words0(types, n)}
<1>0. Len(types) \in Nat
  BY SeqHas
<1>1. 0 \in S
  BY NoneOf
<1>2. ASSUME NEW n \in Nat, n \in S PROVE n + 1 \in S
  <2> SUFFICES ASSUME n + 1 <= Len(types) PROVE Ahead0(types, n + 1) = Words0(types, n + 1)
    OBVIOUS
  <2>1. Ahead0(types, n) = Words0(types, n) /\ n + 1 \in 1..Len(types)
    BY <1>0, <1>2
  <2>2. Step(types[n + 1]) = Size(types[n + 1])
    BY <2>1 DEF Step, Size
  <2> QED BY <2>1, <2>2, OneMoreOf DEF Advance, AddSize
<1>3. k \in S
  <2> HIDE DEF S
  <2> QED BY <1>1, <1>2, Adds!SetInduction
<1> QED BY <1>3

\* All of a list.
LEMMA AllOf ==
  ASSUME NEW types, IsSeq(types)
  PROVE  /\ Upto(types, Len(types)) = types
         /\ Words(types) = Words0(types, Len(types))
         /\ FoldLeft(Spread, <<>>, types) = Types0(types, Len(types))
         /\ \A n : Place(types, n) = 1 + Ahead0(types, n - 1)
<1> DEFINE all == Upto(types, Len(types))
<1>1. Len(types) \in Nat
  BY SeqHas
<1>2. IsSeq(all) /\ Len(all) = Len(types) - 1 + 1
  BY <1>1, PartOf DEF Upto
<1>3. \A n \in 1..(Len(types) - 1 + 1) : all[n] = types[1 + n - 1]
  BY <1>1, PartOf DEF Upto
<1> HIDE DEF all
<1>4. Len(all) = Len(types) /\ \A n \in 1..Len(all) : all[n] = types[n]
  BY <1>1, <1>2, <1>3
<1>5. all = types
  BY <1>2, <1>4, SameSeq, SMTT(30)
<1> QED BY <1>5 DEF Words, Words0, Types0, Place, Ahead0, Upto, all

\* The words of an object, and where those of its variables are.
LEMMA ObjectWords ==
  ASSUME NEW h \in Heaps, NEW b \in DOMAIN h.heap, NEW block, block = h.heap[b], block.cls # 0,
         NEW types, types = Classes[block.cls], NEW all, all = WordTypes(block.cls)
  PROVE  /\ IsSeq(types) /\ Len(types) \in Nat /\ DOMAIN types = 1..Len(types)
         /\ IsSeq(block.mem) /\ Len(block.mem) = Words(types) /\ Words(types) \in Nat
         /\ DOMAIN block.mem = 1..Words(types) /\ DOMAIN all = 1..Words(types)
         /\ \A i \in DOMAIN block.mem : block.mem[i] \in Values(all[i], h.heap)
         /\ \A j \in 1..Len(types) : /\ Words0(types, j - 1) \in Nat /\ Words0(types, j - 1) + 1 <= Words(types)
                                     /\ all[Words0(types, j - 1) + 1] = types[j]
         /\ \A j \in 1..Len(types) : \A i \in 1..Size(types[j]) :
              /\ Words0(types, j - 1) + i <= Words(types) /\ all[Words0(types, j - 1) + i] = types[j]
<1>1. block.cls \in DOMAIN Classes /\ block.mem \in Seq(Int)
  <2>1. block \in [cls : {0} \cup DOMAIN Classes, mem : Seq(Int)]
    BY Program
  <2> QED BY <2>1
<1>2. IsSeq(types)
  BY <1>1, SerializerAssumption DEF IsSeq
<1>3. Len(types) \in Nat /\ DOMAIN types = 1..Len(types)
  BY <1>2, SeqHas
<1>4. /\ Len(block.mem) = Words(types)
      /\ \A i \in DOMAIN block.mem : block.mem[i] \in Values(all[i], h.heap)
  BY HeapsAssumption
<1>5. PICK k : k = Len(types)
  OBVIOUS
<1>6. k \in Nat /\ k <= Len(types)
  BY <1>3, <1>5
<1>7. all = Types0(types, k) /\ Words(types) = Words0(types, k)
  BY <1>2, <1>5, AllOf DEF WordTypes
<1>8. IsSeq(all) /\ Len(all) = Words(types) /\ Words(types) \in Nat
  BY <1>2, <1>6, <1>7, Layout
<1>9. \A j \in 1..k : \A i \in 1..Size(types[j]) :
        /\ Words0(types, j - 1) + i <= Words0(types, k)
        /\ Types0(types, k)[Words0(types, j - 1) + i] = types[j]
  BY <1>2, <1>6, Layout
<1>10. \A j \in 1..k : Words0(types, j - 1) \in Nat
  BY <1>2, <1>6, Layout
<1>11. \A j \in 1..Len(types) : \A i \in 1..Size(types[j]) :
         /\ Words0(types, j - 1) + i <= Words(types) /\ all[Words0(types, j - 1) + i] = types[j]
  BY <1>5, <1>7, <1>9
<1>12. DOMAIN all = 1..Len(all)
  BY <1>8, SeqHas
<1>13. IsSeq(block.mem) /\ DOMAIN block.mem = 1..Len(block.mem)
  BY <1>1 DEF IsSeq
<1>14. DOMAIN block.mem = 1..Words(types) /\ DOMAIN all = 1..Words(types)
  BY <1>4, <1>8, <1>12, <1>13
<1>15. \A j \in 1..Len(types) : /\ Words0(types, j - 1) \in Nat /\ Words0(types, j - 1) + 1 <= Words(types)
                                /\ all[Words0(types, j - 1) + 1] = types[j]
  <2> SUFFICES ASSUME NEW j \in 1..Len(types)
               PROVE  /\ Words0(types, j - 1) \in Nat /\ Words0(types, j - 1) + 1 <= Words(types)
                      /\ all[Words0(types, j - 1) + 1] = types[j]
    OBVIOUS
  <2>1. 1 \in 1..Size(types[j])
    BY DEF Size
  <2> QED BY <1>5, <1>10, <1>11, <2>1
<1> QED BY <1>2, <1>3, <1>4, <1>8, <1>13, <1>14, <1>15, <1>11, Zenon

\* An array of objects among the variables is one among the words.
LEMMA NoneDeclared ==
  ASSUME NEW h \in Heaps, NEW b \in DOMAIN h.heap, NEW block, block = h.heap[b], block.cls # 0,
         NEW types, types = Classes[block.cls],
         "OBJ_ARY_PARM" \notin Range(WordTypes(block.cls)), NEW j \in DOMAIN types
  PROVE  types[j] # "OBJ_ARY_PARM"
<1>1. PICK all : all = WordTypes(block.cls)
  OBVIOUS
<1>2. PICK i : i = Words0(types, j - 1)
  OBVIOUS
<1>3. /\ DOMAIN types = 1..Len(types) /\ DOMAIN all = 1..Words(types) /\ Words(types) \in Nat
      /\ \A n \in 1..Len(types) : /\ Words0(types, n - 1) \in Nat /\ Words0(types, n - 1) + 1 <= Words(types)
                                  /\ all[Words0(types, n - 1) + 1] = types[n]
  BY <1>1, ObjectWords
<1>4. i \in Nat /\ i + 1 <= Words(types) /\ all[i + 1] = types[j]
  BY <1>2, <1>3
<1>5. i + 1 \in DOMAIN all
  BY <1>3, <1>4
<1> QED BY <1>1, <1>4, <1>5 DEF Range

\* The word of a variable that is a reference, of an object without arrays of objects.
LEMMA VariableWord ==
  ASSUME NEW h \in Heaps, NEW b \in DOMAIN h.heap, NEW block, block = h.heap[b], block.cls # 0,
         NEW types, types = Classes[block.cls],
         "OBJ_ARY_PARM" \notin Range(WordTypes(block.cls)),
         NEW n \in DOMAIN types, types[n] \in Arrays \cup {"OBJ_PARM"}
  PROVE  \E p \in References(block) : /\ block.mem[p] \in Values(types[n], h.heap)
                                      /\ Items(block)[n].type = types[n]
                                      /\ Items(block)[n].words[1] = block.mem[p]
<1>1. PICK all : all = WordTypes(block.cls)
  OBVIOUS
<1>2. PICK p : p = Words0(types, n - 1) + 1
  OBVIOUS
<1>3. IsSeq(types) /\ Len(types) \in Nat /\ DOMAIN types = 1..Len(types)
  BY <1>1, ObjectWords
<1>4. IsSeq(block.mem) /\ Len(block.mem) = Words(types) /\ Words(types) \in Nat /\ DOMAIN block.mem = 1..Words(types)
  BY <1>1, ObjectWords
<1>5. \A i \in DOMAIN block.mem : block.mem[i] \in Values(all[i], h.heap)
  BY <1>1, ObjectWords
<1>6. /\ Words0(types, n - 1) \in Nat /\ Words0(types, n - 1) + 1 <= Words(types)
      /\ all[Words0(types, n - 1) + 1] = types[n]
  <2>1. n \in 1..Len(types)
    BY <1>3
  <2>2. \A j \in 1..Len(types) : /\ Words0(types, j - 1) \in Nat /\ Words0(types, j - 1) + 1 <= Words(types)
                                 /\ all[Words0(types, j - 1) + 1] = types[j]
    BY <1>1, ObjectWords
  <2> QED BY <2>1, <2>2
<1>7. p \in Nat /\ p <= Words(types) /\ p >= 1 /\ all[p] = types[n]
  BY <1>2, <1>6
<1>8. p \in DOMAIN block.mem
  BY <1>4, <1>7
<1>9. block.mem[p] \in Values(types[n], h.heap)
  BY <1>5, <1>7, <1>8
<1>10. p \in References(block)
  BY <1>1, <1>7, <1>8 DEF References, Reference
<1>11. Place(types, n) = p
  <2>1. Place(types, n) = 1 + Ahead0(types, n - 1)
    BY <1>3, AllOf
  <2>2. n - 1 \in Nat /\ n - 1 <= Len(types)
    BY <1>3
  <2>3. \A j \in 1..Len(types) : types[j] # "OBJ_ARY_PARM"
    BY <1>3, NoneDeclared
  <2>4. Ahead0(types, n - 1) = Words0(types, n - 1)
    BY <1>3, <2>2, <2>3, InPlace
  <2> QED BY <1>2, <1>6, <2>1, <2>4
<1>12. Step(types[n]) = 1
  BY DEF Step, Arrays
<1>13. PICK words : words = SubSeq(block.mem, p, p)
  OBVIOUS
<1>14. Items(block)[n] = Item(types[n], words)
  <2>1. Items(block)[n] = Item(types[n], SubSeq(block.mem, Place(types, n), Place(types, n) + Step(types[n]) - 1))
    BY DEF Items
  <2>2. Place(types, n) + Step(types[n]) - 1 = p
    BY <1>7, <1>11, <1>12
  <2> QED BY <1>11, <1>13, <2>1, <2>2
<1>15. words[1] = block.mem[p]
  <2>1. p <= Len(block.mem) /\ p \in 1..(p + 1)
    BY <1>4, <1>7
  <2>2. \A i \in 1..(p - p + 1) : SubSeq(block.mem, p, p)[i] = block.mem[p + i - 1]
    BY <1>4, <1>7, <2>1, PartOf
  <2>3. 1 \in 1..(p - p + 1) /\ p + 1 - 1 = p
    BY <1>7
  <2> QED BY <1>13, <2>2, <2>3
<1>16. Items(block)[n].type = types[n] /\ Items(block)[n].words[1] = block.mem[p]
  BY <1>14, <1>15 DEF Item
<1> QED BY <1>9, <1>10, <1>16

-----------------------------------------------------------------------------
(* The blocks a graph consists of *)

\* What a set of blocks grows to in k rounds.
Rounds(g, a, k) == FoldLeft(Grow, {a}, [n \in 1..k |-> g])

\* No round, and one more.
LEMMA RoundsAre ==
  ASSUME NEW g, NEW a, NEW k \in Nat
  PROVE  Rounds(g, a, 0) = {a} /\ Rounds(g, a, k + 1) = Grow(Rounds(g, a, k), g)
<1> DEFINE s == [n \in 1..k |-> g]
           t == [n \in 1..(k + 1) |-> g]
           none == [n \in 1..0 |-> g]
<1>1. DOMAIN none = {} /\ DOMAIN s = 1..k /\ DOMAIN t = 1..(k + 1)
  OBVIOUS
<1>2. (\A n \in 1..k : t[n] = s[n]) /\ t[k + 1] = g
  OBVIOUS
<1> HIDE DEF s, t, none
<1>3. Grows!Left({a}, none) = {a}
  BY <1>1, Grows!LeftEmpty
<1>4. Grows!Left({a}, t) = Grow(Grows!Left({a}, s), g)
  BY <1>1, <1>2, Grows!LeftLast
<1> QED BY <1>3, <1>4, Folds DEF Rounds, s, t, none

\* The blocks of a set refer to blocks of the set.
Within(g, set) == \A b \in set : \A i \in References(g[b]) : g[b].mem[i] # 0 => g[b].mem[i] \in set

\* Old blocks refer to old blocks.
LEMMA OldWithin ==
  ASSUME NEW h \in Heaps, NEW g, Keeps(h, g)
  PROVE  Within(g, DOMAIN h.heap)
<1>1. ASSUME NEW b \in DOMAIN h.heap, NEW i \in References(g[b]), g[b].mem[i] # 0 PROVE g[b].mem[i] \in DOMAIN h.heap
  <2>1. PICK block : block = h.heap[b]
    OBVIOUS
  <2>2. g[b] = block
    BY <2>1 DEF Keeps
  <2>3. block.cls # 0 /\ i \in DOMAIN block.mem /\ WordTypes(block.cls)[i] \in Reference
    BY <1>1, <2>2 DEF References
  <2>4. block.mem[i] \in Values(WordTypes(block.cls)[i], h.heap)
    BY <2>1, <2>3, HeapsAssumption
  <2>5. PICK type : type = WordTypes(block.cls)[i]
    OBVIOUS
  <2>6. type = "OBJ_PARM" \/ type \in Arrays \cup {"OBJ_ARY_PARM"}
    BY <2>3, <2>5 DEF Reference
  <2>7. block.mem[i] \in {0} \cup DOMAIN h.heap
    <3>1. CASE type = "OBJ_PARM"
      BY <2>4, <2>5, <3>1 DEF Values, Objects
    <3>2. CASE type \in Arrays \cup {"OBJ_ARY_PARM"}
      BY <2>4, <2>5, <3>2 DEF Values, Arrays
    <3> QED BY <2>6, <3>1, <3>2
  <2> QED BY <1>1, <2>2, <2>7
<1> QED BY <1>1 DEF Within

\* Part of such a set grows within it.
LEMMA GrowsWithin ==
  ASSUME NEW g, NEW own, Within(g, own), NEW set, set \subseteq own
  PROVE  set \subseteq Grow(set, g) /\ Grow(set, g) \subseteq own
<1>1. set \subseteq Grow(set, g)
  BY DEF Grow
<1>2. ASSUME NEW b \in set, NEW i \in References(g[b]), g[b].mem[i] # 0 PROVE g[b].mem[i] \in own
  BY <1>2 DEF Within
<1>3. ASSUME NEW x \in Grow(set, g) PROVE x \in own
  <2>1. CASE x \in set
    BY <2>1
  <2>2. CASE x \notin set
    <3> DEFINE words(b) == {g[b].mem[i] : i \in References(g[b])}
               all == {words(b) : b \in set}
    <3>1. x \in UNION all /\ x # 0
      BY <1>3, <2>2 DEF Grow
    <3>2. \E part \in all : x \in part
      <4> HIDE DEF all
      <4> QED BY <3>1
    <3>3. PICK part \in all : x \in part
      BY <3>2
    <3>4. PICK b \in set : part = words(b)
      <4> HIDE DEF words
      <4> QED BY <3>3
    <3>5. x \in {g[b].mem[i] : i \in References(g[b])} /\ x # 0
      BY <3>1, <3>3, <3>4
    <3>6. PICK i \in References(g[b]) : x = g[b].mem[i]
      BY <3>5
    <3> QED BY <1>2, <3>5, <3>6
  <2> QED BY <2>1, <2>2
<1> QED BY <1>1, <1>3

\* A set that does not grow any more is found in as many rounds as there are blocks.
LEMMA RoundsEnd ==
  ASSUME NEW g, IsSeq(g), NEW own, own \subseteq DOMAIN g, Within(g, own), NEW a \in own
  PROVE  LET set == Rounds(g, a, Len(g))
         IN  a \in set /\ set \subseteq own /\ Grow(set, g) = set
<1> DEFINE L(k) == Rounds(g, a, k)
           Fine(k) == /\ a \in L(k) /\ L(k) \subseteq own
                      /\ Grow(L(k), g) = L(k) \/ Cardinality(L(k)) >= k + 1
           S == {k \in Nat : Fine(k)}
<1>1. Len(g) \in Nat /\ DOMAIN g = 1..Len(g)
  BY SeqHas
<1>2. IsFiniteSet(DOMAIN g) /\ Cardinality(DOMAIN g) = Len(g)
  <2>1. PICK n : n = Len(g)
    OBVIOUS
  <2>2. n \in Nat /\ DOMAIN g = 1..n
    BY <1>1, <2>1
  <2>3. IsFiniteSet(1..n) /\ Cardinality(1..n) = (IF 1 > n THEN 0 ELSE n - 1 + 1)
    BY <2>2, FS_Interval
  <2>4. (IF 1 > n THEN 0 ELSE n - 1 + 1) = n
    BY <2>2
  <2> QED BY <2>1, <2>2, <2>3, <2>4
<1>3. ASSUME NEW set, set \subseteq own
      PROVE  IsFiniteSet(set) /\ Cardinality(set) \in Nat /\ Cardinality(set) <= Len(g)
  <2>1. set \subseteq DOMAIN g
    BY <1>3
  <2> QED BY <1>2, <2>1, FS_Subset, FS_CardinalityType
<1>4. 0 \in S
  <2>1. L(0) = {a}
    BY RoundsAre
  <2>2. Cardinality({a}) = 1
    BY FS_Singleton
  <2> QED BY <2>1, <2>2
<1>5. ASSUME NEW k \in Nat, k \in S PROVE k + 1 \in S
  <2>1. PICK s : s = L(k)
    OBVIOUS
  <2>2. PICK t : t = L(k + 1)
    OBVIOUS
  <2>3. t = Grow(s, g)
    BY <2>1, <2>2, RoundsAre
  <2>4. a \in s /\ s \subseteq own /\ (Grow(s, g) = s \/ Cardinality(s) >= k + 1)
    BY <1>5, <2>1
  <2>5. s \subseteq t /\ t \subseteq own
    BY <2>3, <2>4, GrowsWithin
  <2>6. Grow(t, g) = t \/ Cardinality(t) >= (k + 1) + 1
    <3>1. CASE t = s
      BY <2>3, <3>1
    <3>2. CASE t # s
      <4>1. /\ Cardinality(s) >= k + 1 /\ IsFiniteSet(t) /\ IsFiniteSet(s)
            /\ Cardinality(s) \in Nat /\ Cardinality(t) \in Nat
        BY <1>3, <2>3, <2>4, <2>5, <3>2
      <4>2. Cardinality(s) < Cardinality(t)
        <5>1. Cardinality(s) <= Cardinality(t) /\ (Cardinality(s) = Cardinality(t) => s = t)
          BY <2>5, <4>1, FS_Subset
        <5> QED BY <3>2, <4>1, <5>1
      <4> QED BY <4>1, <4>2
    <3> QED BY <3>1, <3>2
  <2> QED BY <2>2, <2>4, <2>5, <2>6
<1>6. Len(g) \in S
  <2> HIDE DEF S
  <2> QED BY <1>1, <1>4, <1>5, Adds!SetInduction
<1>7. Fine(Len(g))
  BY <1>6
<1>8. PICK set : set = Rounds(g, a, Len(g))
  OBVIOUS
<1>9. a \in set /\ set \subseteq own /\ (Grow(set, g) = set \/ Cardinality(set) >= Len(g) + 1)
  BY <1>7, <1>8
<1>10. Cardinality(set) \in Nat /\ Cardinality(set) <= Len(g)
  BY <1>3, <1>9
<1>11. Grow(set, g) = set
  BY <1>1, <1>9, <1>10
<1> QED BY <1>8, <1>9, <1>11

-----------------------------------------------------------------------------
(* Programs that Supported holds for *)

\* What the graphs consist of.
Met(h) ==
  {b \in DOMAIN h.heap : /\ h.heap[b].cls # 0
                         /\ \E k \in DOMAIN h.roots : h.roots[k] # 0 /\ b \in Reached(h.roots[k])}

\* What is reached from a block is among the blocks, and so is what these refer to.
LEMMA ReachedIs ==
  ASSUME NEW h \in Heaps, Basic(h), NEW a \in DOMAIN h.heap, NEW set, set = Reached(a)
  PROVE  a \in set /\ set \subseteq DOMAIN h.heap /\ Grow(set, heap) = set
<1>1. Keeps(h, heap)
  BY DEF Basic
<1>2. DOMAIN heap = 1..Len(heap)
  BY <1>1, SeqHas DEF Keeps
<1>3. Reached(a) = Rounds(heap, a, Len(heap))
  BY <1>2 DEF Reached, Rounds
<1>4. Within(heap, DOMAIN h.heap)
  BY <1>1, OldWithin
<1>5. IsSeq(heap) /\ DOMAIN h.heap \subseteq DOMAIN heap
  BY <1>1 DEF Keeps
<1> QED BY <1>3, <1>4, <1>5, RoundsEnd

\* What a block of a set refers to is in what the set grows to.
LEMMA InGrow ==
  ASSUME NEW g, NEW set, NEW b \in set, NEW p \in References(g[b]), g[b].mem[p] # 0
  PROVE  g[b].mem[p] \in Grow(set, g)
<1> DEFINE words(c) == {g[c].mem[i] : i \in References(g[c])}
           all == {words(c) : c \in set}
           v == g[b].mem[p]
<1>1. v \in words(b)
  OBVIOUS
<1>2. words(b) \in all
  <2> HIDE DEF words
  <2> QED OBVIOUS
<1>3. v \in UNION all
  <2> HIDE DEF words, all, v
  <2> QED BY <1>1, <1>2
<1> QED BY <1>3 DEF Grow

\* What the graphs of such a program consist of has no array of objects.
LEMMA GoodMet ==
  ASSUME NEW h \in Heaps, Basic(h), AllSupported
  PROVE  Good(h, Met(h))
<1> DEFINE met == Met(h)
<1>1. Keeps(h, heap) /\ roots = h.roots
  BY DEF Basic
<1>2. ASSUME NEW k \in DOMAIN h.roots PROVE h.roots[k] \in {0} \cup Objects(h.heap)
  <2>1. h.roots \in Seq({0} \cup Objects(h.heap))
    BY HeapsAssumption
  <2>2. ASSUME NEW T, NEW s \in Seq(T), NEW n \in DOMAIN s PROVE s[n] \in T
    OBVIOUS
  <2> HIDE DEF met
  <2> QED BY <2>1, <2>2
<1>3. ASSUME NEW k \in DOMAIN h.roots, h.roots[k] # 0
      PROVE  LET set == Reached(h.roots[k])
             IN  /\ h.roots[k] \in set /\ set \subseteq DOMAIN h.heap /\ Grow(set, heap) = set
                 /\ h.heap[h.roots[k]].cls # 0
                 /\ \A b \in set : h.heap[b].cls # 0 => "OBJ_ARY_PARM" \notin Range(WordTypes(h.heap[b].cls))
  <2>1. PICK a : a = h.roots[k]
    OBVIOUS
  <2>2. PICK set : set = Reached(a)
    OBVIOUS
  <2>3. a \in DOMAIN h.heap /\ h.heap[a].cls # 0
    BY <1>2, <1>3, <2>1 DEF Objects
  <2>4. a \in set /\ set \subseteq DOMAIN h.heap /\ Grow(set, heap) = set
    BY <2>2, <2>3, ReachedIs
  <2>5. Supported(a)
    BY <1>1, <1>3, <2>1 DEF AllSupported
  <2>6. ASSUME NEW b \in set, h.heap[b].cls # 0 PROVE "OBJ_ARY_PARM" \notin Range(WordTypes(h.heap[b].cls))
    <3>1. heap[b] = h.heap[b]
      BY <1>1, <2>4 DEF Keeps
    <3> QED BY <2>2, <2>5, <2>6, <3>1 DEF Supported
  <2> QED BY <2>1, <2>2, <2>3, <2>4, <2>6
<1>4. met \subseteq DOMAIN h.heap /\ \A b \in met : h.heap[b].cls # 0
  BY DEF Met
<1>5. ASSUME NEW k \in DOMAIN h.roots PROVE h.roots[k] \in {0} \cup met
  BY <1>2, <1>3 DEF Met
<1>6. ASSUME NEW b \in met, NEW block, block = h.heap[b], NEW types, types = Classes[block.cls]
      PROVE  /\ \A n \in DOMAIN types : types[n] # "OBJ_ARY_PARM"
             /\ \A item \in ToSet(Items(block)) :
                  /\ item.type = "OBJ_PARM" => item.words[1] \in {0} \cup met
                  /\ item.type \in Arrays => item.words[1] \in {0} \cup (DOMAIN h.heap \ Objects(h.heap))
  <2>1. PICK k \in DOMAIN h.roots : h.roots[k] # 0 /\ b \in Reached(h.roots[k])
    BY <1>6 DEF Met
  <2>2. PICK set : set = Reached(h.roots[k])
    OBVIOUS
  <2>3. b \in set /\ b \in DOMAIN h.heap /\ block.cls # 0 /\ Grow(set, heap) = set
        /\ "OBJ_ARY_PARM" \notin Range(WordTypes(block.cls))
    BY <1>3, <1>4, <1>6, <2>1, <2>2
  <2>4. \A n \in DOMAIN types : types[n] # "OBJ_ARY_PARM"
    BY <1>6, <2>3, NoneDeclared
  <2>5. heap[b] = block
    BY <1>1, <1>6, <2>3 DEF Keeps
  <2>6. ASSUME NEW item \in ToSet(Items(block))
        PROVE  /\ item.type = "OBJ_PARM" => item.words[1] \in {0} \cup met
               /\ item.type \in Arrays => item.words[1] \in {0} \cup (DOMAIN h.heap \ Objects(h.heap))
    <3>1. PICK n \in DOMAIN types : item = Items(block)[n] /\ item.type = types[n]
      <4> DEFINE words(n) == SubSeq(block.mem, Place(types, n), Place(types, n) + Step(types[n]) - 1)
      <4>1. Items(block) = [n \in DOMAIN types |-> Item(types[n], words(n))]
        BY <1>6, <2>3 DEF Items
      <4> HIDE DEF words
      <4>2. PICK its : its = Items(block)
        OBVIOUS
      <4>3. PICK n \in DOMAIN its : item = its[n]
        BY <2>6, <4>2 DEF ToSet
      <4>4. n \in DOMAIN types /\ item = Item(types[n], words(n))
        BY <4>1, <4>2, <4>3
      <4>5. item.type = types[n]
        BY <4>4 DEF Item
      <4> QED BY <4>2, <4>3, <4>4, <4>5
    <3>2. CASE types[n] \in Arrays \cup {"OBJ_PARM"}
      <4>1. PICK p \in References(block) : /\ block.mem[p] \in Values(types[n], h.heap)
                                           /\ Items(block)[n].type = types[n]
                                           /\ Items(block)[n].words[1] = block.mem[p]
        BY <1>6, <2>3, <3>2, VariableWord
      <4>2. PICK v : v = block.mem[p]
        OBVIOUS
      <4>3. item.words[1] = v /\ v \in Values(types[n], h.heap)
        BY <3>1, <4>1, <4>2
      <4>4. CASE types[n] = "OBJ_PARM"
        <5>1. v \in {0} \cup Objects(h.heap)
          BY <4>3, <4>4 DEF Values, Arrays
        <5>2. v # 0 => v \in set
          BY <2>3, <2>5, <4>1, <4>2, InGrow
        <5>3. v # 0 => v \in met
          BY <2>1, <2>2, <5>1, <5>2 DEF Objects, Met
        <5> QED BY <3>1, <4>3, <4>4, <5>3 DEF Arrays
      <4>5. CASE types[n] \in Arrays
        BY <3>1, <4>3, <4>5 DEF Values, Arrays
      <4> QED BY <3>2, <4>4, <4>5
    <3>3. CASE types[n] \notin Arrays \cup {"OBJ_PARM"}
      BY <3>1, <3>3
    <3> QED BY <3>2, <3>3
  <2> QED BY <2>4, <2>6
<1>7. Closed(h, met)
  <2>1. ASSUME NEW b \in met, NEW item \in ToSet(Items(h.heap[b]))
        PROVE  /\ item.type = "OBJ_PARM" => item.words[1] \in {0} \cup met
               /\ item.type \in Arrays => item.words[1] \in {0} \cup (DOMAIN h.heap \ Objects(h.heap))
    BY <1>6, <2>1
  <2> HIDE DEF met
  <2> QED BY <1>4, <1>5, <2>1 DEF Closed
<1>8. \A b \in met : \A n \in DOMAIN Classes[h.heap[b].cls] : Classes[h.heap[b].cls][n] # "OBJ_ARY_PARM"
  BY <1>6
<1> HIDE DEF met
<1>9. Good(h, met)
  BY <1>4, <1>7, <1>8 DEF Good
<1> QED BY <1>9 DEF met
\* The graphs of one program, and those without arrays of objects in step.
StepInv ==
  /\ NumberInv
  /\ \E h \in Heaps : /\ \E met : Walk(h, met)
                      /\ \A met : Good(h, met) => Walk(h, met) /\ Exact(h, met)

(* For graphs of every size and shape without arrays of objects: however    *)
(* deep the readers are nested, they take every token for what was written  *)
(* there and end where the serializer ended.                                *)
THEOREM SerializerInStep == Spec => []InStep
<1>1. Init => StepInv
  <2> SUFFICES ASSUME Init PROVE StepInv
    OBVIOUS
  <2>1. PICK h \in Heaps : heap = h.heap /\ roots = h.roots
    BY DEF Init
  <2>2. NumberInv
    BY NoNumbers DEF Init
  <2>3. \E met : Walk(h, met)
    BY <2>1, Program, WalkStarts
  <2>4. ASSUME NEW met, Good(h, met) PROVE Walk(h, met) /\ Exact(h, met)
    <3>1. Walk(h, met)
      BY <2>1, <2>4, WalkStarts DEF Good
    <3>2. /\ status = "write" /\ turn = 1 /\ buffer = <<>> /\ todo = Wanted(h.roots[1]) /\ serial_ids = << >>
          /\ next_id = 0
      BY <2>1 DEF Init
    <3> QED BY <2>2, <3>1, <3>2, ExactStarts
  <2> QED BY <2>2, <2>3, <2>4 DEF StepInv
<1>2. StepInv /\ [Next]_vars => StepInv'
  <2> SUFFICES ASSUME StepInv, [Next]_vars PROVE StepInv'
    OBVIOUS
  <2>1. PICK h \in Heaps : /\ \E met : Walk(h, met)
                           /\ \A met : Good(h, met) => Walk(h, met) /\ Exact(h, met)
    BY DEF StepInv
  <2>2. NumberInv'
    BY NumberStep DEF StepInv
  <2>3. \E met : Walk(h, met)'
    BY <2>1, WalkStep
  <2>4. ASSUME NEW met, Good(h, met) PROVE Walk(h, met)' /\ Exact(h, met)'
    <3>1. Walk(h, met) /\ Exact(h, met)
      BY <2>1, <2>4
    <3>2. Walk(h, met)'
      BY <3>1, WalkStep
    <3> QED BY <2>2, <2>4, <3>1, <3>2, ExactStep
  <2>5. \A met : Good(h, met)' => Good(h, met)
    BY DEF Good, Closed
  <2> QED BY <2>2, <2>3, <2>4, <2>5 DEF StepInv
<1>3. StepInv => InStep
  <2> SUFFICES ASSUME StepInv, Ended, AllSupported PROVE status = "done" /\ pos = Len(buffer) + 1
    BY DEF InStep
  <2>1. PICK h \in Heaps : /\ \E met : Walk(h, met)
                           /\ \A met : Good(h, met) => Walk(h, met) /\ Exact(h, met)
    BY DEF StepInv
  <2>2. Basic(h)
    BY <2>1 DEF Walk
  <2>3. PICK met : Good(h, met)
    BY <2>2, GoodMet
  <2>4. Exact(h, met)
    BY <2>1, <2>3
  <2> QED BY <2>4 DEF Exact, Ended
<1> QED BY <1>1, <1>2, <1>3, PTL DEF Spec
===============================================================================
