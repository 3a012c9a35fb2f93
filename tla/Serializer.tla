------------------------------- MODULE Serializer -------------------------------
(***************************************************************************)
(* Write and ReadObject of the classes Serializer and Deserializer: object *)
(* graphs, one after the other, to a buffer and back (ObjectSerializer and *)
(* ObjectDeserializer).  The bytes of a value are one token; how a float   *)
(* or a character looks in bytes is left out.                              *)
(***************************************************************************)
EXTENDS Integers, Sequences, FiniteSets, SequencesExt

CONSTANTS
  Classes,  \* the types of the declared variables of each class
  Heaps,    \* sequences of blocks, and the objects that are written
  IntBits   \* width of INT_VALUE

ASSUME SerializerAssumption ==
  /\ IntBits \in Nat \ {0} /\ 0 \notin DOMAIN Classes
  /\ \A c \in DOMAIN Classes : Classes[c] \in Seq({"INT_PARM", "FLOAT_PARM", "INT_ARY_PARM",
                                     "CHAR_ARY_PARM", "OBJ_PARM", "OBJ_ARY_PARM"})

VARIABLES
  heap,       \* block n is at address n, 0 is Nil; an array has class 0
  roots,      \* the objects that are written, in order
  turn,       \* which of them is written or read
  status,     \* "write", "read", "done", or "garbled"
  buffer,     \* the bytes of the Serializer
  todo,       \* what CheckObject and CheckMemory still have to write
  serial_ids, \* numbers of the blocks written, of the current object graph
  next_id,
  pos,        \* where the Deserializer is in the buffer
  readers,    \* ObjectDeserializers at work, the innermost one last
  results     \* the objects read

writer == <<buffer, todo, serial_ids, next_id>>
reader == <<pos, readers, results>>
control == <<roots, turn, status>>
vars   == <<heap, control, writer, reader>>

Arrays == {"INT_ARY_PARM", "CHAR_ARY_PARM"}
Token(kind, v) == [kind |-> kind, v |-> v]
IntBytes(v) == Token("int", v)
OneByte(v)  == Token("byte", v)

\* what a long is as an INT_VALUE
Narrow(v) == ((v + 2^(IntBits - 1)) % 2^IntBits) - 2^(IntBits - 1)

\* what is read or written for a variable, and how many words it moves on by:
\* a type the switch does not know is passed over where it stands
Step(type) == CASE type = "FLOAT_PARM" -> 2 [] type = "OBJ_ARY_PARM" -> 0 [] OTHER -> 1
Advance(sum, type) == sum + Step(type)
Place(types, n) == 1 + FoldLeft(Advance, 0, SubSeq(types, 1, n - 1))
\* the words of an instance: a float has two, whatever else one
Size(type) == IF type = "FLOAT_PARM" THEN 2 ELSE 1
AddSize(sum, type) == sum + Size(type)
Words(types) == FoldLeft(AddSize, 0, types)
Spread(words, type) == words \o [n \in 1..Size(type) |-> type]
WordTypes(cls) == FoldLeft(Spread, <<>>, Classes[cls])

-----------------------------------------------------------------------------
Item(type, words) == [type |-> type, words |-> words]
Wanted(a) == <<Item("OBJ_PARM", <<a>>)>>

\* CheckMemory for an object, and the loop of CheckObject for anything else
Items(block) ==
  IF block.cls # 0
  THEN LET types == Classes[block.cls]
       IN  [n \in DOMAIN types |-> Item(types[n], SubSeq(block.mem, Place(types, n),
                                           Place(types, n) + Step(types[n]) - 1))]
  ELSE [k \in 1..block.mem[1] |-> Item("OBJ_PARM", <<block.mem[2 + block.mem[2] + k]>>)]

\* what a variable of a type holds
Objects(blocks) == {b \in DOMAIN blocks : blocks[b].cls # 0}
Values(type, blocks) ==
  CASE type = "OBJ_PARM" -> {0} \cup Objects(blocks)
    [] type \in Arrays \cup {"OBJ_ARY_PARM"} -> {0} \cup (DOMAIN blocks \ Objects(blocks))
    [] OTHER -> Int

\* What a program hands over.  A word that is taken for a reference because of an
\* array of objects in front of it, or as an element of an array, is one all the
\* same: the code reads what is there, and nothing is said about other words.
ASSUME HeapsAssumption ==
  \A h \in Heaps :
    /\ h.heap \in Seq([cls : {0} \cup DOMAIN Classes, mem : Seq(Int)])
    /\ h.roots \in Seq({0} \cup Objects(h.heap)) /\ h.roots # <<>>
    /\ \A b \in DOMAIN h.heap : LET block == h.heap[b] IN
         IF block.cls # 0
         THEN /\ Len(block.mem) = Words(Classes[block.cls])
              /\ \A n \in DOMAIN block.mem :
                   block.mem[n] \in Values(WordTypes(block.cls)[n], h.heap)
         ELSE /\ Len(block.mem) >= 2 /\ block.mem[1] \in Nat /\ block.mem[2] \in Nat
              /\ Len(block.mem) = 2 + block.mem[2] + block.mem[1]
              /\ block.mem[2] = 1 => block.mem[3] = block.mem[1]
    /\ \E met \in SUBSET DOMAIN h.heap :
         /\ \A k \in DOMAIN h.roots : h.roots[k] \in {0} \cup met
         /\ \A b \in met : \A item \in ToSet(Items(h.heap[b])) :
              /\ item.type = "OBJ_PARM" => item.words[1] \in {0} \cup met
              /\ item.type \in Arrays => item.words[1] \in {0} \cup (DOMAIN h.heap \ Objects(h.heap))

Init ==
  /\ \E h \in Heaps : heap = h.heap /\ roots = h.roots
  /\ status = "write" /\ turn = 1
  /\ buffer = <<>> /\ todo = Wanted(roots[1]) /\ serial_ids = << >> /\ next_id = 0
  /\ pos = 1 /\ readers = <<>> /\ results = <<>>

Due(types) == status = "write" /\ todo # <<>> /\ Head(todo).type \in types
word       == Head(todo).words[1]
Writes(tokens, more) == buffer' = buffer \o tokens /\ todo' = more \o Tail(todo)
Known == serial_ids' = serial_ids /\ next_id' = next_id

\* WasSerialized: the number of a block, negative the first time
Seen(a) == a \in DOMAIN serial_ids
NumberNegative(a) == IF Seen(a) THEN -serial_ids[a] ELSE -(next_id + 1)
Number(a) == IF Seen(a) THEN serial_ids[a] ELSE -(next_id + 1)
InsertedEarly(a) ==
  /\ next_id' = IF Seen(a) THEN next_id ELSE next_id + 1
  /\ serial_ids' = IF Seen(a) THEN serial_ids
                   ELSE [b \in DOMAIN serial_ids \cup {a} |->
                           IF b = a THEN next_id ELSE serial_ids[b]]
WasSerialized(a) ==
  /\ next_id' = IF Seen(a) THEN next_id ELSE next_id + 1
  /\ serial_ids' = IF Seen(a) THEN serial_ids
                   ELSE [b \in DOMAIN serial_ids \cup {a} |->
                           IF b = a THEN next_id + 1 ELSE serial_ids[b]]

SerializeInt ==
  /\ Due({"INT_PARM"})
  /\ Writes(<<IntBytes(Narrow(word))>>, <<>>) /\ Known
  /\ UNCHANGED <<heap, control, reader>>

SerializeFloat ==
  /\ Due({"FLOAT_PARM"})
  /\ Writes(<<Token("float", Head(todo).words)>>, <<>>) /\ Known
  /\ UNCHANGED <<heap, control, reader>>

\* an array of characters ends at the first NUL, the sizes are adjusted
Text(words) == LET ends == {n \in DOMAIN words : words[n] = 0}
               IN  IF ends = {} THEN words
                   ELSE SubSeq(words, 1, (CHOOSE n \in ends : \A k \in ends : n <= k) - 1)
Contents(type, mem) ==
  LET elements == SubSeq(mem, 4, 3 + mem[1])
  IN  IF type = "INT_ARY_PARM" THEN SubSeq(mem, 1, 3) \o [n \in DOMAIN elements |-> Narrow(elements[n])]
      ELSE LET text == Text(elements) IN <<Len(text), mem[2], Len(text)>> \o text

MarkedFirst ==
  /\ Due(Arrays)
  /\ IF word = 0 THEN Writes(<<OneByte(0)>>, <<>>) /\ WasSerialized(word)
     ELSE /\ Writes(<<OneByte(1), IntBytes(Number(word))>> \o
                       (IF Seen(word) THEN <<>>
                        ELSE <<Token("array", Contents(Head(todo).type, heap[word].mem))>>), <<>>)
          /\ WasSerialized(word)
  /\ UNCHANGED <<heap, control, reader>>
SerializeArray ==
  /\ Due(Arrays)
  /\ IF word = 0 THEN Writes(<<OneByte(0)>>, <<>>) /\ Known
     ELSE /\ Writes(<<OneByte(1), IntBytes(Number(word))>> \o
                       (IF Seen(word) THEN <<>>
                        ELSE <<Token("array", Contents(Head(todo).type, heap[word].mem))>>), <<>>)
          /\ WasSerialized(word)
  /\ UNCHANGED <<heap, control, reader>>

\* CheckObject; what is no object has no number of a class
CheckObject ==
  /\ Due({"OBJ_PARM"})
  /\ IF word = 0 THEN Writes(<<OneByte(0)>>, <<>>) /\ Known
     ELSE LET block == heap[word]
          IN  /\ Writes(<<OneByte(1)>> \o (IF block.cls # 0 THEN <<IntBytes(block.cls)>> ELSE <<>>)
                          \o <<IntBytes(Number(word))>>,
                        IF Seen(word) THEN <<>> ELSE Items(block))
              /\ WasSerialized(word)
  /\ UNCHANGED <<heap, control, reader>>

SkipDeclaration ==
  /\ Due({"OBJ_ARY_PARM"})
  /\ Writes(<<>>, <<>>) /\ Known
  /\ UNCHANGED <<heap, control, reader>>

\* TrapProcessor::SerializeObject ends; the next object has a serializer, and
\* numbers, of its own
EndSerialize ==
  /\ status = "write" /\ todo = <<>>
  /\ serial_ids' = << >> /\ next_id' = 0
  /\ IF turn < Len(roots)
     THEN turn' = turn + 1 /\ todo' = Wanted(roots[turn + 1]) /\ UNCHANGED status
     ELSE turn' = 1 /\ status' = "read" /\ UNCHANGED todo
  /\ UNCHANGED <<heap, roots, buffer, reader>>

-----------------------------------------------------------------------------
\* ObjectDeserializer: its buffer begins at base
Reader(base, offset, cache) ==
  [base |-> base, offset |-> offset, mem_cache |-> cache, cls |-> 0, instance |-> 0,
   dclr_pos |-> 1, instance_pos |-> 1]
r     == Last(readers)
outer == readers[Len(readers) - 1]
Replaced(d) == Append(Front(readers), d)

\* tokens of these kinds are ahead of n, so that a read finds what was written
Ahead(n, kinds) ==
  \A k \in DOMAIN kinds : n + k - 1 \in DOMAIN buffer /\ buffer[n + k - 1].kind = kinds[k]
Read(n) == buffer[n].v

\* a value into the instance
Put(d, words) ==
  [heap EXCEPT ![d.instance].mem = [n \in DOMAIN @ |->
     IF n \in d.instance_pos .. d.instance_pos + Len(words) - 1
     THEN words[n - d.instance_pos + 1] ELSE @[n]]]

\* offset and cache were passed by value: they are copied back
CacheNotTaken(to, from) == [to EXCEPT !.offset = from.offset]
TakenBack(to, from) == [to EXCEPT !.offset = from.offset, !.mem_cache = from.mem_cache]
Moved(d, words) == [d EXCEPT !.instance_pos = @ + words]

\* the object, to the deserializer that wanted it or onto the operand stack
Return(address, d) ==
  IF Len(readers) = 1
  THEN /\ results' = Append(results, address) /\ turn' = turn + 1
       /\ pos' = d.offset /\ readers' = <<>>
       /\ UNCHANGED heap
  ELSE /\ readers' = Append(SubSeq(readers, 1, Len(readers) - 2),
                            Moved(TakenBack(outer, d), 1))
       /\ heap' = Put(outer, <<address>>)
       /\ UNCHANGED <<results, turn, pos>>

\* TrapProcessor::DeserializeObject
BeginObject == status = "read" /\ readers = <<>> /\ turn <= Len(roots)
DeserializeObject ==
  /\ BeginObject
  /\ Ahead(pos, <<"byte">>)
  /\ IF Read(pos) = 0
     THEN /\ results' = Append(results, 0) /\ turn' = turn + 1 /\ pos' = pos + 1
          /\ UNCHANGED readers
     ELSE /\ readers' = <<Reader(pos + 1, pos + 1, << >>)>>
          /\ UNCHANGED <<results, turn, pos>>
  /\ UNCHANGED <<heap, roots, status, writer>>

EndDeserialize ==
  /\ status = "read" /\ readers = <<>> /\ turn > Len(roots)
  /\ status' = "done"
  /\ UNCHANGED <<heap, roots, turn, writer, reader>>

\* the first part of DeserializeObject: class and number
Cached(d, id, address) ==
  [d EXCEPT !.mem_cache = [k \in DOMAIN @ \cup {id} |-> IF k = id THEN address ELSE @[k]]]
New == Len(heap) + 1
Entering == status = "read" /\ readers # <<>> /\ r.cls = 0
Skipped(n) == [r EXCEPT !.offset = @ + n]
IsClass == Read(r.offset) \in DOMAIN Classes
mem_id  == Read(r.offset + 1)

AllocateObject ==
  /\ Entering /\ Ahead(r.offset, <<"int", "int">>) /\ IsClass /\ mem_id < 0
  /\ LET cls == Read(r.offset)
     IN  /\ heap' = Append(heap, [cls |-> cls, mem |-> [n \in 1..Words(Classes[cls]) |-> 0]])
         /\ readers' = Replaced([Cached(Skipped(2), -mem_id, New)
                                   EXCEPT !.cls = cls, !.instance = New])
  /\ UNCHANGED <<control, writer, pos, results>>

\* an object that was read before, or none
Found(id) == IF id \in DOMAIN r.mem_cache THEN r.mem_cache[id] ELSE 0
KnownObject ==
  /\ Entering /\ Ahead(r.offset, <<"int", "int">>) /\ IsClass /\ mem_id >= 0
  /\ Return(Found(mem_id), Skipped(2))
  /\ UNCHANGED <<roots, status, writer>>
NoClass ==
  /\ Entering /\ Ahead(r.offset, <<"int">>) /\ ~IsClass
  /\ Return(0, Skipped(1))
  /\ UNCHANGED <<roots, status, writer>>

-----------------------------------------------------------------------------
\* its loop, while variables and bytes are left; the bytes are counted from base
declared == Classes[r.cls]
InLoop == /\ status = "read" /\ readers # <<>> /\ r.cls # 0
          /\ r.dclr_pos <= Len(declared) /\ r.offset - r.base < Len(buffer)
Reads(set) == InLoop /\ declared[r.dclr_pos] \in set
next == [r EXCEPT !.dclr_pos = @ + 1]
Ahead1(kind) == Ahead(r.offset, <<kind>>)

DeserializeValue ==
  /\ \/ Reads({"INT_PARM"}) /\ Ahead1("int")
     \/ Reads({"FLOAT_PARM"}) /\ Ahead1("float")
  /\ LET words == IF Ahead1("int") THEN <<Read(r.offset)>> ELSE Read(r.offset)
     IN  /\ heap' = Put(r, words)
         /\ readers' = Replaced([Moved(next, Len(words)) EXCEPT !.offset = @ + 1])
  /\ UNCHANGED <<control, writer, pos, results>>

Nil ==
  /\ Reads(Arrays \cup {"OBJ_PARM"}) /\ Ahead1("byte") /\ Read(r.offset) = 0
  /\ heap' = Put(r, <<0>>)
  /\ readers' = Replaced([Moved(next, 1) EXCEPT !.offset = @ + 1])
  /\ UNCHANGED <<control, writer, pos, results>>

\* an array has as many words as its size and its dimensions say
Refers(type) == Reads({type}) /\ Ahead1("byte") /\ Read(r.offset) # 0
Array(v) == [cls |-> 0, mem |-> [n \in 1 .. 2 + v[2] + v[1] |-> IF n <= Len(v) THEN v[n] ELSE 0]]
AllocateArray ==
  /\ \E type \in Arrays : Refers(type)
  /\ Ahead(r.offset, <<"byte", "int", "array">>) /\ mem_id < 0
  /\ heap' = Append(Put(r, <<New>>), Array(Read(r.offset + 2)))
  /\ readers' = Replaced(Cached([Moved(next, 1) EXCEPT !.offset = @ + 3], -mem_id, New))
  /\ UNCHANGED <<control, writer, pos, results>>

\* if its number is unknown the whole object is none
KnownArray ==
  /\ \E type \in Arrays : Refers(type)
  /\ Ahead(r.offset, <<"byte", "int">>) /\ mem_id >= 0
  /\ IF mem_id \in DOMAIN r.mem_cache
     THEN /\ heap' = Put(r, <<Found(mem_id)>>)
          /\ readers' = Replaced([Moved(next, 1) EXCEPT !.offset = @ + 2])
          /\ UNCHANGED <<turn, pos, results>>
     ELSE Return(0, Skipped(2))
  /\ UNCHANGED <<roots, status, writer>>

DeserializeInner ==
  /\ Refers("OBJ_PARM")
  /\ readers' = Append(Replaced([next EXCEPT !.offset = @ + 1]),
                       Reader(r.base, r.offset + 1, r.mem_cache))
  /\ UNCHANGED <<heap, control, writer, pos, results>>

PassOver ==
  /\ Reads({"OBJ_ARY_PARM"})
  /\ readers' = Replaced(next)
  /\ UNCHANGED <<heap, control, writer, pos, results>>

EndObject ==
  /\ status = "read" /\ readers # <<>> /\ r.cls # 0 /\ ~InLoop
  /\ Return(r.instance, r)
  /\ UNCHANGED <<roots, status, writer>>

Write == SerializeInt \/ SerializeFloat \/ SerializeArray \/ CheckObject \/ SkipDeclaration
           \/ EndSerialize
ReadNext == \/ DeserializeObject \/ EndDeserialize \/ AllocateObject \/ KnownObject \/ NoClass
            \/ DeserializeValue \/ Nil \/ AllocateArray \/ KnownArray \/ DeserializeInner
            \/ PassOver \/ EndObject

\* the values of the kinds that are wanted are ahead
CanRead ==
  \/ BeginObject /\ Ahead(pos, <<"byte">>)
  \/ status = "read" /\ readers = <<>> /\ turn > Len(roots)
  \/ /\ Entering /\ Ahead(r.offset, <<"int">>)
     /\ IsClass => Ahead(r.offset, <<"int", "int">>)
  \/ Reads({"INT_PARM"}) /\ Ahead1("int")
  \/ Reads({"FLOAT_PARM"}) /\ Ahead1("float")
  \/ Reads({"OBJ_PARM"}) /\ Ahead1("byte")
  \/ Reads(Arrays) /\ Ahead1("byte") /\ Read(r.offset) = 0
  \/ /\ Reads(Arrays) /\ Ahead(r.offset, <<"byte", "int">>) /\ Read(r.offset) # 0
     /\ mem_id < 0 => Ahead(r.offset, <<"byte", "int", "array">>)
  \/ Reads({"OBJ_ARY_PARM"})
  \/ status = "read" /\ readers # <<>> /\ r.cls # 0 /\ ~InLoop

\* bytes are taken for values of another kind
Garble ==
  /\ status = "read" /\ ~CanRead
  /\ status' = "garbled"
  /\ UNCHANGED <<heap, roots, turn, writer, reader>>

Ended == status \in {"done", "garbled"}
Stay  == Ended /\ UNCHANGED vars
Next  == Write \/ ReadNext \/ Garble \/ Stay
Spec  == Init /\ [][Next]_vars

-----------------------------------------------------------------------------
(* The words, numbers and positions are those of the heap and the buffer.  *)
TypeOK ==
  /\ status \in {"write", "read", "done", "garbled"} /\ turn \in 1 .. Len(roots) + 1
  /\ \A n \in DOMAIN heap : heap[n].cls \in {0} \cup DOMAIN Classes
  /\ next_id \in Nat /\ DOMAIN serial_ids \subseteq DOMAIN heap
  /\ \A n \in DOMAIN readers : /\ readers[n].cls \in {0} \cup DOMAIN Classes
                               /\ readers[n].offset \in 1 .. Len(buffer) + 1
                               /\ readers[n].instance \in {0} \cup DOMAIN heap
  /\ Len(results) <= Len(roots)

(* The blocks of an object graph have the numbers 1 to next_id, each its   *)
(* own, however often and from where they are referred to: a number stands *)
(* for one block, and no block is written twice (WasSerialized).           *)
NumberedOnce ==
  /\ \A a \in DOMAIN serial_ids : serial_ids[a] \in 1..next_id
  /\ \A n \in 1..next_id : \E a \in DOMAIN serial_ids : serial_ids[a] = n
  /\ \A a, b \in DOMAIN serial_ids : serial_ids[a] = serial_ids[b] => a = b

-----------------------------------------------------------------------------
(* What a copy is.                                                         *)

Reference == Arrays \cup {"OBJ_PARM", "OBJ_ARY_PARM"}
References(block) ==
  IF block.cls = 0 THEN {}
  ELSE {n \in DOMAIN block.mem : WordTypes(block.cls)[n] \in Reference}
Grow(set, blocks) ==
  set \cup ((UNION {{blocks[b].mem[i] : i \in References(blocks[b])} : b \in set}) \ {0})
Reached(a) == FoldLeft(Grow, {a}, [n \in DOMAIN heap |-> heap])

\* a graph the two can copy: what they leave out is in the README
Supported(a) ==
  \A b \in Reached(a) : LET block == heap[b] IN
    IF block.cls # 0
    THEN LET types == WordTypes(block.cls) IN
         /\ "OBJ_ARY_PARM" \notin Range(types)
         /\ \A n \in DOMAIN types : types[n] = "INT_PARM" => Narrow(block.mem[n]) = block.mem[n]
    ELSE /\ block.mem[2] = 1
         /\ \A n \in 4 .. Len(block.mem) : Narrow(block.mem[n]) = block.mem[n] /\ block.mem[n] # 0
AllSupported == \A k \in DOMAIN roots : roots[k] # 0 => Supported(roots[k])

\* m takes each block of one graph to its copy in the other
Copies(m) ==
  \A a \in DOMAIN m :
    /\ heap[m[a]].cls = heap[a].cls
    /\ heap[m[a]].mem = [n \in DOMAIN heap[a].mem |->
         IF n \in References(heap[a]) /\ heap[a].mem[n] # 0 THEN m[heap[a].mem[n]] ELSE heap[a].mem[n]]
IsCopy(from, to) ==
  IF from = 0 THEN to = 0
  ELSE /\ to # 0 /\ Reached(from) \cap Reached(to) = {}
       /\ \E m \in [Reached(from) -> Reached(to)] :
            /\ m[from] = to /\ Copies(m)
            /\ \A a, b \in DOMAIN m : m[a] = m[b] => a = b

(* What ReadObject returns for an object is a copy of what Write was given:*)
(* the same classes, values and arrays, a block that was shared or part of *)
(* a cycle shared or part of a cycle again, none of it the original.       *)
RoundTrip ==
  status = "done" /\ AllSupported => \A k \in DOMAIN roots : IsCopy(roots[k], results[k])

(* The deserializer takes every byte for what the serializer wrote there,  *)
(* through nested deserializers that each count from their own copy of the *)
(* offset, and ends where the serializer ended.                            *)
InStep ==
  Ended /\ AllSupported => status = "done" /\ pos = Len(buffer) + 1
===============================================================================
