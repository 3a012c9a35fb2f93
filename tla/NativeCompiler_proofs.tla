------------------------- MODULE NativeCompiler_proofs -------------------------
(***************************************************************************)
(* The registers of the translation of vm/jit/amd64, for every method: each *)
(* is free or has one owner, between the instructions and, with those that *)
(* an operation has in hand, inside one.  Before that, the instructions    *)
(* themselves: what compiler/optimization.cpp puts for two or three of     *)
(* them leaves the same operand stack, locals and fields.                  *)
(***************************************************************************)
EXTENDS NativeCompiler, FiniteSetTheorems, FunctionTheorems, TLAPS

-----------------------------------------------------------------------------
(* Adjacent instructions, for every state of the machine. *)
State(F) == [stack : Seq(Int), mem : [0..LocalSize -> Int], inst : [F -> Int]]
Slots    == 0..(LocalSize - 1)

\* What is pushed is on top, and popping it gives the stack there was.
LEMMA PushPop ==
  ASSUME NEW st \in Seq(Int), NEW v \in Int
  PROVE  /\ Push(st, v) \in Seq(Int)
         /\ Len(Push(st, v)) = Len(st) + 1
         /\ Top(Push(st, v)) = v
         /\ Pop(Push(st, v), 1) = st
BY DEF Push, Top, Pop

\* Popping the top and pushing it again changes nothing.
LEMMA PopPush ==
  ASSUME NEW st \in Seq(Int), st # <<>>
  PROVE  /\ Top(st) \in Int
         /\ Pop(st, 1) \in Seq(Int)
         /\ Push(Pop(st, 1), Top(st)) = st
BY DEF Push, Top, Pop

\* Two literals and the operation: the second is on top, the first below it.
LEMMA PushTwice ==
  ASSUME NEW st \in Seq(Int), NEW a \in Int, NEW b \in Int
  PROVE  /\ Top(Push(Push(st, a), b)) = b
         /\ Second(Push(Push(st, a), b)) = a
         /\ Pop(Push(Push(st, a), b), 2) = st
BY DEF Push, Top, Second, Pop

\* A literal is pushed; the rest of the state stays.
LEMMA LoadLiteral ==
  ASSUME NEW F, NEW s \in State(F), NEW v
  PROVE  Effect(Lit(v), s) = [s EXCEPT !.stack = Push(s.stack, v)]
PROOF
<1>1. Lit(v).op = "LOAD_INT_LIT" /\ Lit(v).a = v
  BY DEF Lit, Instr
<1>2. ASSUME NEW i, i.op = "LOAD_INT_LIT"
      PROVE  Effect(i, s) = [s EXCEPT !.stack = Push(s.stack, i.a)]
  BY <1>2 DEF Effect, Moves, Binary, Arithmetic, Comparison, Shifts
<1> QED BY <1>1, <1>2

\* InstructionReplacement: storing a local and loading it again is COPY_INT_VAR,
\* which stores the top of the stack and leaves it there.
THEOREM StoreLoadIsCopy ==
  ASSUME NEW F, NEW s \in State(F), NEW x \in Slots, s.stack # <<>>
  PROVE  Effect(LoadV(x, LOCL), Effect(StorV(x, LOCL), s))
           = Effect(Instr("COPY_INT_VAR", x, LOCL), s)
PROOF
<1> DEFINE stored == [s EXCEPT !.mem[x + 1] = Top(s.stack), !.stack = Pop(s.stack, 1)]
<1>1. s.stack \in Seq(Int) /\ x + 1 \in 0..LocalSize /\ s.mem \in [0..LocalSize -> Int]
  BY MachineAssumption DEF State, Slots
<1>2. Effect(StorV(x, LOCL), s) = stored
  BY DEF Effect, StorV, Instr, LOCL, INST, Binary, Arithmetic, Comparison, Shifts
<1>3. stored.mem[x + 1] = Top(s.stack) /\ stored.stack = Pop(s.stack, 1)
  BY <1>1 DEF State
<1>4. Effect(LoadV(x, LOCL), stored)
        = [stored EXCEPT !.stack = Push(stored.stack, stored.mem[x + 1])]
  BY DEF Effect, LoadV, Instr, LOCL, INST, Binary, Arithmetic, Comparison, Shifts
<1>5. Push(stored.stack, stored.mem[x + 1]) = s.stack
  BY <1>1, <1>3, PopPush
<1>6. [stored EXCEPT !.stack = s.stack] = [s EXCEPT !.mem[x + 1] = Top(s.stack)]
  BY DEF State
<1>7. Effect(Instr("COPY_INT_VAR", x, LOCL), s) = [s EXCEPT !.mem[x + 1] = Top(s.stack)]
  BY DEF Effect, Instr, LOCL, INST, Binary, Arithmetic, Comparison, Shifts
<1> QED BY <1>2, <1>4, <1>5, <1>6, <1>7

\* RemoveUselessInstructions: loading a local and storing it where it came from
\* does nothing at all.
THEOREM LoadStoreIsNothing ==
  ASSUME NEW F, NEW s \in State(F), NEW x \in Slots
  PROVE  Effect(StorV(x, LOCL), Effect(LoadV(x, LOCL), s)) = s
PROOF
<1> DEFINE loaded == [s EXCEPT !.stack = Push(s.stack, s.mem[x + 1])]
<1>1. s.stack \in Seq(Int) /\ x + 1 \in 0..LocalSize /\ s.mem[x + 1] \in Int
  BY MachineAssumption DEF State, Slots
<1>2. Effect(LoadV(x, LOCL), s) = loaded
  BY DEF Effect, LoadV, Instr, LOCL, INST, Binary, Arithmetic, Comparison, Shifts
<1>3. loaded.mem = s.mem /\ loaded.stack = Push(s.stack, s.mem[x + 1])
  BY DEF State
<1>4. Top(loaded.stack) = s.mem[x + 1] /\ Pop(loaded.stack, 1) = s.stack
  BY <1>1, <1>3, PushPop
<1>5. Effect(StorV(x, LOCL), loaded)
        = [loaded EXCEPT !.mem[x + 1] = Top(loaded.stack), !.stack = Pop(loaded.stack, 1)]
  BY DEF Effect, StorV, Instr, LOCL, INST, Binary, Arithmetic, Comparison, Shifts
<1>6. [loaded EXCEPT !.mem[x + 1] = s.mem[x + 1], !.stack = s.stack] = s
  BY <1>1, <1>3 DEF State
<1> QED BY <1>2, <1>4, <1>5, <1>6

\* FoldIntConstants: the value of the operation on two literals can be loaded in
\* their place when it is an int of the compiler; the later literal is the left
\* operand.
THEOREM FoldedLiteral ==
  ASSUME NEW F, NEW s \in State(F), NEW a \in Int, NEW b \in Int, NEW op \in Binary
  PROVE  Effect(Op(op), Effect(Lit(b), Effect(Lit(a), s)))
           = Effect(Lit(Value(op, b, a)), s)
PROOF
<1> DEFINE one == [s EXCEPT !.stack = Push(s.stack, a)]
           two == [one EXCEPT !.stack = Push(one.stack, b)]
           v   == Value(op, b, a)
<1>1. s.stack \in Seq(Int) /\ one \in State(F) /\ two \in State(F)
  BY PushPop DEF State
<1>2. Effect(Lit(a), s) = one
  BY LoadLiteral
<1>3. Effect(Lit(b), one) = two
  BY <1>1, LoadLiteral
<1>4. two.stack = Push(Push(s.stack, a), b)
  BY DEF State
<1>5. Top(two.stack) = b /\ Second(two.stack) = a /\ Pop(two.stack, 2) = s.stack
  BY <1>1, <1>4, PushTwice
<1>6. Effect(Op(op), two)
        = [two EXCEPT !.stack = Push(Pop(two.stack, 2), Value(op, Top(two.stack), Second(two.stack)))]
  <2> DEFINE w == Value(op, Top(two.stack), Second(two.stack))
  <2>1. Op(op).op = op
    BY DEF Op, Instr
  <2> QED BY <2>1 DEF Effect, Binary, Arithmetic, Comparison, Shifts
<1>7. Effect(Op(op), two) = [two EXCEPT !.stack = Push(s.stack, v)]
  BY <1>5, <1>6
<1>8. [two EXCEPT !.stack = Push(s.stack, v)] = [s EXCEPT !.stack = Push(s.stack, v)]
  BY DEF State
<1>9. Effect(Lit(v), s) = [s EXCEPT !.stack = Push(s.stack, v)]
  BY LoadLiteral
<1> QED BY <1>2, <1>3, <1>7, <1>8, <1>9

-----------------------------------------------------------------------------
(* Sequences. *)
Distinct(s) == \A m, n \in DOMAIN s : s[m] = s[n] => m = n
Elements(s) == {s[n] : n \in DOMAIN s}

\* What is pushed is on top and popped first.
LEMMA Appended ==
  ASSUME NEW S, NEW s \in Seq(S), NEW x
  PROVE  /\ Append(s, x) \in Seq(S \cup {x}) /\ Len(Append(s, x)) = Len(s) + 1
         /\ DOMAIN Append(s, x) = 1..(Len(s) + 1) /\ DOMAIN s = 1..Len(s)
         /\ \A n \in 1..Len(s) : Append(s, x)[n] = s[n]
         /\ Append(s, x)[Len(s) + 1] = x
<1>1. s \in Seq(S \cup {x}) /\ x \in S \cup {x}
  OBVIOUS
<1> QED BY <1>1

\* What Pop takes away and what it leaves.
LEMMA Popped ==
  ASSUME NEW S, NEW s \in Seq(S), NEW k \in Nat, k <= Len(s)
  PROVE  /\ Pop(s, k) \in Seq(S) /\ Len(Pop(s, k)) = Len(s) - k
         /\ DOMAIN Pop(s, k) = 1..(Len(s) - k) /\ DOMAIN s = 1..Len(s)
         /\ \A n \in 1..(Len(s) - k) : Pop(s, k)[n] = s[n]
BY DEF Pop

\* One more of what there is not yet; the last is taken away.
LEMMA MoreElements ==
  ASSUME NEW S, NEW s \in Seq(S), NEW x, x \in S
  PROVE  /\ Push(s, x) \in Seq(S)
         /\ Elements(Push(s, x)) = Elements(s) \cup {x}
         /\ Distinct(s) /\ x \notin Elements(s) => Distinct(Push(s, x))
<1> DEFINE p == Push(s, x)
<1>1. /\ DOMAIN p = 1..(Len(s) + 1) /\ DOMAIN s = 1..Len(s) /\ Len(s) \in Nat
      /\ \A n \in 1..Len(s) : p[n] = s[n]
      /\ p[Len(s) + 1] = x
  BY Appended DEF Push
<1>2. p \in Seq(S)
  BY DEF Push
<1> HIDE DEF p
<1>3. Elements(p) = Elements(s) \cup {x}
  BY <1>1 DEF Elements
<1>4. Distinct(s) /\ x \notin Elements(s) => Distinct(p)
  BY <1>1 DEF Elements, Distinct
<1> QED BY <1>2, <1>3, <1>4 DEF p

\* Of different elements the last is taken: it is not among the others.
LEMMA FewerElements ==
  ASSUME NEW S, NEW s \in Seq(S), s # <<>>, Distinct(s)
  PROVE  /\ Pop(s, 1) \in Seq(S) /\ Top(s) \in Elements(s)
         /\ Elements(Pop(s, 1)) = Elements(s) \ {Top(s)} /\ Distinct(Pop(s, 1))
<1> DEFINE p == Pop(s, 1)
           last == Len(s)
<1>1. /\ p \in Seq(S) /\ DOMAIN p = 1..(last - 1)
      /\ DOMAIN s = 1..last /\ last \in Nat /\ last > 0
      /\ \A n \in 1..(last - 1) : p[n] = s[n]
  <2>1. last \in Nat /\ last > 0
    OBVIOUS
  <2> QED BY <2>1, Popped
<1>2. Top(s) = s[last]
  BY DEF Top
<1> HIDE DEF p, last
<1>3. Elements(p) = Elements(s) \ {s[last]} /\ s[last] \in Elements(s)
  BY <1>1 DEF Elements, Distinct
<1>4. Distinct(p)
  BY <1>1 DEF Distinct
<1> QED BY <1>1, <1>2, <1>3, <1>4 DEF p

\* Two sequences in a row.
LEMMA BothSequences ==
  ASSUME NEW S, NEW s \in Seq(S), NEW t \in Seq(S)
  PROVE  /\ Elements(s \o t) = Elements(s) \cup Elements(t)
         /\ Len(s \o t) = Len(s) + Len(t)
<1> DEFINE p == s \o t
<1>1. /\ DOMAIN p = 1..(Len(s) + Len(t)) /\ DOMAIN s = 1..Len(s) /\ DOMAIN t = 1..Len(t)
      /\ Len(s) \in Nat /\ Len(t) \in Nat /\ Len(p) = Len(s) + Len(t)
      /\ \A n \in 1..Len(s) : p[n] = s[n]
      /\ \A n \in 1..(Len(s) + Len(t)) : n > Len(s) => p[n] = t[n - Len(s)]
  OBVIOUS
<1> HIDE DEF p
<1>2. ASSUME NEW x \in Elements(p) PROVE x \in Elements(s) \cup Elements(t)
  <2>1. PICK n \in 1..(Len(s) + Len(t)) : x = p[n]
    BY <1>1 DEF Elements
  <2>2. n \in 1..Len(s) \/ (n > Len(s) /\ n - Len(s) \in 1..Len(t))
    BY <1>1
  <2> QED BY <1>1, <2>1, <2>2 DEF Elements
<1>3. ASSUME NEW x \in Elements(s) PROVE x \in Elements(p)
  <2>1. PICK n \in 1..Len(s) : x = s[n]
    BY <1>1 DEF Elements
  <2>2. n \in 1..(Len(s) + Len(t))
    BY <1>1
  <2> QED BY <1>1, <2>1, <2>2 DEF Elements
<1>4. ASSUME NEW x \in Elements(t) PROVE x \in Elements(p)
  <2>1. PICK n \in 1..Len(t) : x = t[n]
    BY <1>1 DEF Elements
  <2>2. n + Len(s) \in 1..(Len(s) + Len(t)) /\ n + Len(s) > Len(s) /\ (n + Len(s)) - Len(s) = n
    BY <1>1
  <2> QED BY <1>1, <2>1, <2>2 DEF Elements
<1> QED BY <1>1, <1>2, <1>3, <1>4 DEF p

\* A sequence is one over any set its elements are in.
LEMMA ElementsOf ==
  ASSUME NEW S, NEW s \in Seq(S), NEW T, Elements(s) \subseteq T
  PROVE  s \in Seq(T)
<1>1. Len(s) \in Nat /\ DOMAIN s = 1..Len(s) /\ s = [n \in 1..Len(s) |-> s[n]]
  OBVIOUS
<1>2. \A n \in 1..Len(s) : s[n] \in T
  BY <1>1 DEF Elements
<1>3. s \in [1..Len(s) -> T]
  BY <1>1, <1>2
<1> QED BY <1>1, <1>3 DEF Seq

-----------------------------------------------------------------------------
(* The owners of the registers: the two pools, the entries of the working  *)
(* stack, and the operation that has those of hand.                        *)
Operand(x) == x.type \in {"IMM_INT", "REG_INT", "MEM_INT"}
Stack(ws)  == (\E S : ws \in Seq(S)) /\ \A n \in DOMAIN ws : Operand(ws[n])
Hold(x)    == IF IsReg(x) THEN {x.holder} ELSE {}
Holders(ws) == UNION {Hold(ws[n]) : n \in DOMAIN ws}
OneEach(ws) == \A m, n \in DOMAIN ws : Hold(ws[m]) \cap Hold(ws[n]) # {} => m = n

Pools(c) == /\ c.aval_regs \in Seq(Pooled) /\ Distinct(c.aval_regs)
            /\ c.aux_regs \in Seq(Pooled) /\ Distinct(c.aux_regs)
            /\ Elements(c.aval_regs) \cap Elements(c.aux_regs) = {}
Unused(c) == Elements(c.aval_regs) \cup Elements(c.aux_regs)

Parts == {"method", "instr_index", "working_stack", "aval_regs", "aux_regs", "code", "offsets",
          "skip_jump", "compile_success"}
IsCompiler(c) == DOMAIN c = Parts /\ c.compile_success \in BOOLEAN /\ Stack(c.working_stack)
Divided(c, hand) ==
  /\ Pools(c) /\ OneEach(c.working_stack)
  /\ Unused(c) \cap Holders(c.working_stack) = {}
  /\ Unused(c) \cap hand = {} /\ Holders(c.working_stack) \cap hand = {}
  /\ Unused(c) \cup Holders(c.working_stack) \cup hand = Pooled
Owned(c, hand) == IsCompiler(c) /\ (c.compile_success => Divided(c, hand))

\* What an operation leaves as it is: it ends behind the same instruction, has
\* not undone a failure, and skips a jump that comes next or not at all.
Keeps(c, d) ==
  /\ d.method = c.method /\ d.instr_index = c.instr_index
  /\ d.compile_success => c.compile_success
  /\ d.skip_jump => c.skip_jump \/ CondJump(c, Code(c.method))

\* Two operations in a row.
LEMMA KeepsOn ==
  ASSUME NEW c, NEW d, NEW e, Keeps(c, d), Keeps(d, e)
  PROVE  Keeps(c, e)
BY DEF Keeps, CondJump

\* What is in hand counts only while the translation goes on.
LEMMA OwnedAs ==
  ASSUME NEW c, NEW hand, Owned(c, hand), NEW H, c.compile_success => hand = H
  PROVE  Owned(c, H)
BY DEF Owned

\* A working stack with one more entry.
LEMMA StackPushed ==
  ASSUME NEW ws, Stack(ws), NEW x, Operand(x)
  PROVE  /\ Stack(Push(ws, x)) /\ Len(Push(ws, x)) = Len(ws) + 1 /\ Len(ws) \in Nat
         /\ Top(Push(ws, x)) = x /\ Pop(Push(ws, x), 1) = ws
         /\ Holders(Push(ws, x)) = Holders(ws) \cup Hold(x)
         /\ OneEach(ws) /\ Hold(x) \cap Holders(ws) = {} => OneEach(Push(ws, x))
<1>1. PICK S : ws \in Seq(S)
  BY DEF Stack
<1> DEFINE p == Push(ws, x)
<1>2. /\ p \in Seq(S \cup {x}) /\ Len(p) = Len(ws) + 1 /\ DOMAIN p = 1..(Len(ws) + 1)
      /\ DOMAIN ws = 1..Len(ws) /\ Len(ws) \in Nat
      /\ \A n \in 1..Len(ws) : p[n] = ws[n]
      /\ p[Len(ws) + 1] = x
  BY <1>1, Appended DEF Push
<1>3. Pop(p, 1) = ws
  BY <1>1, <1>2 DEF Pop
<1> HIDE DEF p
<1>4. Stack(p)
  BY <1>2 DEF Stack
<1>5. Holders(p) = Holders(ws) \cup Hold(x)
  BY <1>2 DEF Holders
<1>6. OneEach(ws) /\ Hold(x) \cap Holders(ws) = {} => OneEach(p)
  BY <1>2 DEF Holders, OneEach
<1>7. Top(p) = x
  BY <1>2 DEF Top
<1> QED BY <1>2, <1>3, <1>4, <1>5, <1>6, <1>7 DEF p

\* A working stack without its top entry, which holds nothing another one does.
LEMMA StackPopped ==
  ASSUME NEW ws, Stack(ws), Len(ws) > 0
  PROVE  /\ Stack(Pop(ws, 1)) /\ Len(Pop(ws, 1)) = Len(ws) - 1 /\ Len(ws) \in Nat
         /\ Operand(Top(ws))
         /\ Holders(ws) = Holders(Pop(ws, 1)) \cup Hold(Top(ws))
         /\ OneEach(ws) => /\ OneEach(Pop(ws, 1))
                           /\ Holders(Pop(ws, 1)) \cap Hold(Top(ws)) = {}
<1>1. PICK S : ws \in Seq(S)
  BY DEF Stack
<1> DEFINE p == Pop(ws, 1)
           last == Len(ws)
<1>2. /\ p \in Seq(S) /\ Len(p) = last - 1 /\ DOMAIN p = 1..(last - 1)
      /\ DOMAIN ws = 1..last /\ last \in Nat /\ last > 0
      /\ \A n \in 1..(last - 1) : p[n] = ws[n]
  BY <1>1, Popped
<1>3. Top(ws) = ws[last] /\ Operand(ws[last])
  BY <1>2 DEF Top, Stack
<1> HIDE DEF p, last
<1>4. Stack(p)
  BY <1>2 DEF Stack
<1>5. Holders(ws) = Holders(p) \cup Hold(ws[last])
  BY <1>2 DEF Holders
<1>6. OneEach(ws) => OneEach(p) /\ Holders(p) \cap Hold(ws[last]) = {}
  BY <1>2 DEF Holders, OneEach
<1> QED BY <1>2, <1>3, <1>4, <1>5, <1>6 DEF p, last

-----------------------------------------------------------------------------
(* The operations that all others are made of. *)

\* Code is appended, and nothing else changes.
LEMMA GenKeeps ==
  ASSUME NEW c, NEW hand, Owned(c, hand), NEW instrs
  PROVE  LET d == Gen(c, instrs)
         IN  Owned(d, hand) /\ Keeps(c, d) /\ d.working_stack = c.working_stack
BY DEF Gen, Owned, IsCompiler, Parts, Divided, Pools, Unused, Keeps

\* A register is taken that nobody has.
LEMMA GetRegisterOwned ==
  ASSUME NEW c, NEW hand, Owned(c, hand)
  PROVE  LET d == GetRegister(c)
         IN  /\ Owned(d, hand \cup {Register(c)}) /\ Keeps(c, d)
             /\ d.working_stack = c.working_stack
             /\ d.compile_success => Register(c) \notin hand
<1> DEFINE d == GetRegister(c)
           r == Register(c)
<1>1. CASE c.aval_regs # <<>>
  <2>1. d = [c EXCEPT !.aval_regs = Pop(c.aval_regs, 1)] /\ r = Top(c.aval_regs)
    BY <1>1 DEF GetRegister, Register
  <2>2. /\ IsCompiler(d) /\ Keeps(c, d) /\ d.working_stack = c.working_stack
        /\ d.aval_regs = Pop(c.aval_regs, 1) /\ d.aux_regs = c.aux_regs
        /\ d.compile_success = c.compile_success
    BY <2>1 DEF Owned, IsCompiler, Parts, Keeps
  <2> HIDE DEF d, r
  <2>3. ASSUME c.compile_success
        PROVE  /\ d.aval_regs \in Seq(Pooled) /\ Distinct(d.aval_regs)
               /\ Elements(d.aval_regs) = Elements(c.aval_regs) \ {r}
               /\ r \in Elements(c.aval_regs)
    BY <1>1, <2>1, <2>2, <2>3, FewerElements DEF Owned, Divided, Pools
  <2>4. c.compile_success => Divided(d, hand \cup {r}) /\ r \notin hand
    BY <2>2, <2>3 DEF Owned, Divided, Pools, Unused
  <2>5. Owned(d, hand \cup {r}) /\ (d.compile_success => r \notin hand)
    BY <2>2, <2>4 DEF Owned
  <2> QED BY <2>2, <2>5 DEF d, r
<1>2. CASE c.aval_regs = <<>> /\ c.aux_regs # <<>>
  <2>1. d = [c EXCEPT !.aux_regs = Pop(c.aux_regs, 1)] /\ r = Top(c.aux_regs)
    BY <1>2 DEF GetRegister, Register
  <2>2. /\ IsCompiler(d) /\ Keeps(c, d) /\ d.working_stack = c.working_stack
        /\ d.aux_regs = Pop(c.aux_regs, 1) /\ d.aval_regs = c.aval_regs
        /\ d.compile_success = c.compile_success
    BY <2>1 DEF Owned, IsCompiler, Parts, Keeps
  <2> HIDE DEF d, r
  <2>3. ASSUME c.compile_success
        PROVE  /\ d.aux_regs \in Seq(Pooled) /\ Distinct(d.aux_regs)
               /\ Elements(d.aux_regs) = Elements(c.aux_regs) \ {r}
               /\ r \in Elements(c.aux_regs)
    BY <1>2, <2>1, <2>2, <2>3, FewerElements DEF Owned, Divided, Pools
  <2>4. c.compile_success => Divided(d, hand \cup {r}) /\ r \notin hand
    BY <2>2, <2>3 DEF Owned, Divided, Pools, Unused
  <2>5. Owned(d, hand \cup {r}) /\ (d.compile_success => r \notin hand)
    BY <2>2, <2>4 DEF Owned
  <2> QED BY <2>2, <2>5 DEF d, r
<1>3. CASE c.aval_regs = <<>> /\ c.aux_regs = <<>>
  <2>1. d = [c EXCEPT !.compile_success = FALSE]
    BY <1>3 DEF GetRegister
  <2> QED BY <2>1 DEF Owned, IsCompiler, Parts, Keeps
<1> QED BY <1>1, <1>2, <1>3

\* A register of the operation is given back.
LEMMA ReleaseRegisterOwned ==
  ASSUME NEW c, NEW hand, Owned(c, hand), NEW r, NEW H,
         c.compile_success => hand = H \cup {r} /\ r \notin H
  PROVE  LET d == ReleaseRegister(c, r)
         IN  Owned(d, H) /\ Keeps(c, d) /\ d.working_stack = c.working_stack
<1> DEFINE d == ReleaseRegister(c, r)
<1>1. /\ IsCompiler(d) /\ Keeps(c, d) /\ d.working_stack = c.working_stack
      /\ d.aval_regs = Push(c.aval_regs, r) /\ d.aux_regs = c.aux_regs
      /\ d.compile_success = c.compile_success
  BY DEF ReleaseRegister, Owned, IsCompiler, Parts, Keeps
<1> HIDE DEF d
<1>2. ASSUME c.compile_success PROVE Divided(d, H)
  <2>1. Divided(c, H \cup {r}) /\ r \notin H
    BY <1>2 DEF Owned
  <2>2. r \in Pooled /\ r \notin Elements(c.aval_regs) /\ c.aval_regs \in Seq(Pooled)
    BY <2>1 DEF Divided, Unused, Pools
  <2>3. /\ d.aval_regs \in Seq(Pooled) /\ Distinct(d.aval_regs)
        /\ Elements(d.aval_regs) = Elements(c.aval_regs) \cup {r}
    BY <1>1, <2>1, <2>2, MoreElements DEF Divided, Pools
  <2> QED BY <1>1, <2>1, <2>3 DEF Divided, Unused, Pools
<1>3. Owned(d, H)
  BY <1>1, <1>2 DEF Owned
<1> QED BY <1>1, <1>3 DEF d

\* The operation puts an entry on the working stack, with its register.
LEMMA PushWorkOwned ==
  ASSUME NEW c, NEW hand, Owned(c, hand), NEW x, Operand(x), NEW H,
         c.compile_success => hand = H \cup Hold(x) /\ Hold(x) \cap H = {}
  PROVE  LET d == PushWork(c, x)
         IN  /\ Owned(d, H) /\ Keeps(c, d)
             /\ d.working_stack = Push(c.working_stack, x)
             /\ Len(d.working_stack) = Len(c.working_stack) + 1 /\ Len(c.working_stack) \in Nat
             /\ TopWork(d) = x /\ Pop(d.working_stack, 1) = c.working_stack
<1> DEFINE d == PushWork(c, x)
           ws == c.working_stack
<1>1. /\ DOMAIN d = Parts /\ d.compile_success = c.compile_success /\ Keeps(c, d)
      /\ d.working_stack = Push(ws, x) /\ d.aval_regs = c.aval_regs /\ d.aux_regs = c.aux_regs
  BY DEF PushWork, Owned, IsCompiler, Parts, Keeps
<1> HIDE DEF d
<1>2. /\ Stack(d.working_stack) /\ Len(d.working_stack) = Len(ws) + 1 /\ Len(ws) \in Nat
      /\ Top(d.working_stack) = x /\ Pop(d.working_stack, 1) = ws
      /\ Holders(d.working_stack) = Holders(ws) \cup Hold(x)
      /\ OneEach(ws) /\ Hold(x) \cap Holders(ws) = {} => OneEach(d.working_stack)
  BY <1>1, StackPushed DEF Owned, IsCompiler
<1>3. IsCompiler(d)
  BY <1>1, <1>2 DEF Owned, IsCompiler
<1>4. ASSUME c.compile_success PROVE Divided(d, H)
  <2>1. Divided(c, H \cup Hold(x)) /\ Hold(x) \cap H = {}
    BY <1>4 DEF Owned
  <2>2. OneEach(d.working_stack) /\ Pools(d) /\ Unused(d) = Unused(c)
    BY <1>1, <1>2, <2>1 DEF Divided, Pools, Unused
  <2> QED BY <1>2, <2>1, <2>2 DEF Divided
<1>5. Owned(d, H)
  BY <1>1, <1>3, <1>4 DEF Owned
<1> QED BY <1>1, <1>2, <1>5 DEF d, TopWork

\* The operation takes the entry on top, with its register.
LEMMA PopWorkOwned ==
  ASSUME NEW c, NEW hand, Owned(c, hand), Len(c.working_stack) > 0
  PROVE  LET d == PopWork(c)
             x == TopWork(c)
         IN  /\ Owned(d, hand \cup Hold(x)) /\ Keeps(c, d) /\ Operand(x)
             /\ d.working_stack = Pop(c.working_stack, 1)
             /\ Len(d.working_stack) = Len(c.working_stack) - 1 /\ Len(c.working_stack) \in Nat
             /\ c.compile_success => Hold(x) \cap hand = {}
<1> DEFINE d == PopWork(c)
           x == TopWork(c)
           ws == c.working_stack
<1>1. /\ DOMAIN d = Parts /\ d.compile_success = c.compile_success /\ Keeps(c, d)
      /\ d.working_stack = Pop(ws, 1) /\ d.aval_regs = c.aval_regs /\ d.aux_regs = c.aux_regs
  BY DEF PopWork, Owned, IsCompiler, Parts, Keeps
<1> HIDE DEF d
<1>2. /\ Stack(d.working_stack) /\ Len(d.working_stack) = Len(ws) - 1 /\ Len(ws) \in Nat
      /\ Operand(x) /\ Holders(ws) = Holders(d.working_stack) \cup Hold(x)
      /\ OneEach(ws) => /\ OneEach(d.working_stack)
                        /\ Holders(d.working_stack) \cap Hold(x) = {}
  BY <1>1, StackPopped DEF Owned, IsCompiler, TopWork
<1> HIDE DEF x
<1>3. IsCompiler(d)
  BY <1>1, <1>2 DEF Owned, IsCompiler
<1>4. ASSUME c.compile_success PROVE Divided(d, hand \cup Hold(x)) /\ Hold(x) \cap hand = {}
  <2>1. Divided(c, hand)
    BY <1>4 DEF Owned
  <2>2. OneEach(d.working_stack) /\ Pools(d) /\ Unused(d) = Unused(c)
    BY <1>1, <1>2, <2>1 DEF Divided, Pools, Unused
  <2> QED BY <1>2, <2>1, <2>2 DEF Divided
<1>5. Owned(d, hand \cup Hold(x))
  BY <1>1, <1>3, <1>4 DEF Owned
<1> QED BY <1>1, <1>2, <1>4, <1>5 DEF d, x

-----------------------------------------------------------------------------
(* The operations made of them. *)
Same(c, d) == Keeps(c, d) /\ d.working_stack = c.working_stack

\* Two operations in a row that leave the working stack.
LEMMA SameOn ==
  ASSUME NEW c, NEW d, NEW e, Same(c, d), Same(d, e)
  PROVE  Same(c, e)
BY KeepsOn DEF Same

\* The three kinds of RegInstr: only one in a register holds something.
LEMMA Kinds ==
  ASSUME NEW r
  PROVE  /\ IsReg(Reg(r)) /\ Operand(Reg(r)) /\ Hold(Reg(r)) = {r} /\ Reg(r).holder = r
         /\ Operand(Imm(r)) /\ Hold(Imm(r)) = {} /\ \A base : Operand(Mem(r, base)) /\ Hold(Mem(r, base)) = {}
         /\ Operand(OnFrame(r)) /\ Hold(OnFrame(r)) = {} /\ ~IsReg(OnFrame(r))
BY DEF IsReg, Operand, Hold, Reg, Imm, Mem, OnFrame

\* Which register is next depends on the pools alone.
LEMMA NextRegister ==
  ASSUME NEW c, IsCompiler(c), NEW instrs
  PROVE  Register(PopWork(c)) = Register(c) /\ Register(Gen(c, instrs)) = Register(c)
BY DEF Register, PopWork, Gen, IsCompiler, Parts

\* Release gives back what the entry holds, if anything.
LEMMA ReleaseOwned ==
  ASSUME NEW c, NEW hand, Owned(c, hand), NEW x, NEW H,
         c.compile_success => hand = H \cup Hold(x) /\ Hold(x) \cap H = {}
  PROVE  LET d == Release(c, x) IN Owned(d, H) /\ Same(c, d)
<1>1. CASE IsReg(x)
  <2>1. c.compile_success => hand = H \cup {x.holder} /\ x.holder \notin H
    BY <1>1 DEF Hold
  <2> QED BY <1>1, <2>1, ReleaseRegisterOwned DEF Release, Same
<1>2. CASE ~IsReg(x)
  <2>1. c.compile_success => hand = H
    BY <1>2 DEF Hold
  <2>2. Owned(c, H)
    BY <2>1, OwnedAs
  <2> QED BY <1>2, <2>2 DEF Release, Same, Keeps
<1> QED BY <1>1, <1>2

\* InRegister has one register more in hand.
LEMMA InRegisterOwned ==
  ASSUME NEW c, NEW hand, Owned(c, hand), NEW x
  PROVE  LET d == InRegister(c, x)
         IN  /\ Owned(d, hand \cup {Register(c)}) /\ Same(c, d)
             /\ d.compile_success => Register(c) \notin hand
             /\ Register(d) = Register(GetRegister(c))
<1> DEFINE e == GetRegister(c)
           d == InRegister(c, x)
<1>1. /\ Owned(e, hand \cup {Register(c)}) /\ Same(c, e)
      /\ e.compile_success => Register(c) \notin hand
  BY GetRegisterOwned DEF Same
<1> HIDE DEF e
<1>2. d = Gen(e, <<Mov(x, Reg(Register(c)))>>)
  BY DEF InRegister, e
<1>3. Owned(d, hand \cup {Register(c)}) /\ Same(e, d) /\ Register(d) = Register(e)
  BY <1>1, <1>2, GenKeeps, NextRegister DEF Same, Owned
<1> HIDE DEF d
<1>4. d.compile_success => e.compile_success
  BY <1>3 DEF Same, Keeps
<1> QED BY <1>1, <1>3, <1>4, SameOn DEF d, e

\* A register for a moment.
LEMMA MomentOwned ==
  ASSUME NEW c, NEW hand, Owned(c, hand), NEW x, NEW instrs
  PROVE  LET d == ReleaseRegister(Gen(InRegister(c, x), instrs), Register(c))
         IN  Owned(d, hand) /\ Same(c, d)
<1> DEFINE e == InRegister(c, x)
           g == Gen(e, instrs)
           r == Register(c)
<1>1. Owned(e, hand \cup {r}) /\ Same(c, e) /\ (e.compile_success => r \notin hand)
  BY InRegisterOwned
<1> HIDE DEF e, r
<1>2. Owned(g, hand \cup {r}) /\ Same(e, g)
  BY <1>1, GenKeeps DEF Same
<1> HIDE DEF g
<1>3. g.compile_success => r \notin hand
  BY <1>1, <1>2 DEF Same, Keeps
<1>4. Owned(ReleaseRegister(g, r), hand) /\ Same(g, ReleaseRegister(g, r))
  BY <1>2, <1>3, ReleaseRegisterOwned DEF Same
<1> QED BY <1>1, <1>2, <1>4, SameOn DEF e, g, r

\* The address on top is in hand, and off the working stack.
LEMMA AddressedOwned ==
  ASSUME NEW c, NEW hand, Owned(c, hand), Len(c.working_stack) > 0
  PROVE  LET d == Addressed(c)
             r == Address(c)
         IN  /\ Owned(d, hand \cup {r}) /\ Keeps(c, d)
             /\ d.working_stack = Pop(c.working_stack, 1)
             /\ d.compile_success => r \notin hand
<1> DEFINE x == TopWork(c)
           p == PopWork(c)
           e == IF IsReg(x) THEN p ELSE InRegister(p, OnFrame(x.operand))
           r == Address(c)
           d == Addressed(c)
<1>1. /\ Owned(p, hand \cup Hold(x)) /\ Keeps(c, p) /\ p.working_stack = Pop(c.working_stack, 1)
      /\ c.compile_success => Hold(x) \cap hand = {}
  BY PopWorkOwned
<1>2. Register(p) = Register(c)
  BY NextRegister DEF Owned
<1>3. r = IF IsReg(x) THEN x.holder ELSE Register(c)
  BY DEF Address
<1>4. d = Gen(e, <<Machine("check", "always", Reg(r), Reg(r))>>)
  BY DEF Addressed
<1> HIDE DEF x, p, r, d
<1>5. /\ Owned(e, hand \cup {r}) /\ Same(p, e) /\ (e.compile_success => r \notin hand)
  <2>1. CASE IsReg(x)
    BY <2>1, <1>1, <1>3 DEF Hold, Same, Keeps
  <2>2. CASE ~IsReg(x)
    <3>1. Hold(x) = {} /\ hand \cup Hold(x) = hand
      BY <2>2 DEF Hold
    <3> QED BY <2>2, <3>1, <1>1, <1>2, <1>3, InRegisterOwned
  <2> QED BY <2>1, <2>2
<1> HIDE DEF e
<1>6. Owned(d, hand \cup {r}) /\ Same(e, d)
  BY <1>4, <1>5, GenKeeps DEF Same
<1>7. Same(p, d) /\ (d.compile_success => r \notin hand)
  BY <1>5, <1>6, SameOn DEF Same, Keeps
<1> QED BY <1>1, <1>6, <1>7, KeepsOn DEF Same, p, r, d

\* The value on top is stored; its register, if it has one, is free.
LEMMA StoreToOwned ==
  ASSUME NEW c, NEW hand, Owned(c, hand), Len(c.working_stack) > 0, NEW target
  PROVE  LET d == StoreTo(c, target)
         IN  /\ Owned(d, hand) /\ Keeps(c, d)
             /\ d.working_stack = Pop(c.working_stack, 1)
<1> DEFINE x == TopWork(c)
           p == PopWork(c)
           d == StoreTo(c, target)
<1>1. /\ Owned(p, hand \cup Hold(x)) /\ Keeps(c, p) /\ p.working_stack = Pop(c.working_stack, 1)
      /\ c.compile_success => Hold(x) \cap hand = {}
  BY PopWorkOwned
<1>2. d = IF x.type = "MEM_INT"
          THEN ReleaseRegister(Gen(InRegister(p, x), <<Mov(Reg(Register(p)), target)>>), Register(p))
          ELSE Release(Gen(p, <<Mov(x, target)>>), x)
  BY DEF StoreTo
<1> HIDE DEF x, p, d
<1>3. CASE x.type = "MEM_INT"
  <2>1. Hold(x) = {} /\ hand \cup Hold(x) = hand
    BY <1>3 DEF Hold, IsReg
  <2>2. Owned(d, hand) /\ Same(p, d)
    BY <1>1, <1>2, <1>3, <2>1, MomentOwned
  <2> QED BY <1>1, <2>2, KeepsOn DEF Same, d, p
<1>4. CASE x.type # "MEM_INT"
  <2> DEFINE g == Gen(p, <<Mov(x, target)>>)
  <2>1. Owned(g, hand \cup Hold(x)) /\ Same(p, g)
    BY <1>1, GenKeeps DEF Same
  <2>2. d = Release(g, x)
    BY <1>2, <1>4
  <2> HIDE DEF g
  <2>3. g.compile_success => Hold(x) \cap hand = {}
    BY <1>1, <2>1 DEF Same, Keeps
  <2>4. Owned(d, hand) /\ Same(g, d)
    BY <2>1, <2>2, <2>3, ReleaseOwned
  <2> QED BY <1>1, <2>1, <2>4, KeepsOn, SameOn DEF Same, d, p
<1> QED BY <1>3, <1>4

-----------------------------------------------------------------------------
(* Loads, stores and copies. *)
LEMMA ProcessLoadOwned ==
  ASSUME NEW c, Owned(c, {}), NEW code, NEW i, ~IsLocal(i) => Len(c.working_stack) > 0
  PROVE  LET d == ProcessLoad(c, code, i) IN Owned(d, {}) /\ Keeps(c, d)
<1> DEFINE d == ProcessLoad(c, code, i)
<1>1. CASE IsLocal(i)
  <2> DEFINE x == Target(code, i, "RBP")
  <2>1. d = PushWork(c, x)
    BY <1>1 DEF ProcessLoad
  <2>2. Operand(x) /\ Hold(x) = {}
    BY Kinds DEF Target
  <2> HIDE DEF x
  <2> QED BY <2>1, <2>2, PushWorkOwned
<1>2. CASE ~IsLocal(i)
  <2> DEFINE r == Address(c)
             e == Addressed(c)
             g == Gen(e, <<Mov(Target(code, i, r), Reg(r))>>)
  <2>1. d = PushWork(g, Reg(r))
    BY <1>2 DEF ProcessLoad
  <2>2. Owned(e, {r}) /\ Keeps(c, e)
    <3>1. {} \cup {r} = {r}
      OBVIOUS
    <3> QED BY <1>2, <3>1, AddressedOwned
  <2> HIDE DEF r, e
  <2>3. Owned(g, {r}) /\ Keeps(c, g)
    BY <2>2, GenKeeps, KeepsOn
  <2> HIDE DEF g
  <2>4. Owned(PushWork(g, Reg(r)), {}) /\ Keeps(g, PushWork(g, Reg(r)))
    BY <2>3, PushWorkOwned, Kinds
  <2> QED BY <2>1, <2>3, <2>4, KeepsOn
<1> QED BY <1>1, <1>2

\* STOR_INT_VAR takes a value, and an address for a field, and gives back what they held.
LEMMA ProcessStoreOwned ==
  ASSUME NEW c, NEW hand, Owned(c, hand), NEW code, NEW i,
         Len(c.working_stack) >= IF IsLocal(i) THEN 1 ELSE 2
  PROVE  LET d == ProcessStore(c, code, i) IN Owned(d, hand) /\ Keeps(c, d)
<1> DEFINE d == ProcessStore(c, code, i)
<1>0. Len(c.working_stack) \in Nat
  BY DEF Owned, IsCompiler, Stack
<1>1. CASE IsLocal(i)
  BY <1>0, <1>1, StoreToOwned DEF ProcessStore
<1>2. CASE ~IsLocal(i)
  <2> DEFINE r == Address(c)
             e == Addressed(c)
             g == StoreTo(e, Target(code, i, r))
  <2>1. d = ReleaseRegister(g, r)
    BY <1>2 DEF ProcessStore
  <2>2. /\ Owned(e, hand \cup {r}) /\ Keeps(c, e) /\ (e.compile_success => r \notin hand)
        /\ e.working_stack = Pop(c.working_stack, 1)
    BY <1>0, <1>2, AddressedOwned
  <2>3. Len(e.working_stack) > 0
    BY <1>0, <1>2, <2>2, StackPopped DEF Owned, IsCompiler
  <2> HIDE DEF r, e
  <2>4. Owned(g, hand \cup {r}) /\ Keeps(e, g)
    BY <2>2, <2>3, StoreToOwned
  <2> HIDE DEF g
  <2>5. g.compile_success => r \notin hand
    BY <2>2, <2>4 DEF Keeps
  <2>6. Owned(d, hand) /\ Keeps(g, d)
    BY <2>1, <2>4, <2>5, ReleaseRegisterOwned
  <2> QED BY <2>2, <2>4, <2>6, KeepsOn
<1> QED BY <1>1, <1>2

\* The object of a field is fetched and its register free before the value's is
\* taken: both may be the same one.
LEMMA ProcessCopyOwned ==
  ASSUME NEW c, Owned(c, {}), NEW code, NEW i,
         Len(c.working_stack) >= IF IsLocal(i) THEN 1 ELSE 2,
         ~IsLocal(i) => ~IsReg(TopWork(c))
  PROVE  LET d == ProcessCopy(c, code, i) IN Owned(d, {}) /\ Keeps(c, d)
<1> DEFINE r == Register(PopWork(c))
           fetched_object == InRegister(PopWork(c), OnFrame(TopWork(c).operand))
           e == IF IsLocal(i) THEN c
                ELSE ReleaseRegister(Gen(fetched_object, <<Machine("check", "always", Reg(r), Reg(r))>>), r)
           target == Target(code, i, IF IsLocal(i) THEN "RBP" ELSE r)
           x == TopWork(e)
           p == PopWork(e)
           v == Register(p)
           d == ProcessCopy(c, code, i)
<1>1. d = IF IsReg(x) THEN Gen(e, <<Mov(x, target)>>)
          ELSE PushWork(Gen(InRegister(p, x), <<Mov(Reg(v), target)>>), Reg(v))
  BY DEF ProcessCopy
<1>2. Len(c.working_stack) \in Nat
  BY DEF Owned, IsCompiler, Stack
<1>3. Owned(e, {}) /\ Keeps(c, e) /\ Len(e.working_stack) > 0
  <2>1. CASE IsLocal(i)
    BY <2>1, <1>2 DEF Keeps
  <2>2. CASE ~IsLocal(i)
    <3> DEFINE q == PopWork(c)
    <3>1. /\ Owned(q, Hold(TopWork(c))) /\ Keeps(c, q)
          /\ Len(q.working_stack) = Len(c.working_stack) - 1
      <4>1. {} \cup Hold(TopWork(c)) = Hold(TopWork(c))
        OBVIOUS
      <4>2. Len(c.working_stack) > 0
        BY <2>2, <1>2
      <4> QED BY <4>1, <4>2, PopWorkOwned
    <3>2. Hold(TopWork(c)) = {}
      BY <2>2 DEF Hold
    <3>3. Owned(e, {}) /\ Same(q, e)
      BY <2>2, <3>1, <3>2, MomentOwned
    <3> QED BY <1>2, <2>2, <3>1, <3>3, KeepsOn DEF Same
  <2> QED BY <2>1, <2>2
<1> HIDE DEF e, target, d
<1>4. CASE IsReg(x)
  <2>1. Owned(Gen(e, <<Mov(x, target)>>), {}) /\ Keeps(e, Gen(e, <<Mov(x, target)>>))
    BY <1>3, GenKeeps
  <2> QED BY <1>1, <1>3, <1>4, <2>1, KeepsOn DEF d
<1>5. CASE ~IsReg(x)
  <2>1. Owned(p, {}) /\ Keeps(e, p)
    <3>1. {} \cup Hold(x) = {}
      BY <1>5 DEF Hold
    <3> QED BY <1>3, <3>1, PopWorkOwned
  <2> HIDE DEF p, x
  <2> DEFINE f == InRegister(p, x)
             g == Gen(f, <<Mov(Reg(v), target)>>)
  <2>2. Owned(f, {v}) /\ Keeps(p, f)
    <3>1. {} \cup {v} = {v}
      OBVIOUS
    <3> QED BY <2>1, <3>1, InRegisterOwned DEF Same
  <2> HIDE DEF f, v
  <2>3. Owned(g, {v}) /\ Keeps(f, g)
    BY <2>2, GenKeeps
  <2> HIDE DEF g
  <2>4. Owned(PushWork(g, Reg(v)), {}) /\ Keeps(g, PushWork(g, Reg(v)))
    BY <2>3, PushWorkOwned, Kinds
  <2>5. d = PushWork(g, Reg(v))
    BY <1>1, <1>5 DEF f, g, p, v, x
  <2> QED BY <1>3, <2>1, <2>2, <2>3, <2>4, <2>5, KeepsOn DEF d
<1> QED BY <1>4, <1>5

-----------------------------------------------------------------------------
(* Jumps and conditions. *)

\* A jump behind its condition gives the register of the value back.
LEMMA ProcessJumpOwned ==
  ASSUME NEW c, Owned(c, {}), NEW i, i.b \in Int,
         c.skip_jump \/ i.b >= 0 => Len(c.working_stack) > 0
  PROVE  LET d == ProcessJump(c, i)
         IN  Owned(d, {}) /\ Keeps(c, d) /\ (c.skip_jump => ~d.skip_jump)
<1> DEFINE x == TopWork(c)
           p == PopWork(c)
           r == Register(p)
           g == Gen(p, <<Cmp(Imm(i.b), x.holder)>>)
           compared == IF IsReg(x) THEN ReleaseRegister(g, x.holder)
                       ELSE ReleaseRegister(Gen(InRegister(p, x), <<Cmp(Imm(i.b), r)>>), r)
           d == ProcessJump(c, i)
<1>1. /\ c.skip_jump => d = [Release(p, x) EXCEPT !.skip_jump = FALSE]
      /\ ~c.skip_jump /\ i.b < 0 => d = Gen(c, <<Jcc("always", i.a)>>)
      /\ ~c.skip_jump /\ i.b >= 0 => d = Gen(compared, <<Jcc("EQL_INT", i.a)>>)
  BY DEF ProcessJump
<1>2. ASSUME Len(c.working_stack) > 0
      PROVE  /\ Owned(p, Hold(x)) /\ Keeps(c, p)
  <2>1. {} \cup Hold(x) = Hold(x)
    OBVIOUS
  <2> QED BY <1>2, <2>1, PopWorkOwned
<1> HIDE DEF d
<1>3. CASE c.skip_jump
  <2> DEFINE e == Release(p, x)
  <2>1. Owned(e, {}) /\ Keeps(c, e)
    <3>1. Hold(x) = {} \cup Hold(x) /\ Hold(x) \cap {} = {}
      OBVIOUS
    <3> QED BY <1>2, <1>3, <3>1, ReleaseOwned, KeepsOn DEF Same
  <2> HIDE DEF e, p, x
  <2>2. d = [e EXCEPT !.skip_jump = FALSE]
    BY <1>1, <1>3 DEF e
  <2>3. Owned(d, {}) /\ Keeps(e, d) /\ ~d.skip_jump
    BY <2>1, <2>2 DEF Owned, IsCompiler, Parts, Divided, Pools, Unused, Keeps
  <2> QED BY <2>1, <2>3, KeepsOn DEF d
<1>4. CASE ~c.skip_jump /\ i.b < 0
  BY <1>1, <1>4, GenKeeps DEF d
<1>5. CASE ~c.skip_jump /\ i.b >= 0
  <2>1. Owned(compared, {}) /\ Keeps(p, compared)
    <3>1. CASE IsReg(x)
      <4>1. Owned(g, {x.holder}) /\ Keeps(p, g)
        BY <1>2, <1>5, <3>1, GenKeeps DEF Hold
      <4> HIDE DEF g
      <4>2. Owned(ReleaseRegister(g, x.holder), {}) /\ Keeps(g, ReleaseRegister(g, x.holder))
        <5>1. {x.holder} = {} \cup {x.holder} /\ x.holder \notin {}
          OBVIOUS
        <5> QED BY <4>1, <5>1, ReleaseRegisterOwned
      <4> QED BY <3>1, <4>1, <4>2, KeepsOn
    <3>2. CASE ~IsReg(x)
      <4>1. Owned(p, {})
        BY <1>2, <1>5, <3>2 DEF Hold
      <4> QED BY <4>1, <3>2, MomentOwned DEF Same
    <3> QED BY <3>1, <3>2
  <2> HIDE DEF compared, p
  <2>2. Owned(d, {}) /\ Keeps(compared, d)
    BY <1>1, <1>5, <2>1, GenKeeps
  <2> QED BY <1>2, <1>5, <2>1, <2>2, KeepsOn DEF d
<1> QED BY <1>3, <1>4, <1>5

\* A comparison, with its jump or without, leaves the registers as they were.
LEMMA ConditionOwned ==
  ASSUME NEW c, NEW hand, Owned(c, hand), NEW op, NEW r
  PROVE  LET d == Condition(c, Code(c.method), op, r) IN Owned(d, hand) /\ Same(c, d)
<1> DEFINE code == Code(c.method)
           next == code[c.instr_index + 1]
           t == Register(c)
           d == Condition(c, code, op, r)
<1>1. CASE CondJump(c, code)
  <2> DEFINE e == Gen(c, <<Jcc(IF next.b = 0 THEN Negation[op] ELSE op, next.a)>>)
  <2>1. d = [e EXCEPT !.skip_jump = TRUE]
    BY <1>1 DEF Condition
  <2>2. Owned(e, hand) /\ Same(c, e)
    BY GenKeeps DEF Same
  <2> HIDE DEF e, d
  <2>3. Owned(d, hand) /\ Same(c, d)
    BY <1>1, <2>1, <2>2 DEF Owned, IsCompiler, Parts, Divided, Pools, Unused, Keeps, Same
  <2> QED BY <2>3 DEF d
<1>2. CASE ~CondJump(c, code)
  <2> DEFINE e == GetRegister(c)
             g == Gen(e, <<Mov(Imm(0), Reg(r)), Mov(Imm(1), Reg(t)), Machine("cmov", op, Reg(t), Reg(r))>>)
  <2>1. d = ReleaseRegister(g, t)
    BY <1>2 DEF Condition
  <2>2. Owned(e, hand \cup {t}) /\ Same(c, e) /\ (e.compile_success => t \notin hand)
    BY GetRegisterOwned DEF Same
  <2> HIDE DEF e, t
  <2>3. Owned(g, hand \cup {t}) /\ Same(e, g)
    BY <2>2, GenKeeps DEF Same
  <2> HIDE DEF g
  <2>4. g.compile_success => t \notin hand
    BY <2>2, <2>3 DEF Same, Keeps
  <2>5. Owned(ReleaseRegister(g, t), hand) /\ Same(g, ReleaseRegister(g, t))
    BY <2>3, <2>4, ReleaseRegisterOwned DEF Same
  <2> QED BY <2>1, <2>2, <2>3, <2>5, SameOn
<1> QED BY <1>1, <1>2

\* So does every other operation on two operands.
LEMMA MathOwned ==
  ASSUME NEW c, NEW hand, Owned(c, hand), NEW op, NEW x, NEW r
  PROVE  LET d == Math(c, Code(c.method), op, x, r) IN Owned(d, hand) /\ Same(c, d)
<1> DEFINE t == Register(c)
           Through(instrs) == ReleaseRegister(Gen(InRegister(c, x), instrs), t)
           d == Math(c, Code(c.method), op, x, r)
<1>1. ASSUME NEW instrs
      PROVE  Owned(Through(instrs), hand) /\ Same(c, Through(instrs))
  BY MomentOwned
<1>2. ASSUME NEW instrs
      PROVE  Owned(Gen(c, instrs), hand) /\ Same(c, Gen(c, instrs))
  BY GenKeeps DEF Same
<1>3. CASE op \in Comparison
  <2> DEFINE e == Gen(c, <<Cmp(x, r)>>)
  <2>1. d = Condition(e, Code(c.method), op, r)
    BY <1>3 DEF Math, Comparison, Shifts
  <2>2. Owned(e, hand) /\ Same(c, e) /\ e.method = c.method
    BY <1>2 DEF Same, Keeps
  <2> HIDE DEF e
  <2>3. Owned(Condition(e, Code(e.method), op, r), hand) /\ Same(e, Condition(e, Code(e.method), op, r))
    BY <2>2, ConditionOwned
  <2> QED BY <2>1, <2>2, <2>3, SameOn
<1>4. CASE op \notin Comparison
  <2>1. \/ \E instrs : d = Through(instrs)
        \/ \E instrs : d = Gen(c, instrs)
    <3>1. CASE op \in {"DIV_INT", "MOD_INT"}
      BY <1>4, <3>1 DEF Math
    <3>2. CASE op \notin {"DIV_INT", "MOD_INT"} /\ op \in Shifts /\ x.type # "IMM_INT"
      BY <1>4, <3>2 DEF Math
    <3>3. CASE op \notin {"DIV_INT", "MOD_INT"} /\ ~(op \in Shifts /\ x.type # "IMM_INT")
      BY <1>4, <3>3 DEF Math
    <3> QED BY <3>1, <3>2, <3>3
  <2> QED BY <1>1, <1>2, <2>1
<1> QED BY <1>3, <1>4

-----------------------------------------------------------------------------
(* Calculations. *)

\* An entry whose register is all the operation has goes on the working stack.
LEMMA LastPushed ==
  ASSUME NEW c, NEW hand, Owned(c, hand), NEW y, Operand(y), c.compile_success => hand = Hold(y)
  PROVE  Owned(PushWork(c, y), {}) /\ Keeps(c, PushWork(c, y))
<1>1. c.compile_success => hand = {} \cup Hold(y) /\ Hold(y) \cap {} = {}
  OBVIOUS
<1> QED BY <1>1, PushWorkOwned

\* Of two registers, one is given back and the other goes on the working stack.
LEMMA OneStays ==
  ASSUME NEW c, NEW hand, Owned(c, hand), NEW op, NEW x, NEW r, NEW b, NEW y, Operand(y),
         c.compile_success => hand = {b} \cup Hold(y) /\ b \notin Hold(y)
  PROVE  LET d == PushWork(ReleaseRegister(Math(c, Code(c.method), op, x, r), b), y)
         IN  Owned(d, {}) /\ Keeps(c, d)
<1> DEFINE m == Math(c, Code(c.method), op, x, r)
           e == ReleaseRegister(m, b)
<1>1. Owned(m, hand) /\ Same(c, m)
  BY MathOwned
<1> HIDE DEF m
<1>2. m.compile_success => hand = Hold(y) \cup {b} /\ b \notin Hold(y)
  BY <1>1 DEF Same, Keeps
<1>3. Owned(e, Hold(y)) /\ Keeps(m, e)
  BY <1>1, <1>2, ReleaseRegisterOwned
<1> HIDE DEF e
<1>4. Owned(PushWork(e, y), {}) /\ Keeps(e, PushWork(e, y))
  BY <1>3, LastPushed
<1> QED BY <1>1, <1>3, <1>4, KeepsOn DEF Same, e, m

\* An operation whose result is what is in hand.
LEMMA AllStays ==
  ASSUME NEW c, NEW hand, Owned(c, hand), NEW op, NEW x, NEW r, NEW y, Operand(y),
         c.compile_success => hand = Hold(y)
  PROVE  LET d == PushWork(Math(c, Code(c.method), op, x, r), y)
         IN  Owned(d, {}) /\ Keeps(c, d)
<1> DEFINE m == Math(c, Code(c.method), op, x, r)
<1>1. Owned(m, hand) /\ Same(c, m)
  BY MathOwned
<1> HIDE DEF m
<1>2. m.compile_success => hand = Hold(y)
  BY <1>1 DEF Same, Keeps
<1>3. Owned(PushWork(m, y), {}) /\ Keeps(m, PushWork(m, y))
  BY <1>1, <1>2, LastPushed
<1> QED BY <1>1, <1>3, KeepsOn DEF Same, m

\* Two operands are taken and the result is pushed, whatever kinds they are of.
LEMMA ProcessIntCalculationOwned ==
  ASSUME NEW c, Owned(c, {}), NEW op, Len(c.working_stack) >= 2
  PROVE  LET d == ProcessIntCalculation(c, Code(c.method), op) IN Owned(d, {}) /\ Keeps(c, d)
<1> DEFINE code == Code(c.method)
           left  == TopWork(c)
           p     == PopWork(c)
           right == TopWork(p)
           d     == PopWork(p)
           r     == Register(d)
           right_first == InRegister(d, right)
           both  == InRegister(right_first, left)
           l     == Register(right_first)
           With(e, x, reg) == Math(e, code, op, x, reg)
           z     == ProcessIntCalculation(c, code, op)
<1>1. /\ Len(c.working_stack) \in Nat /\ Owned(p, Hold(left)) /\ Keeps(c, p) /\ Operand(left)
      /\ Len(p.working_stack) = Len(c.working_stack) - 1
  <2>1. {} \cup Hold(left) = Hold(left)
    OBVIOUS
  <2>2. Len(c.working_stack) \in Nat
    BY DEF Owned, IsCompiler, Stack
  <2>3. Len(c.working_stack) > 0
    BY <2>2
  <2> QED BY <2>1, <2>2, <2>3, PopWorkOwned
<1>2. /\ Owned(d, Hold(left) \cup Hold(right)) /\ Keeps(p, d) /\ Operand(right)
      /\ p.compile_success => Hold(left) \cap Hold(right) = {}
  <2>1. Len(p.working_stack) > 0
    BY <1>1
  <2> HIDE DEF p, left
  <2> QED BY <1>1, <2>1, PopWorkOwned
<1>3. Keeps(c, d) /\ d.method = c.method /\ (d.compile_success => Hold(left) \cap Hold(right) = {})
  BY <1>1, <1>2, KeepsOn DEF Keeps
<1>4. /\ left.type = "IMM_INT" /\ right.type = "IMM_INT" =>
           z = PushWork(d, Imm(Value(op, left.operand, right.operand)))
      /\ left.type = "IMM_INT" /\ right.type = "MEM_INT" =>
           z = PushWork(ReleaseRegister(With(both, Reg(r), l), r), Reg(l))
      /\ left.type # "REG_INT" /\ right.type = "REG_INT" =>
           z = PushWork(ReleaseRegister(With(InRegister(d, left), right, r), right.holder), Reg(r))
      /\ left.type = "MEM_INT" /\ right.type # "REG_INT" =>
           z = PushWork(With(InRegister(d, left), right, r), Reg(r))
      /\ left.type = "REG_INT" /\ right.type = "IMM_INT" =>
           z = PushWork(With(d, right, left.holder), left)
      /\ left.type = "REG_INT" /\ right.type = "REG_INT" =>
           z = ReleaseRegister(PushWork(With(d, right, left.holder), left), right.holder)
      /\ left.type = "REG_INT" /\ right.type = "MEM_INT" =>
           z = PushWork(ReleaseRegister(With(right_first, Reg(r), left.holder), r), left)
  BY DEF ProcessIntCalculation
<1>5. SUFFICES Owned(z, {}) /\ Keeps(d, z)
  BY <1>3, KeepsOn
<1> HIDE DEF left, p, right, d, z, code
<1>6. ASSUME NEW e, Keeps(d, e) PROVE Code(e.method) = code
  BY <1>3, <1>6 DEF Keeps, code
<1>7. /\ Hold(left) = IF left.type = "REG_INT" THEN {left.holder} ELSE {}
      /\ Hold(right) = IF right.type = "REG_INT" THEN {right.holder} ELSE {}
  BY DEF Hold, IsReg
<1>8. CASE left.type = "IMM_INT" /\ right.type = "IMM_INT"
  <2> DEFINE y == Imm(Value(op, left.operand, right.operand))
  <2>1. Operand(y) /\ Hold(y) = {} /\ Hold(left) \cup Hold(right) = {}
    BY <1>7, <1>8, Kinds
  <2> HIDE DEF y
  <2>2. z = PushWork(d, y)
    BY <1>4, <1>8 DEF y
  <2> QED BY <1>2, <2>1, <2>2, LastPushed
<1>9. CASE left.type = "IMM_INT" /\ right.type = "MEM_INT"
  <2>1. Owned(d, {})
    <3>1. Hold(left) \cup Hold(right) = {}
      BY <1>7, <1>9
    <3> QED BY <1>2, <3>1
  <2>2. Owned(right_first, {r}) /\ Keeps(d, right_first)
    <3>1. {} \cup {r} = {r}
      OBVIOUS
    <3> QED BY <2>1, <3>1, InRegisterOwned DEF Same
  <2> HIDE DEF right_first, r
  <2>3. /\ Owned(both, {r} \cup {l}) /\ Keeps(right_first, both)
        /\ both.compile_success => l \notin {r}
    BY <2>2, InRegisterOwned DEF Same
  <2>4. Keeps(d, both) /\ Code(both.method) = code
    BY <1>6, <2>2, <2>3, KeepsOn
  <2> HIDE DEF both, l
  <2>5. Operand(Reg(l)) /\ Hold(Reg(l)) = {l}
    BY Kinds
  <2>6. both.compile_success => {r} \cup {l} = {r} \cup Hold(Reg(l)) /\ r \notin Hold(Reg(l))
    BY <2>3, <2>5
  <2>7. z = PushWork(ReleaseRegister(Math(both, Code(both.method), op, Reg(r), l), r), Reg(l))
    BY <1>4, <1>9, <2>4 DEF r, l, both, right_first
  <2>8. Owned(z, {}) /\ Keeps(both, z)
    BY <2>3, <2>5, <2>6, <2>7, OneStays
  <2> QED BY <2>4, <2>8, KeepsOn
<1>10. CASE left.type # "REG_INT" /\ right.type = "REG_INT"
  <2> DEFINE e == InRegister(d, left)
  <2>1. Owned(d, {right.holder})
    <3>1. Hold(left) \cup Hold(right) = {right.holder}
      BY <1>7, <1>10
    <3> QED BY <1>2, <3>1
  <2>2. /\ Owned(e, {right.holder} \cup {r}) /\ Keeps(d, e)
        /\ e.compile_success => r \notin {right.holder}
    BY <2>1, InRegisterOwned DEF Same
  <2>3. Code(e.method) = code
    BY <1>6, <2>2
  <2> HIDE DEF e, r
  <2>5. Operand(Reg(r)) /\ Hold(Reg(r)) = {r}
    BY Kinds
  <2>6. e.compile_success =>
          {right.holder} \cup {r} = {right.holder} \cup Hold(Reg(r)) /\ right.holder \notin Hold(Reg(r))
    BY <2>2, <2>5
  <2>7. z = PushWork(ReleaseRegister(Math(e, Code(e.method), op, right, r), right.holder), Reg(r))
    BY <1>4, <1>10, <2>3 DEF e, r
  <2>8. Owned(z, {}) /\ Keeps(e, z)
    BY <2>2, <2>5, <2>6, <2>7, OneStays
  <2> QED BY <2>2, <2>8, KeepsOn
<1>11. CASE left.type = "MEM_INT" /\ right.type # "REG_INT"
  <2> DEFINE e == InRegister(d, left)
  <2>1. Owned(d, {})
    <3>1. Hold(left) \cup Hold(right) = {}
      BY <1>7, <1>11
    <3> QED BY <1>2, <3>1
  <2>2. Owned(e, {r}) /\ Keeps(d, e)
    <3>1. {} \cup {r} = {r}
      OBVIOUS
    <3> QED BY <2>1, <3>1, InRegisterOwned DEF Same
  <2>3. Code(e.method) = code
    BY <1>6, <2>2
  <2> HIDE DEF e, r
  <2>5. Operand(Reg(r)) /\ Hold(Reg(r)) = {r}
    BY Kinds
  <2>6. z = PushWork(Math(e, Code(e.method), op, right, r), Reg(r))
    BY <1>4, <1>11, <2>3 DEF e, r
  <2>7. Owned(z, {}) /\ Keeps(e, z)
    BY <2>2, <2>5, <2>6, AllStays
  <2> QED BY <2>2, <2>7, KeepsOn
<1>12. CASE left.type = "REG_INT" /\ right.type = "IMM_INT"
  <2>1. Hold(left) \cup Hold(right) = Hold(left) /\ Keeps(d, d)
    BY <1>7, <1>12 DEF Keeps
  <2>2. z = PushWork(Math(d, Code(d.method), op, right, left.holder), left)
    BY <1>4, <1>6, <1>12, <2>1
  <2> QED BY <1>1, <1>2, <2>1, <2>2, AllStays
<1>13. CASE left.type = "REG_INT" /\ right.type = "REG_INT"
  <2> DEFINE m == Math(d, Code(d.method), op, right, left.holder)
             e == PushWork(m, left)
  <2>1. Keeps(d, d) /\ Hold(left) = {left.holder} /\ Hold(right) = {right.holder}
    BY <1>7, <1>13 DEF Keeps
  <2>2. z = ReleaseRegister(e, right.holder)
    BY <1>4, <1>6, <1>13, <2>1
  <2>3. Owned(m, Hold(left) \cup Hold(right)) /\ Keeps(d, m)
    BY <1>2, MathOwned DEF Same
  <2> HIDE DEF m
  <2>4. m.compile_success => /\ Hold(left) \cup Hold(right) = {right.holder} \cup Hold(left)
                             /\ Hold(left) \cap {right.holder} = {}
    BY <1>3, <2>1, <2>3 DEF Keeps
  <2>5. Owned(e, {right.holder}) /\ Keeps(m, e)
    BY <1>1, <2>3, <2>4, PushWorkOwned
  <2> HIDE DEF e
  <2>6. Owned(z, {}) /\ Keeps(e, z)
    <3>1. {right.holder} = {} \cup {right.holder} /\ right.holder \notin {}
      OBVIOUS
    <3> QED BY <2>2, <2>5, <3>1, ReleaseRegisterOwned
  <2> QED BY <2>3, <2>5, <2>6, KeepsOn
<1>14. CASE left.type = "REG_INT" /\ right.type = "MEM_INT"
  <2>1. Owned(d, {left.holder}) /\ Hold(left) = {left.holder}
    <3>1. Hold(left) \cup Hold(right) = {left.holder} /\ Hold(left) = {left.holder}
      BY <1>7, <1>14
    <3> QED BY <1>2, <3>1
  <2>2. /\ Owned(right_first, {left.holder} \cup {r}) /\ Keeps(d, right_first)
        /\ right_first.compile_success => r \notin {left.holder}
    BY <2>1, InRegisterOwned DEF Same
  <2>3. Code(right_first.method) = code
    BY <1>6, <2>2
  <2> HIDE DEF right_first, r
  <2>4. right_first.compile_success =>
          {left.holder} \cup {r} = {r} \cup Hold(left) /\ r \notin Hold(left)
    BY <2>1, <2>2
  <2>5. z = PushWork(ReleaseRegister(
              Math(right_first, Code(right_first.method), op, Reg(r), left.holder), r), left)
    BY <1>4, <1>14, <2>3 DEF right_first, r
  <2>6. Owned(z, {}) /\ Keeps(right_first, z)
    BY <1>1, <2>2, <2>4, <2>5, OneStays
  <2> QED BY <2>2, <2>6, KeepsOn
<1>15. left.type \in {"IMM_INT", "REG_INT", "MEM_INT"} /\ right.type \in {"IMM_INT", "REG_INT", "MEM_INT"}
  BY <1>1, <1>2 DEF Operand
<1> QED BY <1>8, <1>9, <1>10, <1>11, <1>12, <1>13, <1>14, <1>15

-----------------------------------------------------------------------------
(* Parameters, calls and the end of the method. *)
Pushes == INSTANCE FoldTheorems WITH Op <- PushEntry
Frees  == INSTANCE FoldTheorems WITH Op <- Freed

\* The folds of ReturnValues are those FoldTheorems is about.
LEMMA Folds ==
  ASSUME NEW c, NEW s
  PROVE  FoldLeft(PushEntry, c, s) = Pushes!Left(c, s) /\ FoldLeft(Freed, c, s) = Frees!Left(c, s)
BY DEF FoldLeft, MapThenFoldSet, Max,
       Pushes!Left, Pushes!FoldLeft, Pushes!MapThenFoldSet, Pushes!Max,
       Frees!Left, Frees!FoldLeft, Frees!MapThenFoldSet, Frees!Max

\* No operation at all.
LEMMA SameSelf ==
  ASSUME NEW c PROVE Keeps(c, c) /\ Same(c, c)
BY DEF Same, Keeps

\* An entry is pushed on the operand stack with one register for a moment at most.
LEMMA PushEntryOwned ==
  ASSUME NEW c, NEW hand, Owned(c, hand), NEW x
  PROVE  Owned(PushEntry(c, x), hand) /\ Same(c, PushEntry(c, x))
BY MomentOwned, GenKeeps DEF PushEntry, Same

\* So are all of them: by induction on their number.
LEMMA EntriesPushed ==
  ASSUME NEW c, NEW hand, Owned(c, hand), NEW n \in Nat, NEW s, s = [k \in 1..n |-> s[k]]
  PROVE  LET d == FoldLeft(PushEntry, c, s) IN Owned(d, hand) /\ Same(c, d)
<1> DEFINE First(k) == [j \in 1..k |-> s[j]]
           F(k) == Pushes!Left(c, First(k))
           T == {k \in Nat : Owned(F(k), hand) /\ Same(c, F(k))}
<1>1. 0 \in T
  <2>1. DOMAIN First(0) = {}
    OBVIOUS
  <2>2. F(0) = c
    BY <2>1, Pushes!LeftEmpty
  <2> QED BY <2>2, SameSelf
<1>2. ASSUME NEW k \in Nat, k \in T PROVE k + 1 \in T
  <2>1. /\ DOMAIN First(k) = 1..k /\ DOMAIN First(k + 1) = 1..(k + 1)
        /\ \A j \in 1..k : First(k + 1)[j] = First(k)[j]
        /\ First(k + 1)[k + 1] = s[k + 1]
    OBVIOUS
  <2> HIDE DEF First
  <2>2. F(k + 1) = PushEntry(F(k), s[k + 1])
    BY <2>1, Pushes!LeftLast
  <2>3. Owned(F(k), hand) /\ Same(c, F(k))
    BY <1>2
  <2> HIDE DEF F
  <2> QED BY <2>2, <2>3, PushEntryOwned, SameOn
<1>3. n \in T
  <2> HIDE DEF T
  <2> QED BY <1>1, <1>2, Pushes!SetInduction
<1> QED BY <1>3, Folds

\* The top entry is taken away and its register given back.
LEMMA FreedOwned ==
  ASSUME NEW c, NEW hand, Owned(c, hand), Len(c.working_stack) > 0
  PROVE  LET d == Freed(c, TopWork(c))
         IN  /\ Owned(d, hand) /\ Keeps(c, d)
             /\ d.working_stack = Pop(c.working_stack, 1)
<1> DEFINE p == PopWork(c)
           x == TopWork(c)
<1>1. /\ Owned(p, hand \cup Hold(x)) /\ Keeps(c, p) /\ p.working_stack = Pop(c.working_stack, 1)
      /\ c.compile_success => Hold(x) \cap hand = {}
  BY PopWorkOwned
<1>2. Freed(c, x) = Release(p, x)
  BY DEF Freed
<1> HIDE DEF p, x
<1>3. p.compile_success => Hold(x) \cap hand = {}
  BY <1>1 DEF Keeps
<1>4. Owned(Release(p, x), hand) /\ Same(p, Release(p, x))
  BY <1>1, <1>3, ReleaseOwned
<1> QED BY <1>1, <1>2, <1>4, KeepsOn DEF Same, x

\* So are the top entries, one after the other.
LEMMA EntriesFreed ==
  ASSUME NEW c, NEW hand, Owned(c, hand), NEW n \in Nat, n <= Len(c.working_stack),
         NEW s, s = [k \in 1..n |-> s[k]],
         \A k \in 1..n : s[k] = c.working_stack[Len(c.working_stack) - k + 1]
  PROVE  LET d == FoldLeft(Freed, c, s) IN Owned(d, hand) /\ Keeps(c, d)
<1> DEFINE First(k) == [j \in 1..k |-> s[j]]
           F(k) == Frees!Left(c, First(k))
           ws == c.working_stack
           Left(d, k) == /\ Len(d.working_stack) = Len(ws) - k
                         /\ \A m \in 1..(Len(ws) - k) : d.working_stack[m] = ws[m]
           T == {k \in Nat : k <= n => Owned(F(k), hand) /\ Keeps(c, F(k)) /\ Left(F(k), k)}
<1>0. Len(ws) \in Nat
  BY DEF Owned, IsCompiler, Stack
<1>1. 0 \in T
  <2>1. DOMAIN First(0) = {}
    OBVIOUS
  <2>2. F(0) = c
    BY <2>1, Frees!LeftEmpty
  <2>3. Left(c, 0)
    BY <1>0
  <2> HIDE DEF F, Left
  <2> QED BY <2>2, <2>3, SameSelf
<1>2. ASSUME NEW k \in Nat, k \in T, k + 1 <= n
      PROVE  Owned(F(k + 1), hand) /\ Keeps(c, F(k + 1)) /\ Left(F(k + 1), k + 1)
  <2>1. /\ DOMAIN First(k) = 1..k /\ DOMAIN First(k + 1) = 1..(k + 1)
        /\ \A j \in 1..k : First(k + 1)[j] = First(k)[j]
        /\ First(k + 1)[k + 1] = s[k + 1]
    OBVIOUS
  <2>2. F(k + 1) = Freed(F(k), s[k + 1])
    <3> HIDE DEF First
    <3> QED BY <2>1, Frees!LeftLast
  <2>3. k <= n
    BY <1>2
  <2>4. Owned(F(k), hand) /\ Keeps(c, F(k)) /\ Left(F(k), k)
    BY <1>2, <2>3
  <2> HIDE DEF F
  <2> DEFINE e == F(k)
  <2>5. /\ Len(e.working_stack) = Len(ws) - k /\ Len(ws) - k \in Nat /\ Len(ws) - k > 0
        /\ Len(e.working_stack) > 0 /\ 1 <= Len(e.working_stack)
    BY <1>0, <1>2, <2>4
  <2>6. TopWork(e) = s[k + 1]
    <3>1. k + 1 \in 1..n /\ Len(ws) - k \in 1..(Len(ws) - k) /\ Len(ws) - (k + 1) + 1 = Len(ws) - k
      BY <1>0, <1>2, <2>5
    <3>2. e.working_stack[Len(ws) - k] = ws[Len(ws) - k]
      BY <2>4, <3>1
    <3> QED BY <2>5, <3>1, <3>2 DEF TopWork, Top
  <2>7. /\ Owned(F(k + 1), hand) /\ Keeps(e, F(k + 1))
        /\ F(k + 1).working_stack = Pop(e.working_stack, 1)
    <3>1. Owned(e, hand) /\ Len(e.working_stack) > 0 /\ F(k + 1) = Freed(e, TopWork(e))
      BY <2>2, <2>4, <2>5, <2>6
    <3> HIDE DEF e
    <3> QED BY <3>1, FreedOwned
  <2>8. PICK S : e.working_stack \in Seq(S)
    BY <2>4 DEF Owned, IsCompiler, Stack
  <2>9. /\ Len(Pop(e.working_stack, 1)) = Len(e.working_stack) - 1
        /\ \A m \in 1..(Len(e.working_stack) - 1) : Pop(e.working_stack, 1)[m] = e.working_stack[m]
    <3> DEFINE es == e.working_stack
    <3>1. es \in Seq(S) /\ 1 \in Nat /\ 1 <= Len(es)
      BY <2>5, <2>8
    <3> HIDE DEF es
    <3>2. Len(Pop(es, 1)) = Len(es) - 1 /\ \A m \in 1..(Len(es) - 1) : Pop(es, 1)[m] = es[m]
      BY <3>1, Popped
    <3> QED BY <3>2 DEF es
  <2>10. Left(F(k + 1), k + 1)
    <3>1. Len(ws) - k - 1 = Len(ws) - (k + 1)
      BY <1>0
    <3>2. \A m \in 1..(Len(ws) - (k + 1)) : m \in 1..(Len(ws) - k)
      BY <1>0
    <3> QED BY <2>4, <2>5, <2>7, <2>9, <3>1, <3>2
  <2> QED BY <2>4, <2>7, <2>10, KeepsOn
<1>3. ASSUME NEW k \in Nat, k \in T PROVE k + 1 \in T
  <2>1. k + 1 <= n => Owned(F(k + 1), hand) /\ Keeps(c, F(k + 1)) /\ Left(F(k + 1), k + 1)
    BY <1>2, <1>3
  <2> HIDE DEF F, Left
  <2> QED BY <2>1
<1>4. n \in T
  <2> HIDE DEF T
  <2> QED BY <1>1, <1>3, Frees!SetInduction
<1>5. Owned(F(n), hand) /\ Keeps(c, F(n))
  BY <1>4
<1>6. F(n) = FoldLeft(Freed, c, s)
  BY Folds
<1> QED BY <1>5, <1>6

\* Two registers in hand: the address of the operand stack and its position.
LEMMA StackRegistersOwned ==
  ASSUME NEW c, NEW hand, Owned(c, hand)
  PROVE  LET d == StackRegisters(c)
             r == Register(c)
             pos == Position(c)
         IN  /\ Owned(d, (hand \cup {r}) \cup {pos}) /\ Same(c, d)
             /\ d.compile_success => r \notin hand /\ pos \notin hand \cup {r}
<1> DEFINE r == Register(c)
           pos == Position(c)
           e == InRegister(c, OnFrame(OP_STACK))
           d == InRegister(e, OnFrame(STACK_POS))
<1>1. /\ Owned(e, hand \cup {r}) /\ Same(c, e) /\ (e.compile_success => r \notin hand)
      /\ Register(e) = pos
  BY InRegisterOwned DEF Position
<1> HIDE DEF e, r, pos
<1>2. /\ Owned(d, (hand \cup {r}) \cup {pos}) /\ Same(e, d)
      /\ d.compile_success => pos \notin hand \cup {r}
  BY <1>1, InRegisterOwned
<1> HIDE DEF d
<1>3. Same(c, d) /\ (d.compile_success => e.compile_success)
  BY <1>1, <1>2, SameOn DEF Same, Keeps
<1>4. d = StackRegisters(c)
  BY DEF d, e, StackRegisters
<1> QED BY <1>1, <1>2, <1>3, <1>4 DEF r, pos

\* Two registers of the operation are given back.
LEMMA BothReleased ==
  ASSUME NEW c, NEW H, NEW r, NEW s, Owned(c, (H \cup {r}) \cup {s}),
         c.compile_success => r \notin H /\ s \notin H \cup {r}
  PROVE  LET d == ReleaseRegister(ReleaseRegister(c, r), s) IN Owned(d, H) /\ Same(c, d)
<1> DEFINE e == ReleaseRegister(c, r)
           d == ReleaseRegister(e, s)
<1>1. c.compile_success => (H \cup {r}) \cup {s} = (H \cup {s}) \cup {r} /\ r \notin H \cup {s}
  OBVIOUS
<1>2. Owned(e, H \cup {s}) /\ Same(c, e)
  BY <1>1, ReleaseRegisterOwned DEF Same
<1> HIDE DEF e
<1>3. e.compile_success => H \cup {s} = H \cup {s} /\ s \notin H
  BY <1>2 DEF Same, Keeps
<1>4. Owned(d, H) /\ Same(e, d)
  BY <1>2, <1>3, ReleaseRegisterOwned DEF Same
<1> QED BY <1>2, <1>4, SameOn DEF e

\* RegisterRoot and UnregisterRoot take two registers and give them back.
LEMMA RootOwned ==
  ASSUME NEW c, Owned(c, {})
  PROVE  Owned(Root(c), {}) /\ Same(c, Root(c))
<1> DEFINE r == Register(c)
           d == GetRegister(c)
           e == GetRegister(d)
           s == Register(d)
<1>1. Owned(d, {} \cup {r}) /\ Same(c, d)
  BY GetRegisterOwned DEF Same
<1>2. Root(c) = ReleaseRegister(ReleaseRegister(e, r), s)
  BY DEF Root
<1> HIDE DEF d, r
<1>3. Owned(e, ({} \cup {r}) \cup {s}) /\ Same(d, e) /\ (e.compile_success => s \notin {} \cup {r})
  BY <1>1, GetRegisterOwned DEF Same
<1> HIDE DEF e, s
<1>4. LET f == ReleaseRegister(ReleaseRegister(e, r), s) IN Owned(f, {}) /\ Same(e, f)
  BY <1>3, BothReleased
<1> QED BY <1>1, <1>2, <1>3, <1>4, SameOn

\* They decide nothing about the next jump.
LEMMA RootSkips ==
  ASSUME NEW c, DOMAIN c = Parts
  PROVE  Root(c).skip_jump = c.skip_jump
<1>1. ASSUME NEW d, DOMAIN d = Parts
      PROVE  DOMAIN GetRegister(d) = Parts /\ GetRegister(d).skip_jump = d.skip_jump
  BY <1>1 DEF GetRegister, Parts
<1>2. ASSUME NEW d, DOMAIN d = Parts, NEW r
      PROVE  /\ DOMAIN ReleaseRegister(d, r) = Parts
             /\ ReleaseRegister(d, r).skip_jump = d.skip_jump
  BY <1>2 DEF ReleaseRegister, Parts
<1> QED BY <1>1, <1>2 DEF Root

\* The result of a call ends in the register that held the address of the operand stack.
LEMMA ProcessIntCallParameterOwned ==
  ASSUME NEW c, Owned(c, {})
  PROVE  LET d == ProcessIntCallParameter(c) IN Owned(d, {}) /\ Keeps(c, d)
<1> DEFINE r == Register(c)
           pos == Position(c)
           e == StackRegisters(c)
           g == Gen(e, <<Machine("pop", "always", Imm(0), Reg(r))>>)
           p == PushWork(g, Reg(r))
           d == ReleaseRegister(p, pos)
<1>1. /\ Owned(e, ({} \cup {r}) \cup {pos}) /\ Keeps(c, e)
      /\ e.compile_success => pos \notin {} \cup {r}
  BY StackRegistersOwned DEF Same
<1> HIDE DEF e, r, pos
<1>2. Owned(g, ({} \cup {r}) \cup {pos}) /\ Keeps(e, g)
  BY <1>1, GenKeeps
<1> HIDE DEF g
<1>3. Operand(Reg(r)) /\ Hold(Reg(r)) = {r}
  BY Kinds
<1>4. g.compile_success =>
        ({} \cup {r}) \cup {pos} = {pos} \cup Hold(Reg(r)) /\ Hold(Reg(r)) \cap {pos} = {}
  BY <1>1, <1>2, <1>3 DEF Keeps
<1>5. Owned(p, {pos}) /\ Keeps(g, p)
  BY <1>2, <1>3, <1>4, PushWorkOwned
<1> HIDE DEF p
<1>6. Owned(d, {}) /\ Keeps(p, d)
  <2>1. {pos} = {} \cup {pos} /\ pos \notin {}
    OBVIOUS
  <2> QED BY <1>5, <2>1, ReleaseRegisterOwned
<1> HIDE DEF d
<1>7. d = ProcessIntCallParameter(c)
  BY DEF d, p, g, e, r, pos, ProcessIntCallParameter
<1> QED BY <1>1, <1>2, <1>5, <1>6, <1>7, KeepsOn

\* A parameter goes from the operand stack to its local by way of three registers.
LEMMA ProcessParameterOwned ==
  ASSUME NEW c, Owned(c, {}), NEW code, NEW i, IsLocal(i)
  PROVE  LET d == ProcessParameter(c, code, i) IN Owned(d, {}) /\ Keeps(c, d)
<1> DEFINE r == Register(c)
           pos == Position(c)
           e == StackRegisters(c)
           v == Register(e)
           f == GetRegister(e)
           g == Gen(f, <<Machine("pop", "always", Imm(0), Reg(r)), Mov(Reg(r), Reg(v))>>)
           p == PushWork(g, Reg(v))
           s == ProcessStore(p, code, i)
           d == ReleaseRegister(ReleaseRegister(s, r), pos)
           H == ({} \cup {r}) \cup {pos}
<1>1. /\ Owned(e, H) /\ Keeps(c, e) /\ (e.compile_success => pos \notin {} \cup {r})
  BY StackRegistersOwned DEF Same
<1> HIDE DEF e, r, pos, H
<1>2. Owned(f, H \cup {v}) /\ Keeps(e, f) /\ (f.compile_success => v \notin H)
  BY <1>1, GetRegisterOwned
<1> HIDE DEF f, v
<1>3. Owned(g, H \cup {v}) /\ Keeps(f, g)
  BY <1>2, GenKeeps
<1> HIDE DEF g
<1>4. Operand(Reg(v)) /\ Hold(Reg(v)) = {v}
  BY Kinds
<1>5. g.compile_success => H \cup {v} = H \cup Hold(Reg(v)) /\ Hold(Reg(v)) \cap H = {}
  BY <1>2, <1>3, <1>4 DEF Keeps
<1>6. /\ Owned(p, H) /\ Keeps(g, p)
      /\ Len(p.working_stack) = Len(g.working_stack) + 1 /\ Len(g.working_stack) \in Nat
  BY <1>3, <1>4, <1>5, PushWorkOwned
<1> HIDE DEF p
<1>7. Len(p.working_stack) >= IF IsLocal(i) THEN 1 ELSE 2
  BY <1>6
<1>8. Owned(s, H) /\ Keeps(p, s)
  BY <1>6, <1>7, ProcessStoreOwned
<1> HIDE DEF s
<1>9. Keeps(e, s) /\ (s.compile_success => pos \notin {} \cup {r})
  BY <1>1, <1>2, <1>3, <1>6, <1>8, KeepsOn DEF Keeps
<1>10. Owned(d, {}) /\ Keeps(s, d)
  BY <1>8, <1>9, BothReleased DEF H, Same
<1> HIDE DEF d
<1>11. d = ProcessParameter(c, code, i)
  BY DEF d, s, p, g, f, v, e, r, pos, ProcessParameter
<1> QED BY <1>1, <1>9, <1>10, <1>11, KeepsOn

\* A sequence is the function of its elements.
LEMMA AsFunction ==
  ASSUME NEW S, NEW s \in Seq(S)
  PROVE  s = [k \in 1..Len(s) |-> s[k]]
OBVIOUS

\* The last entries of a working stack, and those backwards.
LEMMA LastEntries ==
  ASSUME NEW S, NEW ws \in Seq(S), NEW m \in Nat, m <= Len(ws)
  PROVE  LET last == SubSeq(ws, Len(ws) - m + 1, Len(ws))
             back == Reverse(last)
         IN  /\ last = [k \in 1..m |-> last[k]] /\ back = [k \in 1..m |-> back[k]]
             /\ \A k \in 1..m : back[k] = ws[Len(ws) - k + 1]
<1> DEFINE n == Len(ws)
           last == SubSeq(ws, n - m + 1, n)
           back == Reverse(last)
<1>1. n \in Nat /\ m <= n
  OBVIOUS
<1>2. last \in Seq(S) /\ Len(last) = m /\ \A k \in 1..m : last[k] = ws[n - m + k]
  BY <1>1
<1> HIDE DEF last, n
<1>3. last = [k \in 1..m |-> last[k]]
  BY <1>2, AsFunction
<1>4. back = [k \in 1..m |-> last[(m - k) + 1]]
  BY <1>2 DEF Reverse
<1>5. ASSUME NEW k \in 1..m PROVE last[(m - k) + 1] = ws[n - k + 1]
  <2>1. (m - k) + 1 \in 1..m /\ n - m + ((m - k) + 1) = n - k + 1
    BY <1>1
  <2> QED BY <1>2, <2>1
<1> HIDE DEF back
<1>6. back = [k \in 1..m |-> back[k]] /\ \A k \in 1..m : back[k] = ws[n - k + 1]
  BY <1>4, <1>5
<1> QED BY <1>3, <1>6 DEF last, back, n

\* Entries go to the operand stack; their registers and the two it is reached by are given back.
LEMMA ReturnValuesOwned ==
  ASSUME NEW c, Owned(c, {}), NEW params \in Nat, params <= Len(c.working_stack)
  PROVE  LET d == ReturnValues(c, params) IN Owned(d, {}) /\ Keeps(c, d)
<1> DEFINE ws == c.working_stack
           n == Len(ws)
           entries == SubSeq(ws, n - params + 1, n)
           r == Register(c)
           pos == Position(c)
           e == StackRegisters(c)
           pushed == FoldLeft(PushEntry, e, entries)
           returned == ReleaseRegister(ReleaseRegister(pushed, r), pos)
           d == FoldLeft(Freed, returned, Reverse(entries))
<1>1. ReturnValues(c, params) = IF n = 0 THEN c ELSE d
  BY DEF ReturnValues
<1>2. PICK S : ws \in Seq(S)
  BY DEF Owned, IsCompiler, Stack
<1> DEFINE back == Reverse(entries)
<1>3. /\ entries = [k \in 1..params |-> entries[k]] /\ back = [k \in 1..params |-> back[k]]
      /\ \A k \in 1..params : back[k] = ws[n - k + 1]
  BY <1>2, LastEntries
<1> HIDE DEF entries, back
<1>4. /\ Owned(e, ({} \cup {r}) \cup {pos}) /\ Same(c, e) /\ (e.compile_success => pos \notin {} \cup {r})
  BY StackRegistersOwned
<1> HIDE DEF e, r, pos
<1>5. Owned(pushed, ({} \cup {r}) \cup {pos}) /\ Same(e, pushed)
  BY <1>3, <1>4, EntriesPushed
<1> HIDE DEF pushed
<1>6. pushed.compile_success => pos \notin {} \cup {r}
  BY <1>4, <1>5 DEF Same, Keeps
<1>7. Owned(returned, {}) /\ Same(pushed, returned)
  BY <1>5, <1>6, BothReleased
<1>8. Same(c, returned) /\ returned.working_stack = ws
  BY <1>4, <1>5, <1>7, SameOn DEF Same
<1> HIDE DEF returned
<1>9. Owned(d, {}) /\ Keeps(returned, d)
  <2>1. d = FoldLeft(Freed, returned, back)
    BY DEF back
  <2>2. params <= Len(returned.working_stack)
        /\ \A k \in 1..params : back[k] = returned.working_stack[Len(returned.working_stack) - k + 1]
    BY <1>3, <1>8
  <2> HIDE DEF d, n, ws
  <2> QED BY <2>1, <2>2, <1>3, <1>7, EntriesFreed
<1> HIDE DEF d
<1>10. Keeps(c, d)
  BY <1>8, <1>9, KeepsOn DEF Same
<1> QED BY <1>1, <1>9, <1>10, SameSelf

\* A call: its arguments go to the operand stack, the rest of the working stack stays.
LEMMA ProcessStackCallbackOwned ==
  ASSUME NEW c, Owned(c, {}), NEW i, NEW params \in Nat, params <= Len(c.working_stack)
  PROVE  LET d == ProcessStackCallback(c, i, params) IN Owned(d, {}) /\ Keeps(c, d)
<1> DEFINE rest  == SubSeq(c.working_stack, 1, Len(c.working_stack) - params)
           regs  == SelectSeq(rest, IsReg)
           saves == [n \in DOMAIN regs |-> Mov(regs[n], OnFrame(TMP_REG(n - 1)))]
           g == Gen(c, saves)
           s == [g EXCEPT !.compile_success = @ /\ Len(regs) <= 6]
           d == ReturnValues(s, params)
           r == Register(d)
           e == GetRegister(d)
           f == Gen(e, <<Machine("call", "always", Imm(i.b), Reg(r))>>)
           called == ReleaseRegister(f, r)
           again == Reverse([n \in DOMAIN regs |-> Mov(OnFrame(TMP_REG(n - 1)), regs[n])])
           z == Gen(called, again)
<1>1. ProcessStackCallback(c, i, params) = z
  BY DEF ProcessStackCallback
<1> HIDE DEF again, saves, regs
<1>2. Owned(g, {}) /\ Same(c, g)
  BY GenKeeps DEF Same
<1> HIDE DEF g
<1>3. Owned(s, {}) /\ Same(g, s)
  BY <1>2 DEF Owned, IsCompiler, Parts, Divided, Pools, Unused, Keeps, Same
<1> HIDE DEF s
<1>4. Owned(d, {}) /\ Keeps(s, d)
  <2>1. params <= Len(s.working_stack)
    BY <1>2, <1>3 DEF Same
  <2> QED BY <1>3, <2>1, ReturnValuesOwned
<1> HIDE DEF d
<1>5. Owned(e, {} \cup {r}) /\ Keeps(d, e)
  BY <1>4, GetRegisterOwned
<1> HIDE DEF e, r
<1>6. Owned(f, {} \cup {r}) /\ Keeps(e, f)
  BY <1>5, GenKeeps
<1> HIDE DEF f
<1>7. Owned(called, {}) /\ Keeps(f, called)
  <2>1. r \notin {}
    OBVIOUS
  <2> QED BY <1>6, <2>1, ReleaseRegisterOwned
<1> HIDE DEF called
<1>8. Owned(z, {}) /\ Keeps(called, z)
  BY <1>7, GenKeeps
<1> HIDE DEF z
<1>9. Keeps(c, d)
  BY <1>2, <1>3, <1>4, KeepsOn DEF Same
<1> QED BY <1>1, <1>5, <1>6, <1>7, <1>8, <1>9, KeepsOn

\* RTRN: the whole working stack goes to the operand stack.
LEMMA LeaveOwned ==
  ASSUME NEW c, Owned(c, {})
  PROVE  Owned(Leave(c), {}) /\ Keeps(c, Leave(c))
<1> DEFINE d == ReturnValues(c, Len(c.working_stack))
           e == Root(d)
           z == Gen(e, <<Machine("ret", "always", Imm(0), Imm(0))>>)
<1>1. Owned(d, {}) /\ Keeps(c, d)
  <2>1. Len(c.working_stack) \in Nat /\ Len(c.working_stack) <= Len(c.working_stack)
    BY DEF Owned, IsCompiler, Stack
  <2> QED BY <2>1, ReturnValuesOwned
<1> HIDE DEF d
<1>2. Owned(e, {}) /\ Keeps(d, e)
  BY <1>1, RootOwned DEF Same
<1> HIDE DEF e
<1>3. Owned(z, {}) /\ Keeps(e, z)
  BY <1>2, GenKeeps
<1> HIDE DEF z
<1>4. Leave(c) = z
  BY DEF z, e, d, Leave
<1> QED BY <1>1, <1>2, <1>3, <1>4, KeepsOn

\* POP_INT: the top entry, if there is one.
LEMMA DiscardedOwned ==
  ASSUME NEW c, Owned(c, {})
  PROVE  Owned(Discarded(c), {}) /\ Keeps(c, Discarded(c))
<1>1. CASE c.working_stack = <<>>
  BY <1>1, SameSelf DEF Discarded
<1>2. CASE c.working_stack # <<>>
  <2>1. Len(c.working_stack) > 0
    BY <1>2 DEF Owned, IsCompiler, Stack
  <2>2. Discarded(c) = Freed(c, TopWork(c))
    BY <1>2 DEF Discarded, Freed
  <2> QED BY <2>1, <2>2, FreedOwned
<1> QED BY <1>1, <1>2

-----------------------------------------------------------------------------
(* The translation of a method. *)

\* What one instruction may rely on.
Ready(c, i, params) ==
  IF c.instr_index <= params THEN i.op = "STOR_INT_VAR" /\ IsLocal(i)
  ELSE /\ i.op \in Known /\ i.b \in Int
       /\ i.op = "MTHD_CALL" => methods[i.b].params \in Nat
       /\ Len(c.working_stack) >= Takes(i)
       /\ i.op = "COPY_INT_VAR" /\ ~IsLocal(i) => ~IsReg(TopWork(c))
\* A jump to be skipped is one that takes a value, and comes next.
JumpNext(c) ==
  c.skip_jump => LET i == Code(c.method)[c.instr_index] IN i.op = "JMP" /\ i.b > -1

\* One instruction, whichever it is; one jump is skipped at most.
LEMMA ProcessedOwned ==
  ASSUME NEW c, Owned(c, {}), JumpNext(c),
         Ready(c, Code(c.method)[c.instr_index], methods[c.method].params)
  PROVE  LET d == Translate(c, methods, c.instr_index)
         IN  Owned(d, {}) /\ Keeps(c, d) /\ (c.skip_jump => ~d.skip_jump)
<1> DEFINE code == Code(c.method)
           i == code[c.instr_index]
           n == c.instr_index
           params == methods[c.method].params
           after == ProcessStackCallback(c, i, methods[i.b].params + 1)
           d == Translate(c, methods, n)
           Good(z) == Owned(z, {}) /\ Keeps(c, z) /\ (c.skip_jump => ~z.skip_jump)
<1>1. d = IF n <= params THEN ProcessParameter(c, code, i) ELSE
          CASE i.op = "LOAD_INT_LIT"  -> PushWork(c, Imm(i.a))
            [] i.op = "LOAD_INST_MEM" -> PushWork(c, OnFrame(INSTANCE_MEM))
            [] i.op = "LOAD_INT_VAR"  -> ProcessLoad(c, code, i)
            [] i.op = "STOR_INT_VAR"  -> ProcessStore(c, code, i)
            [] i.op = "COPY_INT_VAR"  -> ProcessCopy(c, code, i)
            [] i.op \in Binary        -> ProcessIntCalculation(c, code, i.op)
            [] i.op = "POP_INT"       -> Discarded(c)
            [] i.op = "JMP"           -> ProcessJump(c, i)
            [] i.op = "LBL"           -> c
            [] i.op = "MTHD_CALL"     ->
                 IF methods[i.b].returns THEN ProcessIntCallParameter(after) ELSE after
            [] i.op = "RTRN"          -> Leave(c)
  BY DEF Translate, Code
<1>2. /\ n <= params => i.op = "STOR_INT_VAR" /\ IsLocal(i)
      /\ ~(n <= params) =>
           /\ i.op \in Known /\ i.b \in Int
           /\ i.op = "MTHD_CALL" => methods[i.b].params \in Nat
           /\ Len(c.working_stack) >= Takes(i)
           /\ i.op = "COPY_INT_VAR" /\ ~IsLocal(i) => ~IsReg(TopWork(c))
  BY DEF Ready
<1>3. c.skip_jump => i.op = "JMP" /\ i.b > -1
  BY DEF JumpNext
<1>4. Len(c.working_stack) \in Nat
  BY DEF Owned, IsCompiler, Stack
<1> HIDE DEF d, i, n, params, after
<1>5. SUFFICES Good(d)
  BY DEF d, n
<1>6. CASE n <= params
  BY <1>1, <1>2, <1>3, <1>6, ProcessParameterOwned
<1>7. CASE ~(n <= params) /\ i.op = "LOAD_INT_LIT"
  <2>1. d = PushWork(c, Imm(i.a))
    BY <1>1, <1>7 DEF Binary, Arithmetic, Comparison, Shifts
  <2> QED BY <1>3, <1>7, <2>1, Kinds, LastPushed
<1>8. CASE ~(n <= params) /\ i.op = "LOAD_INST_MEM"
  <2>1. d = PushWork(c, OnFrame(INSTANCE_MEM))
    BY <1>1, <1>8 DEF Binary, Arithmetic, Comparison, Shifts
  <2> QED BY <1>3, <1>8, <2>1, Kinds, LastPushed
<1>9. CASE ~(n <= params) /\ i.op = "LOAD_INT_VAR"
  <2>1. d = ProcessLoad(c, code, i)
    BY <1>1, <1>9 DEF Binary, Arithmetic, Comparison, Shifts
  <2>2. ~IsLocal(i) => Len(c.working_stack) > 0
    BY <1>2, <1>4, <1>9 DEF Takes, Wanted, Needs, IsLocal, Moves, Binary, Arithmetic, Comparison, Shifts
  <2> QED BY <1>3, <1>9, <2>1, <2>2, ProcessLoadOwned
<1>10. CASE ~(n <= params) /\ i.op = "STOR_INT_VAR"
  <2>1. d = ProcessStore(c, code, i)
    BY <1>1, <1>10 DEF Binary, Arithmetic, Comparison, Shifts
  <2>2. Len(c.working_stack) >= IF IsLocal(i) THEN 1 ELSE 2
    BY <1>2, <1>4, <1>10 DEF Takes, Wanted, Needs, IsLocal, Moves, Binary, Arithmetic, Comparison, Shifts
  <2> QED BY <1>3, <1>10, <2>1, <2>2, ProcessStoreOwned
<1>11. CASE ~(n <= params) /\ i.op = "COPY_INT_VAR"
  <2>1. d = ProcessCopy(c, code, i)
    BY <1>1, <1>11 DEF Binary, Arithmetic, Comparison, Shifts
  <2>2. Len(c.working_stack) >= IF IsLocal(i) THEN 1 ELSE 2
    BY <1>2, <1>4, <1>11 DEF Takes, Wanted, Needs, IsLocal, Moves, Binary, Arithmetic, Comparison, Shifts
  <2> QED BY <1>2, <1>3, <1>11, <2>1, <2>2, ProcessCopyOwned
<1>12. CASE ~(n <= params) /\ i.op \in Binary
  <2>1. d = ProcessIntCalculation(c, code, i.op)
    BY <1>1, <1>12 DEF Binary, Arithmetic, Comparison, Shifts
  <2>2. Len(c.working_stack) >= 2 /\ i.op # "JMP"
    BY <1>2, <1>4, <1>12 DEF Takes, Wanted, Needs, Binary, Arithmetic, Comparison, Shifts
  <2> QED BY <1>3, <2>1, <2>2, ProcessIntCalculationOwned
<1>13. CASE ~(n <= params) /\ i.op = "POP_INT"
  <2>1. d = Discarded(c)
    BY <1>1, <1>13 DEF Binary, Arithmetic, Comparison, Shifts
  <2> QED BY <1>3, <1>13, <2>1, DiscardedOwned
<1>14. CASE ~(n <= params) /\ i.op = "JMP"
  <2>1. d = ProcessJump(c, i)
    BY <1>1, <1>14 DEF Binary, Arithmetic, Comparison, Shifts
  <2>2. c.skip_jump \/ i.b >= 0 => Len(c.working_stack) > 0
    BY <1>2, <1>3, <1>4, <1>14 DEF Takes, Wanted
  <2> QED BY <1>2, <1>14, <2>1, <2>2, ProcessJumpOwned
<1>15. CASE ~(n <= params) /\ i.op = "LBL"
  <2>1. d = c
    BY <1>1, <1>15 DEF Binary, Arithmetic, Comparison, Shifts
  <2> QED BY <1>3, <1>15, <2>1, SameSelf
<1>16. CASE ~(n <= params) /\ i.op = "MTHD_CALL"
  <2>1. d = IF methods[i.b].returns THEN ProcessIntCallParameter(after) ELSE after
    BY <1>1, <1>16 DEF Binary, Arithmetic, Comparison, Shifts
  <2>2. methods[i.b].params + 1 \in Nat /\ methods[i.b].params + 1 <= Len(c.working_stack)
    BY <1>2, <1>4, <1>16 DEF Takes
  <2>3. Owned(after, {}) /\ Keeps(c, after)
    BY <2>2, ProcessStackCallbackOwned DEF after
  <2>4. Owned(d, {}) /\ Keeps(c, d)
    BY <2>1, <2>3, ProcessIntCallParameterOwned, KeepsOn
  <2> QED BY <1>3, <1>16, <2>4
<1>17. CASE ~(n <= params) /\ i.op = "RTRN"
  <2>1. d = Leave(c)
    BY <1>1, <1>17 DEF Binary, Arithmetic, Comparison, Shifts
  <2> QED BY <1>3, <1>17, <2>1, LeaveOwned
<1>18. n <= params \/ i.op \in Binary \/ i.op \in {"LOAD_INT_LIT", "LOAD_INST_MEM", "LOAD_INT_VAR",
         "STOR_INT_VAR", "COPY_INT_VAR", "POP_INT", "JMP", "LBL", "MTHD_CALL", "RTRN"}
  BY <1>2 DEF Known, Straight, Moves
<1> QED BY <1>6, <1>7, <1>8, <1>9, <1>10, <1>11, <1>12, <1>13, <1>14, <1>15, <1>16, <1>17, <1>18

\* The pools of Compile have every register, once.
LEMMA NewCompilerOwned ==
  ASSUME NEW m
  PROVE  LET c == NewCompiler(m)
         IN  Owned(c, {}) /\ c.instr_index = 1 /\ c.method = m /\ ~c.skip_jump
<1> DEFINE c == NewCompiler(m)
<1>1. /\ DOMAIN c = Parts /\ c.compile_success = TRUE /\ c.working_stack = <<>>
      /\ c.aval_regs = AvalRegs /\ c.aux_regs = AuxRegs
      /\ c.instr_index = 1 /\ c.method = m /\ c.skip_jump = FALSE
  BY DEF NewCompiler, Parts
<1> HIDE DEF c
<1> DEFINE all == {"RBX", "RAX", "R15", "R14", "R13", "R11", "R10", "R8"}
<1>2. AvalRegs \in Seq(all) /\ Len(AvalRegs) = 2
  <2>1. AvalRegs \in Seq(all)
    BY DEF AvalRegs
  <2>2. Len(AvalRegs) = 2
    BY DEF AvalRegs
  <2> QED BY <2>1, <2>2
<1>3. /\ AvalRegs[1] = "RBX" /\ AvalRegs[2] = "RAX"
  BY DEF AvalRegs
<1>4. AuxRegs \in Seq(all) /\ Len(AuxRegs) = 6
  <2>1. AuxRegs \in Seq(all)
    BY DEF AuxRegs
  <2>2. Len(AuxRegs) = 6
    BY DEF AuxRegs
  <2> QED BY <2>1, <2>2
<1>5. /\ AuxRegs[1] = "R15" /\ AuxRegs[2] = "R14" /\ AuxRegs[3] = "R13"
      /\ AuxRegs[4] = "R11" /\ AuxRegs[5] = "R10" /\ AuxRegs[6] = "R8"
  BY DEF AuxRegs
<1>6. Elements(AvalRegs) = {"RBX", "RAX"} /\ Distinct(AvalRegs)
  <2>1. DOMAIN AvalRegs = {1, 2}
    BY <1>2
  <2> QED BY <1>3, <2>1 DEF Elements, Distinct
<1>7. Elements(AuxRegs) = {"R15", "R14", "R13", "R11", "R10", "R8"} /\ Distinct(AuxRegs)
  <2>1. DOMAIN AuxRegs = {1, 2, 3, 4, 5, 6}
    BY <1>4
  <2> QED BY <1>5, <2>1 DEF Elements, Distinct
<1>8. Pooled = Elements(AvalRegs) \cup Elements(AuxRegs)
  <2>1. Pooled = Elements(AvalRegs \o AuxRegs)
    BY DEF Pooled, ToSet, Elements
  <2> QED BY <1>2, <1>4, <2>1, BothSequences
<1>9. AvalRegs \in Seq(Pooled) /\ AuxRegs \in Seq(Pooled)
  BY <1>2, <1>4, <1>8, ElementsOf
<1>10. Stack(<<>>) /\ Holders(<<>>) = {} /\ OneEach(<<>>)
  BY DEF Stack, Holders, OneEach
<1>11. Elements(AvalRegs) \cap Elements(AuxRegs) = {}
  BY <1>6, <1>7
<1>12. Divided(c, {})
  BY <1>1, <1>6, <1>7, <1>8, <1>9, <1>10, <1>11 DEF Divided, Pools, Unused
<1> QED BY <1>1, <1>10, <1>12 DEF Owned, IsCompiler, c

\* As many values as arguments, if no two are equal.
LEMMA Counted ==
  ASSUME NEW D, IsFiniteSet(D), NEW F, \A a, b \in D : F[a] = F[b] => a = b
  PROVE  LET T == {F[a] : a \in D} IN IsFiniteSet(T) /\ Cardinality(T) = Cardinality(D)
<1> DEFINE T == {F[a] : a \in D}
           f == [a \in D |-> F[a]]
<1>1. f \in [D -> T] /\ (\A a, b \in D : f[a] = f[b] => a = b) /\ \A t \in T : \E a \in D : f[a] = t
  OBVIOUS
<1> HIDE DEF f, T
<1>2. f \in Bijection(D, T)
  BY <1>1, Fun_IsBij
<1>3. ExistsBijection(D, T)
  BY <1>2 DEF ExistsBijection
<1>4. IsFiniteSet(T) /\ Cardinality(T) = Cardinality(D)
  BY <1>3, FS_Bijection
<1> QED BY <1>4 DEF T

\* Two sets with nothing in common.
LEMMA Together ==
  ASSUME NEW S, NEW T, IsFiniteSet(S), IsFiniteSet(T), S \cap T = {}
  PROVE  IsFiniteSet(S \cup T) /\ Cardinality(S \cup T) = Cardinality(S) + Cardinality(T)
<1>1. Cardinality({}) = 0 /\ Cardinality(S) \in Nat /\ Cardinality(T) \in Nat
  BY FS_EmptySet, FS_CardinalityType
<1>2. /\ IsFiniteSet(S \cup T)
      /\ Cardinality(S \cup T) = Cardinality(S) + Cardinality(T) - Cardinality({})
  BY FS_Union
<1> QED BY <1>1, <1>2

\* When each register has one owner, the free ones and the entries that hold one
\* are as many as there are registers.
LEMMA OwnedConserved ==
  ASSUME Owned(jit, {})
  PROVE  RegistersConserved
<1> SUFFICES ASSUME jit.compile_success
             PROVE  /\ Len(Free(jit)) + Cardinality(InRegisters(jit)) = Cardinality(Pooled)
                    /\ ToSet(Free(jit)) \cup {jit.working_stack[n].holder : n \in InRegisters(jit)}
                         = Pooled
  BY DEF RegistersConserved
<1> DEFINE av == jit.aval_regs
           aux == jit.aux_regs
           ws == jit.working_stack
           D == InRegisters(jit)
           H == [n \in D |-> ws[n].holder]
           held == {H[n] : n \in D}
<1>1. Divided(jit, {}) /\ Stack(ws)
  BY DEF Owned, IsCompiler
<1>2. /\ av \in Seq(Pooled) /\ Distinct(av) /\ aux \in Seq(Pooled) /\ Distinct(aux)
      /\ Elements(av) \cap Elements(aux) = {}
  BY <1>1 DEF Divided, Pools
<1>3. held = Holders(ws) /\ \A a, b \in D : H[a] = H[b] => a = b
  BY <1>1 DEF Divided, Holders, OneEach, Hold, InRegisters
<1>4. held = {ws[n].holder : n \in D}
  OBVIOUS
<1>5. /\ (Elements(av) \cup Elements(aux)) \cap held = {}
      /\ Elements(av) \cup Elements(aux) \cup held = Pooled
  BY <1>1, <1>3 DEF Divided, Unused
<1>6. Free(jit) = av \o aux /\ ToSet(Free(jit)) = Elements(av \o aux)
  BY DEF Free, ToSet, Elements
<1>7. Elements(av \o aux) = Elements(av) \cup Elements(aux) /\ Len(av \o aux) = Len(av) + Len(aux)
  BY <1>2, BothSequences
<1>8. D \in SUBSET (1..Len(ws)) /\ Len(ws) \in Nat
  BY <1>1 DEF InRegisters, Stack
<1> HIDE DEF av, aux, ws, held, D, H
<1>9. IsFiniteSet(D)
  <2>1. IsFiniteSet(1..Len(ws))
    BY <1>8, FS_Interval
  <2> QED BY <1>8, <2>1, FS_Subset
<1>10. IsFiniteSet(held) /\ Cardinality(held) = Cardinality(D)
  BY <1>3, <1>9, Counted DEF held
<1>11. ASSUME NEW s \in Seq(Pooled), Distinct(s)
       PROVE  IsFiniteSet(Elements(s)) /\ Cardinality(Elements(s)) = Len(s) /\ Len(s) \in Nat
  <2>1. DOMAIN s = 1..Len(s) /\ Len(s) \in Nat
    OBVIOUS
  <2>2. IsFiniteSet(1..Len(s)) /\ Cardinality(1..Len(s)) = Len(s)
    BY <2>1, FS_Interval
  <2>3. \A a, b \in 1..Len(s) : s[a] = s[b] => a = b
    BY <1>11, <2>1 DEF Distinct
  <2>4. Elements(s) = {s[a] : a \in 1..Len(s)}
    BY <2>1 DEF Elements
  <2> QED BY <2>1, <2>2, <2>3, <2>4, Counted
<1>12. /\ IsFiniteSet(Elements(av)) /\ Cardinality(Elements(av)) = Len(av) /\ Len(av) \in Nat
       /\ IsFiniteSet(Elements(aux)) /\ Cardinality(Elements(aux)) = Len(aux) /\ Len(aux) \in Nat
  BY <1>2, <1>11
<1> DEFINE free == Elements(av) \cup Elements(aux)
<1>13. IsFiniteSet(free) /\ Cardinality(free) = Len(av) + Len(aux)
  <2>1. IsFiniteSet(free) /\ Cardinality(free) = Cardinality(Elements(av)) + Cardinality(Elements(aux))
    BY <1>2, <1>12, Together
  <2> QED BY <1>12, <2>1
<1>14. Cardinality(free \cup held) = Len(av) + Len(aux) + Cardinality(D)
  <2>1. free \cap held = {}
    BY <1>5
  <2> HIDE DEF free
  <2>2. Cardinality(free \cup held) = Cardinality(free) + Cardinality(held)
    BY <1>10, <1>13, <2>1, Together
  <2> QED BY <1>10, <1>13, <2>2
<1>15. Len(Free(jit)) + Cardinality(D) = Cardinality(Pooled)
  BY <1>5, <1>6, <1>7, <1>14
<1> QED BY <1>4, <1>5, <1>6, <1>7, <1>15 DEF D, ws

-----------------------------------------------------------------------------
\* Between two instructions no operation has a register in hand, and a jump that is
\* to be skipped comes next.
Conserved == /\ Owned(jit, {}) /\ JumpNext(jit)
             /\ jit.method = 0 => ~jit.skip_jump

\* No method yet.
LEMMA ConservedInit == TranslationInit => Conserved
BY NewCompilerOwned DEF TranslationInit, Conserved, JumpNext

\* A step of the translation, and one of the program that is loaded meanwhile.
LEMMA ConservedNext ==
  Conserved /\ Supplied /\ [TranslationNext]_jit /\ [jit.method = 0 /\ UNCHANGED jit]_methods
    => Conserved'
<1> SUFFICES ASSUME Conserved, Supplied, [TranslationNext]_jit,
                    [jit.method = 0 /\ UNCHANGED jit]_methods
             PROVE  Conserved'
  OBVIOUS
<1>1. CASE UNCHANGED jit
  <2>1. Owned(jit, {}) /\ Owned(jit, {})' /\ jit' = jit
    BY <1>1 DEF Conserved, Owned, IsCompiler, Divided, Pools, Unused
  <2>2. JumpNext(jit)'
    BY <1>1 DEF Conserved, JumpNext, Code
  <2> QED BY <2>1, <2>2 DEF Conserved
<1>2. ASSUME NEW m, StartMethod(m), methods' = methods PROVE Conserved'
  <2> DEFINE c == NewCompiler(m)
  <2>1. Owned(c, {}) /\ c.instr_index = 1 /\ c.method = m /\ ~c.skip_jump
    BY NewCompilerOwned
  <2> HIDE DEF c
  <2>2. jit' = Root(c)
    BY <1>2 DEF StartMethod, c
  <2>3. Owned(Root(c), {}) /\ Same(c, Root(c))
    BY <2>1, RootOwned
  <2>4. ~Root(c).skip_jump
    BY <2>1, RootSkips DEF Owned, IsCompiler
  <2> QED BY <2>1, <2>2, <2>3, <2>4 DEF Conserved, JumpNext, Same, Keeps
<1>3. CASE jit.method # 0 /\ NextInstruction /\ methods' = methods
  <2> DEFINE n == jit.instr_index
             i == Code(jit.method)[n]
             c == [jit EXCEPT !.offsets = Append(@, Len(jit.code) + 1)]
             d == Translate(c, methods, n)
  <2>1. /\ Owned(c, {}) /\ c.method = jit.method /\ c.instr_index = n
        /\ c.skip_jump = jit.skip_jump /\ c.working_stack = jit.working_stack
    BY DEF Conserved, Owned, IsCompiler, Parts, Divided, Pools, Unused
  <2>2. jit' = [d EXCEPT !.instr_index = n + 1]
    BY <1>3 DEF NextInstruction, ProcessInstruction
  <2>3. ~Translated
    BY <1>3 DEF NextInstruction
  <2> HIDE DEF c
  <2>4. JumpNext(c)
    BY <2>1 DEF Conserved, JumpNext
  <2>5. Ready(c, i, methods[c.method].params)
    BY <1>3, <2>1, <2>3 DEF Supplied, Ready, TopWork
  <2>6. Owned(d, {}) /\ Keeps(c, d) /\ (c.skip_jump => ~d.skip_jump)
    BY <2>1, <2>4, <2>5, ProcessedOwned
  <2> HIDE DEF d
  <2>7. Owned(jit', {}) /\ jit'.method = d.method /\ jit'.skip_jump = d.skip_jump
        /\ jit'.instr_index = n + 1
    BY <2>2, <2>6 DEF Owned, IsCompiler, Parts, Divided, Pools, Unused
  <2>8. d.method = jit.method /\ (d.skip_jump => CondJump(c, Code(jit.method)))
    BY <2>1, <2>6 DEF Keeps
  <2>9. JumpNext(jit)'
    BY <1>3, <2>1, <2>7, <2>8 DEF JumpNext, CondJump, Code
  <2> QED BY <1>3, <2>7, <2>8, <2>9 DEF Conserved
<1> QED BY <1>1, <1>2, <1>3 DEF TranslationNext

\* However a method that is given what its instructions need is translated, no
\* register is lost and none is given out twice, as long as there is one to give.
THEOREM TranslationConserves == TranslationSpec /\ []Supplied => []RegistersConserved
<1>1. Conserved => RegistersConserved
  BY OwnedConserved DEF Conserved
<1> QED BY ConservedInit, ConservedNext, <1>1, PTL DEF TranslationSpec

=============================================================================
