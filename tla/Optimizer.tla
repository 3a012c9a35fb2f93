------------------------------ MODULE Optimizer -------------------------------
(***************************************************************************)
(* The passes of compiler/optimization.cpp over one block of instructions. *)
(* A pass goes over its input once with the instructions written, out, and *)
(* those held back, work, whose front is the last of the sequence; the     *)
(* code writes work back "in reverse order", which is the order of work.   *)
(***************************************************************************)
EXTENDS StackMachine, SequencesExt

CONSTANTS
  IntBits,         \* width of INT_VALUE, the int of the compiler
  LoclInlineMemMax \* LOCL_INLINE_MEM_MAX, 128 bytes

ASSUME OptimizerAssumption == IntBits \in Nat \ {0} /\ LoclInlineMemMax \in Nat

Start         == [out |-> <<>>, work |-> <<>>]
Flush(p)      == [out |-> p.out \o p.work, work |-> <<>>]
Emit(p, i)    == [p EXCEPT !.out = Append(@, i)]
Hold(p, i)    == [p EXCEPT !.work = Append(@, i)]
FlushEmit(p, i) == Emit(Flush(p), i)
DropTop(p, n) == [p EXCEPT !.work = Pop(@, n)]
Held(p)       == p.work # <<>>

-----------------------------------------------------------------------------
\* CleanJumps: a jump to the instruction behind it
CleanJump(p, i) ==
  CASE i.op = "JMP" -> Hold(p, i)
    [] i.op = "LBL" /\ Held(p) /\ Top(p.work).a = i.a -> FlushEmit(DropTop(p, 1), i)
    [] OTHER -> FlushEmit(p, i)

\* RemoveUselessInstructions: a local stored where it was loaded from.  What
\* is held at the end is lost; a method ends with RTRN.
RemoveAnyStore(p, i) ==
  CASE i.op = "LOAD_INT_VAR" /\ i.b = LOCL -> Hold(p, i)
    [] i.op = "STOR_INT_VAR" /\ i.b = LOCL /\ Held(p) -> DropTop(p, 1)
    [] OTHER -> FlushEmit(p, i)
RemoveUseless(p, i) ==
  CASE i.op = "LOAD_INT_VAR" /\ i.b = LOCL -> Hold(p, i)
    [] i.op = "STOR_INT_VAR" /\ i.b = LOCL /\ Held(p) /\ Top(p.work).a = i.a ->
         DropTop(p, 1)
    [] OTHER -> FlushEmit(p, i)

-----------------------------------------------------------------------------
\* an int of the compiler
Wrap(v) == ((v + 2^(IntBits - 1)) % 2^IntBits) - 2^(IntBits - 1)

\* FoldIntConstants, CalculateIntFold: two literals and the operation on them
FoldInt(p, i) ==
  CASE i.op = "LOAD_INT_LIT" -> Hold(p, i)
    [] i.op \in Arithmetic /\ Len(p.work) > 1 ->
         Hold(DropTop(p, 2), Lit(Wrap(Value(i.op, Top(p.work).a, Second(p.work).a))))
    [] OTHER -> FlushEmit(p, i)

-----------------------------------------------------------------------------
\* the shift for a literal, 0 when there is none
Shift(v) == IF \E n \in 1..8 : v = 2^n THEN CHOOSE n \in 1..8 : v = 2^n ELSE 0

\* ApplyReduction and AddBackReduction; test is the literal among the two on top
ApplyReduction(p, i, test) ==
  LET top    == Top(p.work)
      second == Second(p.work)
      shift  == Shift(test.a)
      var(x) == IF x.op = "LOAD_INT_LIT" THEN <<>> ELSE <<x>>
  IN  IF shift = 0 THEN FlushEmit(p, i)
      ELSE [out |-> p.out \o Pop(p.work, 2) \o <<Lit(shift)>> \o var(second) \o var(top)
              \o <<Instr(IF i.op = "MUL_INT" THEN "SHL_INT" ELSE "SHR_INT", shift, 0)>>,
            work |-> <<>>]

\* StrengthReduction, CalculateReduction
ReduceStrength(p, i) ==
  LET top    == Top(p.work)
      second == Second(p.work)
  IN CASE i.op \in {"LOAD_INT_LIT", "LOAD_INT_VAR"} -> Hold(p, i)
       [] i.op \in {"MUL_INT", "DIV_INT"} /\ Len(p.work) > 1 ->
            CASE top.op = "LOAD_INT_LIT" /\ second.op = "LOAD_INT_VAR" ->
                   ApplyReduction(p, i, top)
              [] top.op = "LOAD_INT_VAR" /\ second.op = "LOAD_INT_LIT" ->
                   ApplyReduction(p, i, second)
              [] OTHER -> FlushEmit(p, i)
       [] OTHER -> FlushEmit(p, i)

-----------------------------------------------------------------------------
\* InstructionReplacement: a variable loaded right after it was stored.  The
\* stores of the parameters at the start are left alone, and of two stores in
\* a row neither is held.
ReplaceInstruction(p, i) ==
  CASE i.op = "LOAD_INT_VAR" /\ Held(p) /\ Top(p.work).a = i.a /\ Top(p.work).b = i.b ->
         Emit(DropTop(p, 1), Instr("COPY_INT_VAR", i.a, i.b))
    [] i.op = "STOR_INT_VAR" /\ ~Held(p) -> Hold(p, i)
    [] OTHER -> FlushEmit(p, i)

-----------------------------------------------------------------------------
\* CanInlineSetterGetter: what stands in for a call of the method, <<>> when nothing does
Types(code) == [n \in DOMAIN code |-> code[n].op]
AccessorOf(mth) ==
  LET code == mth.code
      getter == /\ Types(code) = <<"LOAD_INST_MEM", "LOAD_INT_VAR", "RTRN">>
                /\ code[2].b = INST
      literal == Types(code) = <<"LOAD_INT_LIT", "RTRN">>
      setter == /\ Types(code) = <<"STOR_INT_VAR", "LOAD_INT_VAR", "LOAD_INST_MEM",
                                   "STOR_INT_VAR", "RTRN">>
                /\ code[1].a = 0 /\ code[1].b = LOCL
                /\ code[2].a = 0 /\ code[2].b = LOCL
                /\ code[4].b = INST
  IN CASE mth.params = 0 /\ getter  -> <<code[2]>>
       [] mth.params = 0 /\ literal -> <<Op("POP_INT"), code[1]>>
       [] mth.params = 1 /\ setter  -> <<code[4]>>
       [] OTHER -> <<>>

InlineAccessor(mthds, i) ==
  IF i.op = "MTHD_CALL" /\ AccessorOf(mthds[i.b]) # <<>>
  THEN AccessorOf(mthds[i.b]) ELSE <<i>>

-----------------------------------------------------------------------------
\* the labels and jumps of the method before its calls are inlined
LabelsIn(code) == {i.a : i \in {j \in ToSet(code) : j.op \in {"LBL", "JMP"}}}

\* CanInlineMethod, for methods of one class that are neither constructors,
\* virtual, nor Main; inlined is the set of those already inlined in caller
CanInlineMethod(mthds, caller, m, inlined, labels) ==
  LET code == mthds[m].code
  IN  /\ m \notin inlined /\ m # caller.id
      /\ caller.space + mthds[m].space <= LoclInlineMemMax
      /\ Len(code) >= 2
      /\ \A i \in ToSet(code) : i.op \in Moves => i.b = LOCL
      /\ LabelsIn(code) \cap labels = {}
      /\ Len(SelectSeq(code, LAMBDA i : i.op = "RTRN")) <= 1

\* GetLastLocalOffset: the greatest local in the original and in the new code
LastLocalOffset(code, out) ==
  Max({0} \cup {i.a : i \in {j \in ToSet(code \o out) : IsLocal(j)}})

\* an instruction of the callee in the caller: its locals behind the word for self
Moved(i, offset) ==
  CASE IsLocal(i) -> [i EXCEPT !.a = @ + offset + 1]
    [] i.op = "LOAD_INST_MEM" -> LoadV(offset, LOCL)
    [] OTHER -> i

\* InlineMethod: c is the caller as far as it is rewritten, with out and inlined
InlineCall(mthds, labels, c, i) ==
  IF i.op = "MTHD_CALL" /\ CanInlineMethod(mthds, c, i.b, c.inlined, labels)
  THEN LET m == mthds[i.b]
           offset == LastLocalOffset(c.code, c.out) + 2
           body == [n \in 1..(Len(m.code) - 1) |-> Moved(m.code[n], offset)]
       IN  [c EXCEPT !.out = @ \o <<StorV(offset, LOCL)>> \o body,
                     !.space = @ + 8 + m.space,
                     !.declarations = @ \o <<"OBJ_PARM">> \o m.declarations,
                     !.inlined = @ \cup {i.b}]
  ELSE [c EXCEPT !.out = Append(@, i)]

-----------------------------------------------------------------------------
\* an instruction in a pass, with the methods and labels a pass looks at besides
Step(pass, p, i) ==
  CASE pass.name = "CleanJumps" -> CleanJump(p, i)
    [] pass.name = "RemoveUselessInstructions" -> RemoveUseless(p, i)
    [] pass.name = "InlineSettersGetters" ->
         [p EXCEPT !.out = @ \o InlineAccessor(pass.methods, i)]
    [] pass.name = "FoldIntConstants" -> FoldInt(p, i)
    [] pass.name = "StrengthReduction" -> ReduceStrength(p, i)
    [] pass.name = "InstructionReplacement" -> ReplaceInstruction(p, i)
    [] pass.name = "InlineMethod" -> InlineCall(pass.methods, pass.labels, p, i)

\* A pass goes through the code from front to back.  The recursion is by halves,
\* the set of one element being there so that TLC has done with the first before
\* it takes the second: FoldLeft would be as deep as the code is long.
RECURSIVE Through(_, _, _)
Through(pass, code, p) ==
  LET half == Len(code) \div 2
  IN CASE Len(code) = 0 -> p
       [] Len(code) = 1 -> Step(pass, p, code[1])
       [] OTHER -> CHOOSE done \in {Through(pass, SubSeq(code, half + 1, Len(code)), first) :
                                     first \in {Through(pass, SubSeq(code, 1, half), p)}} : TRUE
Pass(name, code) == Through([name |-> name], code, Start)

CleanJumps(code)                == Flush(Pass("CleanJumps", code)).out
RemoveUselessInstructions(code) == Pass("RemoveUselessInstructions", code).out
InlineSettersGetters(mthds, code) ==
  Through([name |-> "InlineSettersGetters", methods |-> mthds], code, Start).out
FoldIntConstants(code)          == Flush(Pass("FoldIntConstants", code)).out
StrengthReduction(code)         == Flush(Pass("StrengthReduction", code)).out
InstructionReplacement(code) ==
  LET n == SelectInSeq(code, LAMBDA i : i.op # "STOR_INT_VAR") - 1
  IN  SubSeq(code, 1, n)
        \o Flush(Pass("InstructionReplacement", SubSeq(code, n + 1, Len(code)))).out

\* OptimizeMethod: the passes a level asks for, in their order
OptimizeMethod(mthds, m, level) ==
  LET cleaned  == RemoveUselessInstructions(CleanJumps(mthds[m].code))
      folded   == FoldIntConstants(InlineSettersGetters(mthds, cleaned))
      reduced  == StrengthReduction(folded)
      replaced == InstructionReplacement(reduced)
      code == CASE level = 0 -> cleaned
                [] level = 1 -> folded
                [] level = 2 -> reduced
                [] OTHER     -> replaced
  IN  [mthds[m] EXCEPT !.code = code]

\* InlineMethod, as far as it rewrites a method
InlineMethod(mthds, m, lastLabel) ==
  LET mth == mthds[m]
      caller == [id |-> m, code |-> mth.code, space |-> mth.space,
                 declarations |-> mth.declarations, out |-> <<>>, inlined |-> {}]
      labels == LabelsIn(mth.code) \cup {lastLabel + 1}
      done == Through([name |-> "InlineMethod", methods |-> mthds, labels |-> labels],
                      mth.code, caller)
  IN  [mth EXCEPT !.code = done.out, !.space = done.space,
                  !.declarations = done.declarations]
===============================================================================
