---------------------------- MODULE NativeCompiler ----------------------------
(***************************************************************************)
(* vm/jit/amd64: from the instructions of a method to machine code, with   *)
(* integers only.  The state of JitCompilerIA64 is a record c; jit is the  *)
(* one that is at work.  Code that computes an address in the operand      *)
(* stack is one push or pop; a byte offset into the frame is counted in    *)
(* words.                                                                  *)
(***************************************************************************)
EXTENDS StackMachine, SequencesExt, FiniteSetsExt

VARIABLE jit \* state of JitCompilerIA64

\* the pools of Compile, what is handed out first at the end
AvalRegs  == <<"RBX", "RAX">>
AuxRegs   == <<"R15", "R14", "R13", "R11", "R10", "R8">>
Pooled    == ToSet(AvalRegs \o AuxRegs)
Registers == Pooled \cup {"RCX", "RDX"}

\* words of a frame below RBP; locals are below the red zone
INSTANCE_MEM == -4
OP_STACK     == -5
STACK_POS    == -6
TMP_REG(n)   == -11 - n
RED_ZONE     == -16

\* RegInstr: an entry of working_stack, and an operand of the code
Imm(n)       == [type |-> "IMM_INT", operand |-> n, holder |-> "none"]
Reg(r)       == [type |-> "REG_INT", operand |-> 0, holder |-> r]
Mem(n, base) == [type |-> "MEM_INT", operand |-> n, holder |-> base]
OnFrame(n)     == Mem(n, "RBP")
IsReg(x)     == x.type = "REG_INT"

\* a machine instruction: dest is changed, cond is that of a jump or cmov
Machine(op, cond, src, dest) == [op |-> op, cond |-> cond, src |-> src, dest |-> dest]
Mov(src, dest) == Machine("mov", "always", src, dest)
Cmp(src, r)    == Machine("cmp", "always", src, Reg(r))

NewCompiler(method) ==
  [method |-> method, instr_index |-> 1, working_stack |-> <<>>, aval_regs |-> AvalRegs,
   aux_regs |-> AuxRegs, code |-> <<>>, offsets |-> <<>>, skip_jump |-> FALSE,
   compile_success |-> TRUE]

Gen(c, instrs)   == [c EXCEPT !.code = @ \o instrs]
PushWork(c, x)  == [c EXCEPT !.working_stack = Push(@, x)]
TopWork(c)      == Top(c.working_stack)
PopWork(c)      == [c EXCEPT !.working_stack = Pop(@, 1)]

-----------------------------------------------------------------------------
\* GetRegister in two parts: the register, and the compiler without it; when none
\* is left the translation fails, and RAX is handed out for the rest of it
RegisterAtLast(c) == IF c.aval_regs # <<>> THEN Top(c.aval_regs)
                     ELSE IF c.aux_regs # <<>> THEN Top(c.aux_regs) ELSE "RCX"
Register(c) == IF c.aval_regs # <<>> THEN Top(c.aval_regs)
               ELSE IF c.aux_regs # <<>> THEN Top(c.aux_regs) ELSE "RAX"
GetRegister(c) ==
  CASE c.aval_regs # <<>> -> [c EXCEPT !.aval_regs = Pop(@, 1)]
    [] c.aval_regs = <<>> /\ c.aux_regs # <<>> -> [c EXCEPT !.aux_regs = Pop(@, 1)]
    [] OTHER -> [c EXCEPT !.compile_success = FALSE]

ReleaseRegister(c, r) == [c EXCEPT !.aval_regs = Push(@, r)]
ReleaseNone(c, x) == c
Release(c, x) == IF IsReg(x) THEN ReleaseRegister(c, x.holder) ELSE c

\* a register taken, with the operand moved into it
InRegister(c, x) == Gen(GetRegister(c), <<Mov(x, Reg(Register(c)))>>)

\* the address on top: in its register, or fetched
Address(c)  == IF IsReg(TopWork(c)) THEN TopWork(c).holder ELSE Register(c)
Addressed(c) ==
  LET x == TopWork(c)
      d == IF IsReg(x) THEN PopWork(c) ELSE InRegister(PopWork(c), OnFrame(x.operand))
  IN  Gen(d, <<Machine("check", "always", Reg(Address(c)), Reg(Address(c)))>>)

\* ProcessIndices: the locals that occur are numbered without gaps
LocalIds(code) == {i.a : i \in {j \in ToSet(code) : IsLocal(j)}}
Word(code, id) == RED_ZONE - Cardinality({k \in LocalIds(code) : k <= id})
Target(code, i, base) == Mem(IF IsLocal(i) THEN Word(code, i.a) ELSE i.a, base)

-----------------------------------------------------------------------------
\* a local is read when it is used
ProcessLoad(c, code, i) ==
  IF IsLocal(i) THEN PushWork(c, Target(code, i, "RBP"))
  ELSE LET r == Address(c)
       IN  PushWork(Gen(Addressed(c), <<Mov(Target(code, i, r), Reg(r))>>), Reg(r))

\* the value on top goes to the target
StoreTo(c, target) ==
  LET x == TopWork(c)
      d == PopWork(c)
  IN IF x.type = "MEM_INT"
     THEN ReleaseRegister(Gen(InRegister(d, x), <<Mov(Reg(Register(d)), target)>>), Register(d))
     ELSE Release(Gen(d, <<Mov(x, target)>>), x)

ProcessStore(c, code, i) ==
  IF IsLocal(i) THEN StoreTo(c, Target(code, i, "RBP"))
  ELSE LET r == Address(c)
       IN  ReleaseRegister(StoreTo(Addressed(c), Target(code, i, r)), r)

\* the register of the address is given back before that of the value is taken
ProcessCopy(c, code, i) ==
  LET r == Register(PopWork(c))
      d == IF IsLocal(i) THEN c
           ELSE ReleaseRegister(Gen(InRegister(PopWork(c), OnFrame(TopWork(c).operand)),
                  <<Machine("check", "always", Reg(r), Reg(r))>>), r)
      target == Target(code, i, IF IsLocal(i) THEN "RBP" ELSE r)
      x == TopWork(d)
      v == Register(PopWork(d))
  IN  IF IsReg(x) THEN Gen(d, <<Mov(x, target)>>)
      ELSE PushWork(Gen(InRegister(PopWork(d), x), <<Mov(Reg(v), target)>>), Reg(v))

-----------------------------------------------------------------------------
\* a jump to a label, its offset to be filled in (jump_table)
Jcc(cond, label) == Machine("jump", cond, Imm(label), Imm(0))
NegationSwapped == [LES_INT |-> "GTR_INT", GTR_INT |-> "LES_INT",
                    EQL_INT |-> "NEQL_INT", NEQL_INT |-> "EQL_INT"]
Negation == [LES_INT |-> "GTR_EQL_INT", GTR_INT |-> "LES_EQL_INT",
             EQL_INT |-> "NEQL_INT", NEQL_INT |-> "EQL_INT"]

ProcessJump(c, i) ==
  LET x == TopWork(c)
      d == PopWork(c)
      r == Register(d)
      compared == IF IsReg(x) THEN ReleaseRegister(Gen(d, <<Cmp(Imm(i.b), x.holder)>>), x.holder)
                  ELSE ReleaseRegister(Gen(InRegister(d, x), <<Cmp(Imm(i.b), r)>>), r)
  IN CASE c.skip_jump -> [Release(d, x) EXCEPT !.skip_jump = FALSE]
       [] ~c.skip_jump /\ i.b < 0  -> Gen(c, <<Jcc("always", i.a)>>)
       [] ~c.skip_jump /\ i.b >= 0 -> Gen(compared, <<Jcc("EQL_INT", i.a)>>)

\* cond_jmp, cmov_reg: a comparison right before its jump is one with it
CondJump(c, code) ==
  LET next == code[c.instr_index + 1]
  IN  c.instr_index < Len(code) /\ next.op = "JMP" /\ next.b > -1
Condition(c, code, op, r) ==
  LET next == code[c.instr_index + 1]
      t == Register(c)
  IN  IF CondJump(c, code)
      THEN [Gen(c, <<Jcc(IF next.b = 0 THEN Negation[op] ELSE op, next.a)>>)
             EXCEPT !.skip_jump = TRUE]
      ELSE ReleaseRegister(Gen(GetRegister(c),
             <<Mov(Imm(0), Reg(r)), Mov(Imm(1), Reg(t)), Machine("cmov", op, Reg(t), Reg(r))>>), t)

\* div_reg_reg, div_mem_reg: RAX and RDX are kept in the frame
Divide(op, x, r) ==
  LET mod == op = "MOD_INT"
      by  == IF x = Reg("RAX") THEN OnFrame(TMP_REG(0)) ELSE x
      result == IF mod THEN "RDX" ELSE "RAX"
  IN  (IF mod \/ r # "RAX" THEN <<Mov(Reg("RAX"), OnFrame(TMP_REG(0)))>> ELSE <<>>)
        \o <<Mov(Reg("RDX"), OnFrame(TMP_REG(1))), Mov(Reg(r), Reg("RAX")),
             Machine("idiv", "always", by, Reg("RAX"))>>
        \o <<Mov(Reg(result), Reg(r)), Mov(OnFrame(TMP_REG(1)), Reg("RDX"))>>
        \o (IF r # "RAX" THEN <<Mov(OnFrame(TMP_REG(0)), Reg("RAX"))>> ELSE <<>>)

\* shl_reg_reg, shr_reg_reg: the count is in RCX, which is kept in the frame
ShiftBy(op, x, r) ==
  <<Mov(Reg("RCX"), OnFrame(TMP_REG(0))), Mov(x, Reg("RCX")),
    Machine(op, "always", Reg("RCX"), Reg(r)), Mov(OnFrame(TMP_REG(0)), Reg("RCX"))>>

\* math_imm_reg, math_reg_reg, math_mem_reg: r := r op x
Math(c, code, op, x, r) ==
  LET t == Register(c)
      Through(instrs) == ReleaseRegister(Gen(InRegister(c, x), instrs), t)
  IN CASE op \in Comparison -> Condition(Gen(c, <<Cmp(x, r)>>), code, op, r)
       [] op \in {"DIV_INT", "MOD_INT"} ->
            IF x.type = "IMM_INT" THEN Through(Divide(op, Reg(t), r)) ELSE Gen(c, Divide(op, x, r))
       [] op \in Shifts /\ x.type # "IMM_INT" ->
            IF IsReg(x) THEN Gen(c, ShiftBy(op, x, r)) ELSE Through(ShiftBy(op, Reg(t), r))
       [] OTHER -> Gen(c, <<Machine(op, "always", x, Reg(r))>>)

\* what is left of the operator is on top; the result is in its register or in
\* a new one
ProcessIntCalculation(c, code, op) ==
  LET left  == TopWork(c)
      right == TopWork(PopWork(c))
      d     == PopWork(PopWork(c))
      r     == Register(d)
      \* MEM_INT with IMM_INT on the left: the memory is fetched first
      right_first == InRegister(d, right)
      both  == InRegister(right_first, left)
      l     == Register(right_first)
      With(e, x, reg) == Math(e, code, op, x, reg)
  IN CASE left.type = "IMM_INT" /\ right.type = "IMM_INT" ->
            PushWork(d, Imm(Value(op, left.operand, right.operand)))
       [] left.type = "IMM_INT" /\ right.type = "MEM_INT" ->
            PushWork(ReleaseRegister(With(both, Reg(r), l), r), Reg(l))
       [] left.type # "REG_INT" /\ right.type = "REG_INT" ->
            PushWork(ReleaseRegister(With(InRegister(d, left), right, r), right.holder), Reg(r))
       [] left.type = "MEM_INT" /\ right.type # "REG_INT" ->
            PushWork(With(InRegister(d, left), right, r), Reg(r))
       [] left.type = "REG_INT" /\ right.type = "IMM_INT" ->
            PushWork(With(d, right, left.holder), left)
       [] left.type = "REG_INT" /\ right.type = "REG_INT" ->
            ReleaseRegister(PushWork(With(d, right, left.holder), left), right.holder)
       [] left.type = "REG_INT" /\ right.type = "MEM_INT" ->
            PushWork(ReleaseRegister(With(right_first, Reg(r), left.holder), r), left)

-----------------------------------------------------------------------------
\* the registers in which the operand stack is reached: its address, its position
StackRegisters(c) ==
  InRegister(InRegister(c, OnFrame(OP_STACK)), OnFrame(STACK_POS))
Position(c) == Register(GetRegister(c))

\* ProcessIntCallParameter: the value on the operand stack, into a register
ProcessIntCallParameter(c) ==
  LET r == Register(c)
  IN  ReleaseRegister(PushWork(Gen(StackRegisters(c),
        <<Machine("pop", "always", Imm(0), Reg(r))>>), Reg(r)), Position(c))

\* ProcessParameters, for one parameter
ProcessParameter(c, code, i) ==
  LET r == Register(c)
      d == StackRegisters(c)
      v == Register(d)
      popped == PushWork(Gen(GetRegister(d), <<Machine("pop", "always", Imm(0), Reg(r)),
                                             Mov(Reg(r), Reg(v))>>), Reg(v))
  IN  ReleaseRegister(ReleaseRegister(ProcessStore(popped, code, i), r), Position(c))

\* ProcessReturn: the top entries go to the operand stack, the deepest first
PushEntry(c, x) ==
  IF x.type = "MEM_INT"
  THEN ReleaseRegister(Gen(InRegister(c, x),
         <<Machine("push", "always", Reg(Register(c)), Imm(0))>>), Register(c))
  ELSE Gen(c, <<Machine("push", "always", x, Imm(0))>>)
Freed(c, x) == Release(PopWork(c), x)
ReturnValues(c, params) ==
  LET n == Len(c.working_stack)
      entries == SubSeq(c.working_stack, n - params + 1, n)
      pushed == FoldLeft(PushEntry, StackRegisters(c), entries)
      returned == ReleaseRegister(ReleaseRegister(pushed, Register(c)), Position(c))
  IN  IF n = 0 THEN c ELSE FoldLeft(Freed, returned, Reverse(entries))

\* ProcessStackCallback: what stays on the working stack is kept in the frame
\* while the call has the registers
ProcessStackCallback(c, i, params) ==
  LET rest  == SubSeq(c.working_stack, 1, Len(c.working_stack) - params)
      regs  == SelectSeq(rest, IsReg)
      saves == [n \in DOMAIN regs |-> Mov(regs[n], OnFrame(TMP_REG(n - 1)))]
      d == ReturnValues([Gen(c, saves) EXCEPT !.compile_success = @ /\ Len(regs) <= 6], params)
      r == Register(d)
      called == ReleaseRegister(Gen(GetRegister(d),
                  <<Machine("call", "always", Imm(i.b), Reg(r))>>), r)
  IN  Gen(called, Reverse([n \in DOMAIN regs |-> Mov(OnFrame(TMP_REG(n - 1)), regs[n])]))

\* RegisterRoot and UnregisterRoot take two registers for a moment
Root(c) ==
  LET r == Register(c)
      d == GetRegister(c)
  IN  ReleaseRegister(ReleaseRegister(GetRegister(d), r), Register(d))
Leave(c) == Gen(Root(ReturnValues(c, Len(c.working_stack))),
                 <<Machine("ret", "always", Imm(0), Imm(0))>>)

DiscardedNever(c) == c
Discarded(c) == IF c.working_stack = <<>> THEN c ELSE Release(PopWork(c), TopWork(c))

-----------------------------------------------------------------------------
\* ProcessInstructions: one instruction of the method, at index n
Translate(c, mthds, n) ==
  LET code == mthds[c.method].code
      i == code[n]
      callee == mthds[i.b]
      after == ProcessStackCallback(c, i, callee.params + 1)
  IN IF n <= mthds[c.method].params THEN ProcessParameter(c, code, i) ELSE
    CASE i.op = "LOAD_INT_LIT"  -> PushWork(c, Imm(i.a))
      [] i.op = "LOAD_INST_MEM" -> PushWork(c, OnFrame(INSTANCE_MEM))
      [] i.op = "LOAD_INT_VAR"  -> ProcessLoad(c, code, i)
      [] i.op = "STOR_INT_VAR"  -> ProcessStore(c, code, i)
      [] i.op = "COPY_INT_VAR"  -> ProcessCopy(c, code, i)
      [] i.op \in Binary        -> ProcessIntCalculation(c, code, i.op)
      [] i.op = "POP_INT"       -> Discarded(c)
      [] i.op = "JMP"           -> ProcessJump(c, i)
      [] i.op = "LBL"           -> c
      [] i.op = "MTHD_CALL"     ->
           IF callee.returns THEN ProcessIntCallParameter(after) ELSE after
      [] i.op = "RTRN"          -> Leave(c)

ProcessInstruction(c, mthds) ==
  LET n == c.instr_index
      located == [c EXCEPT !.offsets = Append(@, Len(c.code) + 1)]
  IN  [Translate(located, mthds, n) EXCEPT !.instr_index = n + 1]

\* Compile, its last part: a jump goes to the instruction behind its label
Patched(c, code) ==
  [n \in DOMAIN c.code |->
     IF c.code[n].op = "jump"
     THEN [c.code[n] EXCEPT !.src = Imm(c.offsets[LabelIndex(code, c.code[n].src.operand) + 1])]
     ELSE c.code[n]]
-----------------------------------------------------------------------------
(* The translation of one method, an instruction a step. *)
TranslationInit == jit = NewCompiler(0)
StartMethod(m)  == jit' = Root(NewCompiler(m))

Translated == jit.instr_index > Len(Code(jit.method)) \/ ~jit.compile_success
NextInstruction == ~Translated /\ jit' = ProcessInstruction(jit, methods)

TranslationNext == \/ jit.method = 0 /\ \E m \in DOMAIN methods : StartMethod(m)
                   \/ jit.method # 0 /\ NextInstruction
\* the program stays as it is loaded while one of its methods is translated
TranslationSpec ==
  TranslationInit /\ [][TranslationNext]_jit /\ [][jit.method = 0 /\ UNCHANGED jit]_methods

\* The compiler of the virtual machine relies on what it is given: an instruction
\* is one it knows and finds its operands on the working stack, the stores of the
\* parameters come first, and COPY_INT_VAR has the object of its field right from
\* memory.
Known    == Straight \cup {"JMP", "LBL", "MTHD_CALL", "RTRN"}
Takes(i) == IF i.op = "MTHD_CALL" THEN methods[i.b].params + 1
            ELSE IF i.op = "POP_INT" THEN 0 ELSE Wanted(i)
Supplied ==
  jit.method # 0 /\ ~Translated =>
    LET i == Code(jit.method)[jit.instr_index]
    IN  IF jit.instr_index <= methods[jit.method].params THEN i.op = "STOR_INT_VAR" /\ IsLocal(i)
        ELSE /\ i.op \in Known /\ i.b \in Int
             /\ i.op = "MTHD_CALL" => methods[i.b].params \in Nat
             /\ Len(jit.working_stack) >= Takes(i)
             /\ i.op = "COPY_INT_VAR" /\ ~IsLocal(i) => ~IsReg(TopWork(jit))

\* Between two instructions every register is either free, once, or the value of
\* one entry of the working stack: none is lost, none has two owners.
InRegisters(c) == {n \in DOMAIN c.working_stack : IsReg(c.working_stack[n])}
Free(c)        == c.aval_regs \o c.aux_regs
RegistersConserved ==
  jit.compile_success =>
    /\ Len(Free(jit)) + Cardinality(InRegisters(jit)) = Cardinality(Pooled)
    /\ ToSet(Free(jit)) \cup {jit.working_stack[n].holder : n \in InRegisters(jit)} = Pooled
===============================================================================
