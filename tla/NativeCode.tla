------------------------------ MODULE NativeCode ------------------------------
(***************************************************************************)
(* A native method: the class is compiled as in Compiler, the method that  *)
(* is called is translated by NativeCompiler, one instruction a step, and  *)
(* the machine code runs.  It shares the operand stack and the object with *)
(* the interpreter, which runs the methods it calls.                       *)
(***************************************************************************)
EXTENDS Compiler, NativeCompiler

CONSTANTS
  Junk,    \* what is in a register or a word of the frame nobody has written
  WordBits \* width of a register, for the shift that is not arithmetic

ASSUME NativeAssumption == Junk \in Int \ {0, Instance} /\ WordBits \in Nat

VARIABLE
  cpu  \* native code at run time: code, pc, registers, frame, flags, in a callback

nativeVars == <<vars, jit, cpu>>

entry == program.entry
CallbackKept(on) == [cpu EXCEPT !.calling = TRUE]
Callback(on) == [cpu EXCEPT !.calling = on]

NativeInit ==
  /\ Init
  /\ TranslationInit
  /\ cpu = [code |-> <<>>, pc |-> 1, regs |-> [r \in Registers |-> Junk],
            mem |-> [n \in RED_ZONE - LocalSize .. -1 |-> Junk],
            left |-> 0, right |-> 0, calling |-> FALSE]

\* the stages of Compiler and the interpreter are as they are there
Compile == /\ Parse \/ AnalyzeNext \/ EmitNext \/ OptimizeNext \/ InlineNext
           /\ UNCHANGED <<jit, cpu>>
Interpret == status = "run" /\ RunNext /\ UNCHANGED <<jit, cpu>>

\* ProcessJitMethodCall, first part: Compile
StartTranslation ==
  /\ status = "loaded"
  /\ StartMethod(entry)
  /\ status' = "translate"
  /\ UNCHANGED <<program, level, class, labels, current, methods, op_stack, frames, fields, cpu>>

TranslateNext ==
  /\ status = "translate"
  /\ NextInstruction
  /\ UNCHANGED <<vars, cpu>>

\* the code is called: its frame has the instance and, after AddJitMethodRoot,
\* zeros for the locals
FrameNotCleared == [n \in DOMAIN cpu.mem |->
  CASE n = INSTANCE_MEM -> Instance [] n \in {OP_STACK, STACK_POS} -> 0 [] OTHER -> Junk]
FrameCleared == [n \in DOMAIN cpu.mem |->
  CASE n = INSTANCE_MEM -> Instance
    [] n \in {OP_STACK, STACK_POS} -> 0
    [] n \in RED_ZONE - Cardinality(LocalIds(Code(entry))) .. RED_ZONE - 1 -> 0
    [] OTHER -> Junk]
StartNative ==
  /\ status = "translate"
  /\ Translated
  /\ jit.compile_success
  /\ cpu' = [cpu EXCEPT !.code = Patched(jit, Code(entry)), !.mem = FrameCleared]
  /\ op_stack' = program.args
  /\ status' = "native"
  /\ UNCHANGED <<program, level, class, labels, current, methods, frames, fields, jit>>

\* too few registers: the method is interpreted after all
FallBack ==
  /\ status = "translate"
  /\ Translated
  /\ ~jit.compile_success
  /\ op_stack' = program.args
  /\ frames' = <<NewFrame(entry, Instance, program.args)>>
  /\ status' = "run"
  /\ UNCHANGED <<program, level, class, labels, current, methods, fields, jit, cpu>>

-----------------------------------------------------------------------------
instr == cpu.code[cpu.pc]

Read(x) ==
  CASE x.type = "IMM_INT" -> x.operand
    [] x.type = "REG_INT" -> cpu.regs[x.holder]
    [] x.type = "MEM_INT" /\ x.holder = "RBP" -> cpu.mem[x.operand]
    [] x.type = "MEM_INT" /\ x.holder # "RBP" -> fields[x.operand]

\* the processor after an instruction that leaves v in x
Written(x, v) ==
  CASE x.type = "REG_INT" -> [cpu EXCEPT !.regs[x.holder] = v, !.pc = @ + 1]
    [] x.type = "MEM_INT" /\ x.holder = "RBP" -> [cpu EXCEPT !.mem[x.operand] = v, !.pc = @ + 1]
    [] OTHER -> [cpu EXCEPT !.pc = @ + 1]

Holds(cond, left, right) ==
  CASE cond = "always"      -> TRUE
    [] cond = "LES_EQL_INT" -> left <= right
    [] cond = "GTR_EQL_INT" -> left >= right
    [] OTHER -> Value(cond, left, right) = 1

\* shr takes the word for a number without sign
Unsigned(v) == IF v < 0 THEN v + 2^WordBits ELSE v
Computed(op, left, right) ==
  IF op = "SHR_INT" THEN Unsigned(left) \div 2^right ELSE Value(op, left, right)

\* the address is none of the frame or the object: no step is modelled, so a
\* program that gets here is stuck, which TLC reports
Wild(x) == /\ x.type = "MEM_INT"
           /\ IF x.holder = "RBP" THEN x.operand \notin DOMAIN cpu.mem
              ELSE cpu.regs[x.holder] # Instance
Undefined == Wild(instr.src) \/ Wild(instr.dest)

\* Nil: the code returns -1 and the process ends, which a division by zero does
\* by itself
Traps == instr.op \in {"check", "idiv"} /\ Read(instr.src) = 0

At(ops) == status = "native" /\ instr.op \in ops /\ ~Undefined /\ ~Traps
Others  == UNCHANGED <<program, level, class, labels, current, methods, jit>>

Compute ==
  /\ At({"mov", "cmov"} \cup Binary)
  /\ LET v == CASE instr.op = "mov" -> Read(instr.src)
                [] instr.op = "cmov" -> IF Holds(instr.cond, cpu.left, cpu.right)
                                    THEN Read(instr.src) ELSE Read(instr.dest)
                [] OTHER -> Computed(instr.op, Read(instr.dest), Read(instr.src))
     IN  /\ cpu' = Written(instr.dest, v)
         /\ fields' = IF instr.dest.type = "MEM_INT" /\ instr.dest.holder # "RBP"
                      THEN [fields EXCEPT ![instr.dest.operand] = v] ELSE fields
  /\ UNCHANGED <<op_stack, frames, status>> /\ Others

DivideAX ==
  /\ At({"idiv"})
  /\ LET a == cpu.regs["RAX"]
         b == Read(instr.src)
     IN  cpu' = [cpu EXCEPT !.regs["RAX"] = Quotient(a, b), !.regs["RDX"] = Remainder(a, b),
                            !.pc = @ + 1]
  /\ UNCHANGED <<op_stack, frames, fields, status>> /\ Others

Compare ==
  /\ At({"cmp", "check"})
  /\ cpu' = [cpu EXCEPT !.left = Read(instr.dest), !.pc = @ + 1,
                        !.right = IF instr.op = "cmp" THEN Read(instr.src) ELSE 0]
  /\ UNCHANGED <<op_stack, frames, fields, status>> /\ Others

Branch ==
  /\ At({"jump"})
  /\ cpu' = [cpu EXCEPT !.pc = IF Holds(instr.cond, cpu.left, cpu.right)
                               THEN instr.src.operand ELSE @ + 1]
  /\ UNCHANGED <<op_stack, frames, fields, status>> /\ Others

PushStack ==
  /\ At({"push"})
  /\ op_stack' = Push(op_stack, Read(instr.src))
  /\ cpu' = [cpu EXCEPT !.pc = @ + 1]
  /\ UNCHANGED <<frames, fields, status>> /\ Others

PopStack ==
  /\ At({"pop"})
  /\ cpu' = Written(instr.dest, Top(op_stack))
  /\ op_stack' = Pop(op_stack, 1)
  /\ UNCHANGED <<frames, fields, status>> /\ Others

\* StackCallback: an interpreter of its own runs the called method; a call in C
\* leaves nothing in the registers it may use
Scratch == {"RAX", "RCX", "RDX", "R10", "R11"}
StackCallback ==
  /\ At({"call"})
  /\ frames' = <<NewFrame(instr.src.operand, Top(op_stack), Pop(op_stack, 1))>>
  /\ op_stack' = Pop(op_stack, 1)
  /\ cpu' = [Callback(TRUE) EXCEPT !.pc = @ + 1,
               !.regs = [r \in Registers |-> IF r \in Scratch THEN Junk ELSE @[r]]]
  /\ status' = "run"
  /\ UNCHANGED fields /\ Others

\* jit_called: the interpreter gives control back to the native code
CallbackReturns ==
  /\ status = "done"
  /\ cpu.calling
  /\ cpu' = Callback(FALSE)
  /\ frames' = <<>>
  /\ status' = "native"
  /\ UNCHANGED <<op_stack, fields>> /\ Others

NativeReturn ==
  /\ At({"ret"})
  /\ status' = "done"
  /\ UNCHANGED <<op_stack, frames, fields, cpu>> /\ Others

Trap ==
  /\ status = "native" /\ ~Undefined /\ Traps
  /\ status' = "fault"
  /\ UNCHANGED <<op_stack, frames, fields, cpu>> /\ Others

NativeStep == \/ Compute \/ DivideAX \/ Compare \/ Branch \/ PushStack \/ PopStack
              \/ StackCallback \/ CallbackReturns \/ NativeReturn \/ Trap

NativeEnded == status \in {"fault", "rejected"} \/ (status = "done" /\ ~cpu.calling)
Rest        == NativeEnded /\ UNCHANGED nativeVars

NativeNext == \/ Compile \/ StartTranslation \/ TranslateNext \/ StartNative \/ FallBack
              \/ NativeStep \/ Interpret \/ Rest

NativeSpec == NativeInit /\ [][NativeNext]_nativeVars
                /\ WF_nativeVars(NativeStep) /\ WF_nativeVars(Interpret)

-----------------------------------------------------------------------------
NativeTypeOK ==
  /\ status \in {"parse", "analyze", "rejected", "emit", "optimize", "inline", "loaded",
                 "translate", "native", "run", "done", "fault"}
  /\ jit.method \in {0, entry} /\ jit.compile_success \in BOOLEAN /\ jit.skip_jump \in BOOLEAN
  /\ \A x \in ToSet(jit.working_stack) :
       /\ x.type \in {"IMM_INT", "REG_INT", "MEM_INT"} /\ x.operand \in Int
       /\ x.holder \in Pooled \cup {"RBP", "none"}
  /\ cpu.regs \in [Registers -> Int] /\ cpu.calling \in BOOLEAN
  /\ \A n \in DOMAIN cpu.mem : cpu.mem[n] \in Int
  /\ status = "native" => cpu.pc \in DOMAIN cpu.code
  /\ Supplied

\* the working stack in front of each instruction of the method, and at its end
WorkingStacks ==
  FoldLeft(LAMBDA w, n : [at |-> Append(w.at, w.c.working_stack),
                          c |-> ProcessInstruction(w.c, methods)],
           [at |-> <<>>, c |-> Root(NewCompiler(entry))], [n \in DOMAIN Code(entry) |-> n]).at

\* The native compiler goes through the code once, in order.  So at a label the
\* values it has in registers must be those of every jump that leads there.
StacksMeet ==
  status = "translate" /\ Translated /\ jit.compile_success =>
    LET stacks == WorkingStacks
        code   == Code(entry)
    IN  \A n \in DOMAIN code : code[n].op = "JMP" =>
          stacks[n + 1] = stacks[LabelIndex(code, code[n].a) + 1]

\* known to go wrong: a local is stored while a value read from it is waiting
Stale ==
  LET stacks == WorkingStacks
      code   == Code(entry)
  IN  \E n \in DOMAIN code :
        /\ n > methods[entry].params
        /\ code[n].op \in {"STOR_INT_VAR", "COPY_INT_VAR"} /\ code[n].b = LOCL
        /\ OnFrame(Word(code, code[n].a)) \in ToSet(stacks[n])

\* A native method does what its tree says, as an interpreted one does.
NativeAsMeant == NativeEnded /\ Sound /\ ~Stale => AsMeant

\* CheckJitRoots: from the lowest local upwards the declarations, the last one
\* first, then eight words that may be anything
Lowest == RED_ZONE - Cardinality(LocalIds(Code(entry)))
Declared == Len(methods[entry].declarations)
TakenForObjects ==
  {Lowest + Declared - n : n \in {k \in 1..Declared :
                                    methods[entry].declarations[k] = "OBJ_PARM"}}
Searched == Lowest + Declared .. Lowest + Declared + 7

\* Known to go wrong: a declaration no instruction uses has no word, and the word
\* for and/or of a method that was inlined has no declaration.
LaidOut ==
  /\ Cardinality(LocalIds(Code(entry))) = Declared + Flag(methods[entry].has_and_or)
  /\ Inlined(entry) => \A m \in DOMAIN class \ {entry} : ~class[m].has_and_or

\* While the interpreter runs a method for native code, the collector finds every
\* reference in the native frame, and takes only Nil and objects for objects.
NativeRootsFound ==
  status = "run" /\ cpu.calling /\ LaidOut =>
    /\ \A n \in DOMAIN cpu.mem : n # INSTANCE_MEM /\ cpu.mem[n] = Instance =>
         n \in TakenForObjects \cup Searched
    /\ \A n \in TakenForObjects : cpu.mem[n] \in {0, Instance}

\* A native method whose program ends does so too.
NativeEnds == status = "native" ~> NativeEnded
===============================================================================
