----------------------------- MODULE StackMachine -----------------------------
(***************************************************************************)
(* The integer instructions of vm/interpreter.cpp, one action per group,   *)
(* over the code of the methods of one class.  There is one object of the  *)
(* class; its address is Instance.  What an instruction does to the        *)
(* operand stack, the locals and the fields is Effect, a function of the   *)
(* instruction and of what it finds, so that theorems can be stated on it. *)
(***************************************************************************)
EXTENDS Integers, Sequences

CONSTANTS
  Instance, \* the address of the object
  LocalSize \* words of a frame, self not counted

ASSUME MachineAssumption == Instance \in Int \ {0} /\ LocalSize \in Nat

VARIABLES
  methods,   \* the loaded methods of the class
  op_stack,  \* operand stack of the interpreter
  frames,    \* call_stack with the current frame at its end
  fields,    \* memory of the object
  status     \* "load", "run", "done", or "fault"

machine == <<methods, op_stack, frames, fields, status>>

\* memory contexts of instrs.h
LOCL == -3498
INST == -3499

\* an instruction: its type and two operands
Instr(op, a, b) == [op |-> op, a |-> a, b |-> b]
Lit(v)     == Instr("LOAD_INT_LIT", v, 0)
LoadV(x, c) == Instr("LOAD_INT_VAR", x, c)
StorV(x, c) == Instr("STOR_INT_VAR", x, c)
Op(op)     == Instr(op, 0, 0)

Moves == {"LOAD_INT_VAR", "STOR_INT_VAR", "COPY_INT_VAR"}
IsLocal(i) == i.op \in Moves /\ i.b = LOCL

-----------------------------------------------------------------------------
(* Arithmetic of C: division cuts towards zero, a shift to the right does not. *)
Magnitude(a) == IF a < 0 THEN -a ELSE a
Quotient(a, b) ==
  LET q == Magnitude(a) \div Magnitude(b)
  IN  IF (a < 0) = (b < 0) THEN q ELSE -q
Remainder(a, b) == a - b * Quotient(a, b)
Flag(p) == IF p THEN 1 ELSE 0

Arithmetic == {"ADD_INT", "SUB_INT", "MUL_INT", "DIV_INT", "MOD_INT"}
Comparison == {"EQL_INT", "NEQL_INT", "LES_INT", "GTR_INT"}
Shifts     == {"SHL_INT", "SHR_INT"}
Binary     == Arithmetic \cup Comparison \cup Shifts

Value(op, left, right) ==
  CASE op = "ADD_INT"  -> left + right
    [] op = "SUB_INT"  -> left - right
    [] op = "MUL_INT"  -> left * right
    [] op = "DIV_INT"  -> Quotient(left, right)
    [] op = "MOD_INT"  -> Remainder(left, right)
    [] op = "EQL_INT"  -> Flag(left = right)
    [] op = "NEQL_INT" -> Flag(left # right)
    [] op = "LES_INT"  -> Flag(left < right)
    [] op = "GTR_INT"  -> Flag(left > right)
    [] op = "SHL_INT"  -> left * 2^right
    [] op = "SHR_INT"  -> left \div 2^right

\* the operand stack: PushInt, TopInt and the value below, PopInt
Push(s, v) == Append(s, v)
Top(s)     == s[Len(s)]
Second(s)  == s[Len(s) - 1]
Pop(s, n)  == SubSeq(s, 1, Len(s) - n)

\* An instruction acts on [stack, mem, inst]: operand stack, memory of the
\* frame (mem[0] is self, locals follow) and memory of the object.
Needs(i) ==
  CASE i.op \in Binary -> 2
    [] i.op = "STOR_INT_VAR" -> IF i.b = LOCL THEN 1 ELSE 2
    [] i.op = "COPY_INT_VAR" -> IF i.b = LOCL THEN 1 ELSE 2
    [] i.op = "LOAD_INT_VAR" -> IF i.b = LOCL THEN 0 ELSE 1
    [] i.op = "POP_INT" -> 1
    [] OTHER -> 0

\* the process ends: Nil or a number in place of the instance, division by zero
Faults(i, s) ==
  \/ i.op \in Moves /\ i.b = INST /\ Top(s.stack) # Instance
  \/ i.op \in {"DIV_INT", "MOD_INT"} /\ Second(s.stack) = 0

Effect(i, s) ==
  LET st == s.stack
  IN CASE i.op = "LOAD_INT_LIT"  -> [s EXCEPT !.stack = Push(st, i.a)]
       [] i.op = "LOAD_INST_MEM" -> [s EXCEPT !.stack = Push(st, s.mem[0])]
       [] i.op = "POP_INT"       -> [s EXCEPT !.stack = Pop(st, 1)]
       [] i.op = "LOAD_INT_VAR" /\ i.b = LOCL ->
            [s EXCEPT !.stack = Push(st, s.mem[i.a + 1])]
       [] i.op = "LOAD_INT_VAR" /\ i.b = INST ->
            [s EXCEPT !.stack = Push(Pop(st, 1), s.inst[i.a])]
       [] i.op = "STOR_INT_VAR" /\ i.b = LOCL ->
            [s EXCEPT !.mem[i.a + 1] = Top(st), !.stack = Pop(st, 1)]
       [] i.op = "STOR_INT_VAR" /\ i.b = INST ->
            [s EXCEPT !.inst[i.a] = Second(st), !.stack = Pop(st, 2)]
       [] i.op = "COPY_INT_VAR" /\ i.b = LOCL ->
            [s EXCEPT !.mem[i.a + 1] = Top(st)]
       [] i.op = "COPY_INT_VAR" /\ i.b = INST ->
            [s EXCEPT !.inst[i.a] = Second(st), !.stack = Pop(st, 1)]
       [] i.op \in Binary ->
            [s EXCEPT !.stack = Push(Pop(st, 2), Value(i.op, Top(st), Second(st)))]

Straight == Moves \cup Binary \cup {"LOAD_INT_LIT", "LOAD_INST_MEM", "POP_INT"}

-----------------------------------------------------------------------------
(* StackMethod::GetLabelIndex: the first label counts, since insert keeps what
   is there; without the label the method starts again *)
LabelIndex(code, l) ==
  LET at == {n \in DOMAIN code : code[n].op = "LBL" /\ code[n].a = l}
  IN  IF at = {} THEN 0 ELSE CHOOSE n \in at : \A k \in at : n <= k

frame   == Top(frames)
Code(m) == methods[m].code
fetched == Code(frame.method)[frame.ip]
now     == [stack |-> op_stack, mem |-> frame.mem, inst |-> fields]

\* what an instruction needs on the operand stack, calls and jumps included
Wanted(i) == CASE i.op = "MTHD_CALL" -> 1
               [] i.op = "JMP" -> IF i.b < 0 THEN 0 ELSE 1
               [] OTHER -> Needs(i)
Fails(i) == Len(op_stack) < Wanted(i) \/ (i.op \in Straight /\ Faults(i, now))

Fetch(ops) == /\ status = "run"
              /\ fetched.op \in ops
              /\ ~Fails(fetched)

\* StackInterpreter::GetStackFrame: cleared memory; base is where the stack
\* will stand when the method has taken its parameters
NewFrame(m, inst, stack) ==
  [method |-> m, ip |-> 1, base |-> Len(stack) - methods[m].params,
   mem |-> [n \in 0..LocalSize |-> IF n = 0 THEN inst ELSE 0]]

Straightforward(ops) ==
  /\ Fetch(ops)
  /\ LET after == Effect(fetched, now)
     IN  /\ op_stack' = after.stack
         /\ fields' = after.inst
         /\ frames' = [frames EXCEPT ![Len(frames)].mem = after.mem,
                                     ![Len(frames)].ip = @ + 1]
  /\ UNCHANGED <<methods, status>>

Move      == Straightforward(Moves)
Load      == Straightforward({"LOAD_INT_LIT", "LOAD_INST_MEM"})
Calculate == Straightforward(Binary)
Discard   == Straightforward({"POP_INT"})

Label ==
  /\ Fetch({"LBL"})
  /\ frames' = [frames EXCEPT ![Len(frames)].ip = @ + 1]
  /\ UNCHANGED <<methods, op_stack, fields, status>>

\* a jump is taken when it is unconditional or the value popped is the operand
Jump ==
  /\ Fetch({"JMP"})
  /\ LET always == fetched.b < 0
         taken  == always \/ Top(op_stack) = fetched.b
     IN  /\ op_stack' = Pop(op_stack, Flag(~always))
         /\ frames' = [frames EXCEPT ![Len(frames)].ip =
              IF taken THEN LabelIndex(Code(frame.method), fetched.a) + 1 ELSE @ + 1]
  /\ UNCHANGED <<methods, fields, status>>

\* ProcessMethodCall and ProcessInterpretedMethodCall, of a method that is not virtual
MethodCall ==
  /\ Fetch({"MTHD_CALL"})
  /\ op_stack' = Pop(op_stack, 1)
  /\ frames' = Append([frames EXCEPT ![Len(frames)].ip = @ + 1],
                      NewFrame(fetched.b, Top(op_stack),
                               Pop(op_stack, 1)))
  /\ UNCHANGED <<methods, fields, status>>

ProcessReturn ==
  /\ Fetch({"RTRN"})
  /\ IF Len(frames) > 1
     THEN frames' = Pop(frames, 1) /\ UNCHANGED status
     ELSE status' = "done" /\ UNCHANGED frames
  /\ UNCHANGED <<methods, op_stack, fields>>

Fault ==
  /\ status = "run"
  /\ Fails(fetched)
  /\ status' = "fault"
  /\ UNCHANGED <<methods, op_stack, frames, fields>>

Execute == Move \/ Load \/ Calculate \/ Discard \/ Label \/ Jump \/ MethodCall
             \/ ProcessReturn \/ Fault
===============================================================================
