------------------------------- MODULE MCNative -------------------------------
(* Programs for NativeCode: those of MCCompiler, and ones that need many
   registers, divide and shift in all of them, or wait with a value. *)
EXTENDS NativeCode, MCCompiler

\* n values are in registers when the innermost one is computed
Deep(op, n, inner) == FoldLeft(LAMBDA e, k : Calc(op, e, f), inner, [k \in 1..n |-> k])
Compared(n, inner) == FoldLeft(LAMBDA e, k : Calc("EQL_INT", e, Less(x, f)), inner, [k \in 1..n |-> k])
DeepPrograms ==
  {Prog(Accessors(<<Return(Deep("SUB_INT", n, e))>>), 1, <<6>>) :
     n \in 1..8, e \in {x, f, Call(2, <<>>), Calc("MUL_INT", f, f), Calc("DIV_INT", x, f)}}
  \cup {Prog(<<Method(Int1, <<>>, "Bool", <<Return(Compared(n, Less(e, f)))>>), Getter>>, 1, <<6>>) :
           n \in 5..7, e \in {x, f}}

\* quotient, remainder and shift, the operands in memory and in the registers
Divided == {Calc(op, a, b) : op \in {"DIV_INT", "MOD_INT", "SHL_INT"},
                             a \in {Number(100), x, f, Calc("ADD_INT", x, f)},
                             b \in {Number(3), x, f, Calc("SUB_INT", x, Number(4))}}
DividedPrograms ==
  {Prog(Accessors(<<Return(e)>>), 1, <<6>>) : e \in Divided}
  \cup {Prog(Accessors(<<Return(Calc(op, e, f))>>), 1, <<6>>) :
          op \in {"SUB_INT", "MOD_INT"}, e \in Divided}
  \cup {Prog(Accessors(<<Return(Calc("SUB_INT", Calc("SUB_INT", e, f), f))>>), 1, <<6>>) :
          e \in Divided}

\* the divisor is zero at run time
TrapPrograms ==
  {Prog(Accessors(<<Return(Calc(op, f, e))>>), 1, <<4>>) :
     op \in {"DIV_INT", "MOD_INT"}, e \in {Calc("SUB_INT", x, Number(4)), Calc("MOD_INT", x, Number(2))}}

\* two conditions in one expression
Both == And(Less(x, f), Less(Number(0), x))
BothPrograms ==
  {Prog(<<Method(Int1, Int1, "Bool",
            <<Return(Calc("EQL_INT", Both, Or(Less(f, x), Less(x, Number(3)))))>>),
          Bump>>, 1, <<n>>) : n \in {-5, 5, 9}}

\* objects in the frame while another method runs
Holders == {
  Valued(Int1, Obj1, <<CallStatement(2, <<SelfRef>>), Assign(y, SelfRef),
    CallStatement(2, <<y>>), Return(f)>>),
  Valued(Int1, Obj1 \o Int1, <<Assign(y, SelfRef), CallStatement(2, <<y>>), Return(f)>>),
  Valued(Int1, Obj1 \o Int1, <<Assign(y, SelfRef), Assign(Variable(2), Number(5)),
    CallStatement(2, <<y>>), Return(Calc("ADD_INT", Variable(2), f))>>),
  Valued(Int1, Int1 \o Obj1, <<Assign(Variable(2), SelfRef),
    If(Or(Less(Number(3), x), Less(x, f)), <<CallStatement(2, <<Variable(2)>>)>>, <<>>,
       <<Assign(y, x)>>), Return(f)>>)}
HolderPrograms == {Prog(<<h, Take>>, 1, <<n>>) : h \in Holders, n \in {2, 9}}

\* the statements of MCCompiler under some of its conditions
NativeConditions == {Call(2, <<>>), And(Less(x, f), Call(2, <<>>)), Or(Call(2, <<>>), Less(x, f)),
                     Or(Call(2, <<>>), And(Less(x, f), Less(Number(5), f)))}
NativeStatements ==
  UNION {{Prog(<<Valued(Int1, Int1, b), Bump>>, 1, <<n>>) : b \in Bodies(c), n \in {-5, 9}}
           : c \in NativeConditions}

NativePrograms == NativeStatements \cup CallPrograms \cup DeepPrograms \cup DividedPrograms
                    \cup TrapPrograms \cup BothPrograms \cup HolderPrograms
                    \cup IncrementPrograms \cup SelectPrograms \cup ChoicePrograms \cup ObjectPrograms \cup PathPrograms
===============================================================================
