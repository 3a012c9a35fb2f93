------------------------------ MODULE MCCompiler ------------------------------
(* Programs for Compiler: all small expressions, methods with control flow, and
   classes the language does not allow. *)
EXTENDS Compiler

x == Variable(0)
y == Variable(1)
f == Field(0)
Int1 == <<"Int">>
Obj1 == <<"Obj">>

Prog(cls, entry, args) == [class |-> cls, entry |-> entry, args |-> args,
                         fields |-> [n \in {0} |-> 7], legal |-> TRUE]
Valued(params, locals, body) == Method(params, locals, "Int", body)

-----------------------------------------------------------------------------
(* Expressions: 4 is a power of two, 3 is not; a getter, a getter of a literal.
   A literal zero as a divisor stops the compiler and is left out. *)
Getter    == Valued(<<>>, <<>>, <<Return(f)>>)
FourOf    == Valued(<<>>, <<>>, <<Return(Number(4))>>)
Setter    == Method(Int1, <<>>, "Nil", <<Assign(f, x)>>)
Accessors(body) == <<Valued(Int1, Int1, body), Getter, FourOf, Setter>>

Zero(a, b, op) == a.kind = "number" /\ b.kind = "number" /\ Value(op, a.n, b.n) = 0
Pairs(ops, leaves) == {e \in {Calc(op, a, b) : op \in ops, a \in leaves, b \in leaves} :
                         ~Zero(e.l, e.r, e.op)}
Inner  == Pairs(Arithmetic, {Number(3), Number(4), x, f}) \cup {Call(2, <<>>), Call(3, <<>>)}
Middle == Pairs({"SUB_INT", "MUL_INT"}, {Number(4), x, f}) \cup {Call(3, <<>>)}
Outer  == UNION {{Calc(op, a, b), Calc(op, b, a)} :
                   op \in {"SUB_INT", "MUL_INT"}, a \in Middle, b \in {Number(4), x}}
ExpressionPrograms ==
  {Prog(Accessors(<<Return(e)>>), 1, <<n>>) : e \in Inner, n \in {-5, 6}}
    \cup {Prog(Accessors(<<Return(e)>>), 1, <<-5>>) : e \in Outer}
    \cup {Prog(Accessors(<<CallStatement(4, <<e>>), Return(Calc("MUL_INT", f, e))>>), 1, <<6>>)
             : e \in Middle}

-----------------------------------------------------------------------------
(* Statements: conditions with side effects, loops that are left early, chains
   of if; Bump adds to the field and says whether it is below 10. *)
Less(a, b) == Calc("LES_INT", a, b)
Bump == Method(<<>>, <<>>, "Bool",
          <<OpAssign(f, "ADD_INT", Number(1)), Return(Less(f, Number(10)))>>)
Tests == {Less(x, f), Call(2, <<>>), Less(Number(5), f)}
Twos  == {t \in Tests \X Tests : t[1] # t[2]}
Conditions == Tests \cup {And(t[1], t[2]) : t \in Twos} \cup {Or(t[1], t[2]) : t \in Twos}
               \cup {And(Or(Less(x, f), b), Call(2, <<>>)) : b \in Tests}
               \cup {Or(Call(2, <<>>), And(Less(x, f), b)) : b \in Tests}
AddTo(v, n) == OpAssign(v, "ADD_INT", Number(n))
Times4(v)   == Assign(v, Calc("MUL_INT", v, Number(4)))

Bodies(c) == {
  <<If(c, <<AddTo(x, 1)>>, <<>>, <<Times4(x)>>), Return(x)>>,
  <<If(c, <<>>, <<>>, <<>>), Return(Calc("ADD_INT", x, f))>>,
  <<If(c, <<Return(f)>>, <<If(Less(x, Number(0)), <<Assign(y, x), AddTo(y, 2)>>, <<>>,
                              <<Assign(x, x)>>)>>, <<>>), Return(Calc("SUB_INT", y, x))>>,
  <<Assign(y, Number(0)), While(And(Less(y, Number(3)), c),
      <<AddTo(y, 1), If(Less(f, y), <<Break>>, <<>>, <<>>)>>), Return(y)>>,
  <<For(Assign(y, Number(0)), Less(y, Number(2)), AddTo(y, 1),
      <<If(c, <<AddTo(f, 2)>>, <<>>, <<Break>>)>>), Return(Calc("SUB_INT", f, y))>>,
  <<Assign(y, x), DoWhile(<<OpAssign(y, "ADD_INT", f), CallStatement(2, <<>>)>>,
      And(c, Less(y, Number(20)))), Return(y)>>}
Stored(c) == Method(Int1, <<"Bool">>, "Bool", <<Assign(y, c), Return(Calc("EQL_INT", y, c))>>)
StatementPrograms ==
  UNION {{Prog(<<m, Bump>>, 1, <<n>>) :
            m \in {Stored(c)} \cup {Valued(Int1, Int1, b) : b \in Bodies(c)}, n \in {-5, 9}}
           : c \in Conditions}

-----------------------------------------------------------------------------
(* Calls between methods of a class, in both orders of the methods: with
   parameters, locals, an and/or, a loop, a leaving block, an object. *)
Twice    == Valued(Int1, Int1, <<Assign(y, Calc("ADD_INT", x, x)), Return(y)>>)
Clamp    == Valued(Int1, Int1, <<Assign(y, Number(0)),
              If(And(Less(x, Number(3)), Less(Number(-3), x)), <<Assign(y, x)>>, <<>>,
                 <<Assign(y, Number(3))>>), Return(y)>>)
Sum      == Valued(Int1 \o Int1, Int1, <<Assign(Variable(2), Number(0)),
              While(Less(Number(0), x), <<OpAssign(Variable(2), "ADD_INT", y),
                                          OpAssign(x, "SUB_INT", Number(1))>>),
              Return(Variable(2))>>)
Leaves2  == Valued(Int1, <<>>, <<Leaving(<<OpAssign(x, "SUB_INT", Number(2))>>),
                                 Return(Calc("MUL_INT", Number(4), x))>>)
Give     == Valued(Int1, Obj1, <<Assign(y, SelfRef),
              If(Or(Less(Number(3), x), Less(x, f)), <<CallStatement(3, <<y>>)>>, <<>>, <<>>),
              Return(Calc("ADD_INT", x, Number(1)))>>)
Take     == Method(Obj1, <<>>, "Nil", <<AddTo(f, 1)>>)
Callees  == {Twice, Clamp, Leaves2, Give}
Callers(m, k) == {
  <<Return(Calc("SUB_INT", Call(m, <<x>>), Call(m, <<Number(1)>>)))>>,
  <<Assign(y, Call(m, <<Call(k, <<x>>)>>)), Return(Calc("ADD_INT", y, x))>>,
  <<Assign(y, Number(0)), While(Less(y, Number(2)),
       <<AddTo(y, 1), Assign(x, Call(m, <<x>>))>>), Return(x)>>}
CallPrograms ==
  UNION {{Prog(<<Valued(Int1, Int1, b), m, Take, k>>, 1, <<2>>) : b \in Callers(2, 4)}
           \cup {Prog(<<m, k, Take, Valued(Int1, Int1, b)>>, 4, <<2>>) : b \in Callers(1, 2)}
           : m \in Callees, k \in Callees}
    \cup {Prog(<<Sum, Valued(Int1, Int1, <<Assign(y, Call(1, <<x, Number(4)>>)),
                                         Return(Calc("SUB_INT", y, x))>>)>>, 2, <<n>>) : n \in {-1, 3}}

-----------------------------------------------------------------------------
(* select with 1 to 7 labels, every value hit and missed, in a loop, with a
   value that is computed; labels 2, 4, .. *)
Cases(n, v) == [k \in {2 * i : i \in 1..n} |-> <<Assign(v, Number(10 * k))>>]
SelectPrograms ==
  {Prog(<<Valued(Int1, Int1, <<Assign(y, x), Select(x, Cases(n, y), o), Return(y)>>)>>, 1, <<k>>) :
     o \in {<<>>, <<AddTo(y, 100)>>}, <<n, k>> \in {p \in (1..7) \X (1..15) :
                                                   p[2] <= 2 * p[1] + 1}}
  \cup {Prog(<<Valued(Int1, Int1, <<For(Assign(y, Number(0)), Less(y, Number(9)), AddTo(y, 1),
       <<Select(Calc("ADD_INT", x, y), [Cases(n, f) EXCEPT ![4] = <<Break>>], <<AddTo(x, 2)>>)>>),
       Return(Calc("MUL_INT", x, f))>>)>>, 1, <<k>>) : n \in 2..5, k \in -1..2}

(* increments before the value is used, and after it in an assignment, the
   arguments of a call statement and the condition of a do loop *)
IncrementBodies == {
  <<Assign(y, Post(1, x, "ADD_INT")), Return(Calc("SUB_INT", y, x))>>,
  <<Assign(y, Calc("MUL_INT", Pre(1, x, "SUB_INT"), Number(4))), Return(Calc("SUB_INT", y, x))>>,
  <<OpAssign(y, "SUB_INT", Calc("ADD_INT", x, Post(1, f, "SUB_INT"))), AddTo(f, 2),
    Return(Calc("MUL_INT", f, y))>>,
  <<CallStatement(2, <<Post(1, x, "ADD_INT")>>), Return(Calc("SUB_INT", x, f))>>,
  <<Assign(y, Number(0)), DoWhile(<<OpAssign(y, "ADD_INT", x)>>,
      Less(Post(1, x, "ADD_INT"), f)), Return(Calc("SUB_INT", y, x))>>,
  <<Assign(y, Number(0)), While(And(Less(y, Number(12)), Less(Pre(1, x, "ADD_INT"), f)),
      <<Assign(y, Post(2, x, "ADD_INT"))>>), Return(Calc("SUB_INT", y, x))>>,
  <<If(Less(Pre(1, f, "ADD_INT"), x), <<Assign(y, Pre(2, f, "ADD_INT"))>>, <<>>,
       <<Assign(y, Post(3, f, "ADD_INT"))>>), Return(Calc("SUB_INT", y, Pre(4, f, "SUB_INT")))>>,
  <<Return(Calc("SUB_INT", Calc("MUL_INT", Pre(1, x, "ADD_INT"), x), Pre(2, f, "SUB_INT")))>>}
IncrementPrograms ==
  {Prog(<<Valued(Int1, Int1, b), Setter>>, 1, <<n>>) : b \in IncrementBodies, n \in {-5, 9}}

-----------------------------------------------------------------------------
(* c ? a : b, negations and literals of Bool, in each other and in a sum *)
Alternatives == {Less(x, f), Call(2, <<>>), And(Less(Number(5), f), Call(2, <<>>)),
            Not(Less(x, f)), Not(Call(2, <<>>)), And(Not(Less(f, x)), Call(2, <<>>)),
            Or(Call(2, <<>>), Not(Less(x, f))), And(Call(2, <<>>), Truth(0)),
            Calc("EQL_INT", Call(2, <<>>), Truth(1)), Not(Or(Less(f, x), Call(2, <<>>))),
            Cond(Less(x, f), Call(2, <<>>), Truth(1))}
ChoiceBodies(c) == {
  <<Return(Cond(c, x, Calc("SUB_INT", f, Number(1))))>>,
  <<Assign(y, Calc("SUB_INT", f, Cond(c, x, f))), Return(Calc("SUB_INT", y, Cond(c, y, x)))>>,
  <<If(Not(c), <<AddTo(f, 3)>>, <<>>, <<Assign(y, Cond(c, Cond(c, x, f), Number(2)))>>),
    Return(Calc("SUB_INT", f, y))>>}
ChoicePrograms ==
  UNION {{Prog(<<Valued(Int1, Int1, b), Bump>>, 1, <<n>>) : b \in ChoiceBodies(c), n \in {-5, 9}}
           : c \in Alternatives}

(* objects and Nil in locals, arguments and results, return without a value *)
Same  == Method(Obj1, <<>>, "Obj", <<Return(x)>>)
None  == Method(<<>>, <<>>, "Obj", <<Return(NilLiteral)>>)
Mark  == Method(Obj1 \o Int1, <<>>, "Nil",
           <<If(Calc("EQL_INT", x, NilLiteral), <<Return(Nothing)>>, <<>>, <<>>),
             OpAssign(f, "ADD_INT", y), Empty>>)
Objects == {SelfRef, NilLiteral, Call(2, <<SelfRef>>), Call(2, <<NilLiteral>>), Call(3, <<>>)}
ObjectBodies(e) == {
  <<Assign(y, e), CallStatement(4, <<y, x>>), Return(f)>>,
  <<CallStatement(4, <<e, Number(2)>>), Assign(y, SelfRef),
    If(Calc("NEQL_INT", y, NilLiteral), <<CallStatement(4, <<y, x>>)>>, <<>>, <<>>), Return(f)>>,
  <<While(Less(f, Number(9)), <<AddTo(f, 1), Assign(y, Cond(Less(f, Number(9)), SelfRef, y))>>),
    Assign(y, e), Return(Cond(Calc("EQL_INT", y, SelfRef), x, f))>>}
ObjectPrograms ==
  UNION {{Prog(<<Valued(Int1, Obj1, b), Same, None, Mark>>, 1, <<2>>) : b \in ObjectBodies(e)}
           : e \in Objects}

-----------------------------------------------------------------------------
(* ways to the end of a method: choices that return on each, loops in loops
   that are left, labels with the same statements *)
Grouped(v) == [k \in {1, 2, 5} |-> IF k = 5 THEN <<Return(v)>> ELSE <<AddTo(f, 1), Return(f)>>]
PathBodies == {
  <<If(Less(x, f), <<Return(f)>>, <<>>, <<AddTo(f, 1), Return(x)>>)>>,
  <<If(Less(x, f), <<Return(f)>>, <<If(Less(f, x), <<Return(x)>>, <<>>, <<Return(y)>>)>>, <<>>)>>,
  <<Assign(y, Number(4)), Select(x, Grouped(y), <<Return(Number(8))>>)>>,
  <<Assign(y, Number(4)), Select(x, Grouped(y), <<>>), Return(Calc("SUB_INT", y, f))>>,
  <<Assign(y, Number(0)), While(Less(y, Number(3)),
      <<AddTo(y, 1), If(Less(f, y), <<Break>>, <<>>, <<>>),
        While(Truth(1), <<AddTo(f, 1), If(Less(Number(9), f), <<Break>>, <<>>, <<>>)>>)>>),
    Return(Calc("SUB_INT", f, y))>>,
  <<Leaving(<<AddTo(f, 5)>>), For(Assign(y, x), Less(y, Number(3)), AddTo(y, 1),
      <<DoWhile(<<AddTo(f, 1)>>, Less(f, Number(9))), Empty,
        Select(y, Grouped(x), <<AddTo(f, 1)>>)>>), Return(f)>>}
PathPrograms == {Prog(<<Valued(Int1, Int1, b)>>, 1, <<n>>) : b \in PathBodies, n \in {-1, 2, 5, 9}}

(* what the language does not allow: y is of type Int *)
Refused == {
  <<Return(Less(x, y))>>, <<Return(SelfRef)>>, <<Return(NilLiteral)>>, <<Return(Nothing)>>,
  <<Return(Calc("ADD_INT", x, SelfRef))>>, <<Return(Calc("MUL_INT", x, Truth(1)))>>,
  <<Return(Cond(Less(x, y), x, SelfRef))>>, <<Return(Call(2, <<x>>))>>,
  <<Return(Call(2, <<SelfRef, x>>))>>, <<Return(Call(2, <<x, NilLiteral>>))>>,
  <<Assign(y, SelfRef), Return(y)>>, <<Assign(y, Call(3, <<>>)), Return(y)>>,
  <<OpAssign(y, "SUB_INT", Truth(1)), Return(y)>>,
  <<If(x, <<>>, <<>>, <<>>), Return(x)>>, <<While(Call(2, <<x, x>>), <<>>), Return(x)>>,
  <<DoWhile(<<AddTo(x, 1)>>, And(x, Less(x, y))), Return(x)>>,
  <<If(Or(Less(x, y), Calc("EQL_INT", x, SelfRef)), <<>>, <<>>, <<>>), Return(x)>>,
  <<If(Less(x, Truth(1)), <<>>, <<>>, <<>>), Return(x)>>,
  <<For(Assign(y, Truth(0)), Less(y, x), AddTo(y, 1), <<>>), Return(x)>>,
  <<Select(Less(x, y), Grouped(x), <<>>), Return(x)>>,
  <<Break, Return(x)>>, <<If(Less(x, y), <<Break>>, <<>>, <<>>), Return(x)>>,
  <<While(Less(x, y), <<AddTo(x, 1)>>), Break, Return(x)>>,
  <<Leaving(<<>>), Leaving(<<>>), Return(x)>>, <<If(Less(x, y), <<Leaving(<<>>)>>, <<>>, <<>>), Return(x)>>,
  <<>>, <<AddTo(x, 1)>>, <<If(Less(x, y), <<Return(x)>>, <<>>, <<>>)>>,
  <<If(Less(x, y), <<Return(x)>>, <<If(Less(y, x), <<Return(y)>>, <<>>, <<>>)>>, <<>>)>>,
  <<If(Less(x, y), <<Return(x)>>, <<>>, <<AddTo(y, 1)>>)>>,
  <<While(Truth(1), <<Return(x)>>)>>, <<Select(x, Cases(2, y), <<Return(x)>>)>>}
RefusedPrograms ==
  {[Prog(<<Valued(Int1, Int1, b), Valued(Int1 \o Int1, <<>>, <<Return(y)>>),
           Method(<<>>, <<>>, "Nil", <<>>)>>, 1, <<2>>) EXCEPT !.legal = FALSE] : b \in Refused}

\* a quotient with a power of two on either side
DivisionPrograms ==
  {Prog(<<Valued(Int1, <<>>, <<Return(Calc("DIV_INT", e, d))>>)>>, 1, <<n>>) :
     <<e, d>> \in {<<x, Number(4)>>, <<Number(4), x>>}, n \in {6, 8, -5}}

AllPrograms == ExpressionPrograms \cup StatementPrograms \cup CallPrograms
                 \cup SelectPrograms \cup IncrementPrograms \cup ChoicePrograms
                 \cup ObjectPrograms \cup PathPrograms \cup RefusedPrograms
==============================================================================
