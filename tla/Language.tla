------------------------------- MODULE Language -------------------------------
(***************************************************************************)
(* The part of the language the compiler is checked on: the trees of its   *)
(* programs, and what they mean.                                           *)
(* Meaning is the promise, not a translation of code: it evaluates the     *)
(* tree, and does not know of tokens, stacks, labels or slots.  What it    *)
(* has from the language as implemented: the right operand is evaluated    *)
(* before the left, and "and" and "or" stop early (in their trees the      *)
(* operand called r is the first one in the text).                         *)
(* A variable is incremented when its node is evaluated, and the value of  *)
(* a select is computed once.                                              *)
(***************************************************************************)
EXTENDS StackMachine

\* types of values; what a method without a value returns is "Nil"
ValueTypes == {"Int", "Bool", "Obj"}

\* expressions
Number(n)       == [kind |-> "number", n |-> n]
Truth(n)        == [kind |-> "boolean", n |-> n]    \* true and false
NilLiteral      == [kind |-> "nil", n |-> 0]
Variable(n)     == [kind |-> "variable", n |-> n]   \* a parameter or local
Field(n)        == [kind |-> "field", n |-> n]      \* @name
SelfRef         == [kind |-> "self", n |-> 0]       \* @self
Calc(op, l, r)  == [kind |-> "calculated", op |-> op, l |-> l, r |-> r]
And(l, r)       == [kind |-> "and", l |-> l, r |-> r]
Or(l, r)        == [kind |-> "or", l |-> l, r |-> r]
Not(e)          == [kind |-> "not", e |-> e]
Cond(c, a, b)   == [kind |-> "cond", c |-> c, a |-> a, b |-> b]   \* c ? a : b
Call(m, args)   == [kind |-> "call", m |-> m, args |-> args]
\* ++v, --v and v++, v--, with op for the sign; id tells one node from another
Pre(id, v, op)  == [kind |-> "pre", id |-> id, to |-> v, op |-> op]
Post(id, v, op) == [kind |-> "post", id |-> id, to |-> v, op |-> op]

\* statements; an operation assignment has the operation in op
Assign(v, e)       == [kind |-> "assign", op |-> "none", to |-> v, e |-> e]
OpAssign(v, op, e) == [kind |-> "assign", op |-> op, to |-> v, e |-> e]
If(c, s, next, else) ==
  [kind |-> "if", c |-> c, body |-> s, next |-> next, else |-> else]
While(c, s)     == [kind |-> "while", c |-> c, body |-> s]
DoWhile(s, c)   == [kind |-> "do", c |-> c, body |-> s]
For(pre, c, update, s) ==
  [kind |-> "for", pre |-> pre, c |-> c, update |-> update, body |-> s]
\* cases is a function of the labels; no other block is <<>>
Select(e, cases, other) == [kind |-> "select", e |-> e, cases |-> cases, other |-> other]
Return(e)       == [kind |-> "return", e |-> e]
Nothing         == [kind |-> "nothing"]             \* what return; returns
CallStatement(m, args) == [kind |-> "stmt", call |-> Call(m, args)]
Break           == [kind |-> "break"]
Leaving(ss)     == [kind |-> "leaving", body |-> ss]  \* done when the method returns
Empty           == [kind |-> "empty"]

\* a method: types of its parameters, its locals and its value, its statements
Method(params, locals, type, body) ==
  [params |-> params, locals |-> locals, type |-> type, body |-> body]
HasValue(mth) == mth.type # "Nil"

-----------------------------------------------------------------------------
\* an environment: variables, fields, and where control goes
\* ("on", "break", "return", "fault") with the value returned
Env(vars, fld) == [vars |-> vars, fld |-> fld, flow |-> "on", v |-> 0]
On(r) == r.flow = "on"
Bind(env, to, v) == IF to.kind = "variable"
                    THEN [env EXCEPT !.vars[to.n] = v]
                    ELSE [env EXCEPT !.fld[to.n] = v]

RECURSIVE Eval(_, _, _), EvalAll(_, _, _), Run(_, _, _), Apply(_, _, _, _)

\* the environment after an expression, its value in v
Eval(class, e, env) ==
  CASE e.kind \in {"number", "boolean", "nil"} -> [env EXCEPT !.v = e.n]
    [] e.kind = "variable" -> [env EXCEPT !.v = env.vars[e.n]]
    [] e.kind = "field"    -> [env EXCEPT !.v = env.fld[e.n]]
    [] e.kind = "self"     -> [env EXCEPT !.v = Instance]
    [] e.kind \in {"pre", "post"} ->
         LET old == Eval(class, e.to, env)
             new == Value(e.op, old.v, 1)
         IN  [Bind(env, e.to, new) EXCEPT !.v = IF e.kind = "pre" THEN new ELSE old.v]
    [] e.kind = "calculated" ->
         LET r == Eval(class, e.r, env)
             l == Eval(class, e.l, r)
         IN  CASE ~On(r) -> r
               [] On(r) /\ ~On(l) -> l
               [] On(r) /\ On(l) /\ e.op \in {"DIV_INT", "MOD_INT"} /\ r.v = 0 ->
                    [l EXCEPT !.flow = "fault"]
               [] OTHER -> [l EXCEPT !.v = Value(e.op, l.v, r.v)]
    [] e.kind \in {"and", "or"} ->
         LET first == Eval(class, e.r, env)
         IN  IF On(first) /\ first.v = Flag(e.kind = "and")
             THEN Eval(class, e.l, first) ELSE first
    [] e.kind = "not" ->
         LET r == Eval(class, e.e, env)
         IN  IF On(r) THEN [r EXCEPT !.v = 1 - r.v] ELSE r
    [] e.kind = "cond" ->
         LET c == Eval(class, e.c, env)
         IN  IF On(c) THEN Eval(class, IF c.v # 0 THEN e.a ELSE e.b, c) ELSE c
    [] e.kind = "call" ->
         LET args == EvalAll(class, e.args, [env EXCEPT !.v = <<>>])
         IN  IF On(args) THEN Apply(class, e.m, args.v, args) ELSE args

EvalAll(class, es, env) ==
  IF es = <<>> \/ ~On(env) THEN env
  ELSE LET first == Eval(class, Head(es), env)
       IN  EvalAll(class, Tail(es), [first EXCEPT !.v = Append(env.v, first.v)])

\* the statements of the leaving block
Left(mth) == LET block == SelectSeq(mth.body, LAMBDA s : s.kind = "leaving")
             IN  IF block = <<>> THEN <<>> ELSE block[1].body

Apply(class, m, args, env) ==
  LET mth  == class[m]
      vars == [n \in 0..(Len(mth.params) + Len(mth.locals)) |->
                 IF n < Len(args) THEN args[n + 1] ELSE 0]
      body == Run(class, mth.body, Env(vars, env.fld))
      left == Run(class, Left(mth), [body EXCEPT !.flow = "on"])
  IN  IF body.flow = "fault" THEN [env EXCEPT !.flow = "fault"]
      ELSE [env EXCEPT !.fld = left.fld, !.v = body.v,
                       !.flow = IF left.flow = "fault" THEN "fault" ELSE "on"]

Run(class, ss, env) ==
  IF ss = <<>> \/ ~On(env) THEN env
  ELSE LET s == Head(ss)
           c == Eval(class, s.c, env)
           Then(after) == Run(class, Tail(ss), after)
           Leave(after) == IF after.flow = "break" THEN [after EXCEPT !.flow = "on"] ELSE after
       IN CASE s.kind = "assign" ->
                 LET r == Eval(class, s.e, env)
                     old == Eval(class, s.to, r)
                 IN  IF ~On(r) THEN r
                     ELSE IF s.op = "DIV_INT" /\ r.v = 0 THEN [r EXCEPT !.flow = "fault"]
                     ELSE IF s.op = "none" THEN Then(Bind(r, s.to, r.v))
                     ELSE Then(Bind(r, s.to, Value(s.op, old.v, r.v)))
            [] s.kind = "if" ->
                 IF ~On(c) THEN c
                 ELSE IF c.v = 1 THEN Then(Run(class, s.body, c))
                 ELSE Then(Run(class, s.next \o s.else, c))
            [] s.kind = "while" ->
                 IF On(c) /\ c.v = 1
                 THEN LET once == Run(class, s.body, c)
                      IN  IF On(once) THEN Run(class, ss, once) ELSE Then(Leave(once))
                 ELSE Then(c)
            [] s.kind = "do" ->
                 LET once == Run(class, s.body, env)
                     test == Eval(class, s.c, once)
                 IN  IF ~On(once) THEN Then(Leave(once))
                     ELSE IF On(test) /\ test.v = 1 THEN Run(class, ss, test)
                     ELSE Then(test)
            [] s.kind = "for" ->
                 Then(Run(class, <<s.pre, While(s.c, Append(s.body, s.update))>>, env))
            [] s.kind = "select" ->
                 LET r == Eval(class, s.e, env)
                 IN  IF ~On(r) THEN r
                     ELSE Then(Run(class, IF r.v \in DOMAIN s.cases THEN s.cases[r.v]
                                          ELSE s.other, r))
            [] s.kind \in {"leaving", "empty"} -> Then(env)
            [] s.kind = "return" ->
                 LET r == IF s.e = Nothing THEN env ELSE Eval(class, s.e, env)
                 IN  IF On(r) THEN [r EXCEPT !.flow = "return"] ELSE r
            [] s.kind = "stmt"  -> Then(Eval(class, s.call, env))
            [] s.kind = "break" -> [env EXCEPT !.flow = "break"]

\* what calling method m of the class gives: [flow, v, fld]
Outcome(env) == [flow |-> env.flow, v |-> env.v, fld |-> env.fld]
Meaning(class, m, args, fld) ==
  Outcome(Apply(class, m, args, Env([n \in {} |-> 0], fld)))
===============================================================================
