------------------------------- MODULE Analyzer --------------------------------
(***************************************************************************)
(* compiler/context.cpp, ContextAnalyzer: the types of the expressions of  *)
(* a method, where a break, a return and a leaving block may stand, and    *)
(* whether every path returns.  An error makes the program one that is not *)
(* compiled.  What the emitter is told of a method is found on the way:    *)
(* whether it needs the word for "and" and "or", and its leaving block.    *)
(***************************************************************************)
EXTENDS Language, SequencesExt

\* GetEntry, GetType: fields are of type Int here
EntryType(mth, v) ==
  CASE v.kind = "variable" -> (mth.params \o mth.locals)[v.n + 1]
    [] v.kind = "field"    -> "Int"
    [] v.kind = "self"     -> "Obj"

\* AnalyzeRightCast: what may be assigned to, passed for or returned as a value
\* of type left; Nil only where the word stands, not a call that returns nothing
AnalyzeRightCast(left, e, right) ==
  /\ left \in ValueTypes
  /\ right = left \/ (left = "Obj" /\ e.kind = "nil")

\* AnalyzeCalculation, AnalyzeCalculationCast
CalculationType(op, left, right) ==
  LET both(type) == left = type /\ right = type
  IN  CASE op \in {"AND", "OR"} -> IF both("Bool") THEN "Bool" ELSE "Wrong"
        [] op \in {"EQL_INT", "NEQL_INT"} ->
             IF (\E type \in ValueTypes : both(type)) \/ {left, right} = {"Obj", "Nil"}
             THEN "Bool" ELSE "Wrong"
        [] op \in {"LES_INT", "GTR_INT"} -> IF both("Int") THEN "Bool" ELSE "Wrong"
        [] OTHER -> IF both("Int") THEN "Int" ELSE "Wrong"

RECURSIVE TypeOf(_, _, _), HasAndOr(_)

\* AnalyzeMethodCall, ResolveMethodCall, MatchCallingParameter
CallType(class, mth, e) ==
  LET params == class[e.m].params
  IN  IF /\ Len(e.args) = Len(params)
         /\ \A k \in DOMAIN params :
              AnalyzeRightCast(params[k], e.args[k], TypeOf(class, mth, e.args[k]))
      THEN class[e.m].type ELSE "Wrong"

\* AnalyzeConditional: any condition will do
ConditionalType(c, a, b) == IF c # "Wrong" /\ a = b /\ a \in ValueTypes THEN a ELSE "Wrong"

\* AnalyzeVariable: an increment is an assignment of an Int; there is only one
VariableType(mth, e) ==
  CASE e.kind \notin {"pre", "post"} -> EntryType(mth, e)
    [] e.kind \in {"pre", "post"} /\ e.to.kind = "post" -> "Wrong"
    [] OTHER -> IF EntryType(mth, e.to) = "Int" THEN "Int" ELSE "Wrong"

\* AnalyzeExpression: the type of an expression, "Wrong" if there is an error
TypeOf(class, mth, e) ==
  CASE e.kind = "number"  -> "Int"
    [] e.kind = "boolean" -> "Bool"
    [] e.kind = "nil"     -> "Nil"
    [] e.kind \in {"variable", "field", "self", "pre", "post"} -> VariableType(mth, e)
    [] e.kind = "calculated" ->
         CalculationType(e.op, TypeOf(class, mth, e.l), TypeOf(class, mth, e.r))
    [] e.kind \in {"and", "or"} ->
         CalculationType("AND", TypeOf(class, mth, e.l), TypeOf(class, mth, e.r))
    [] e.kind = "cond" ->
         ConditionalType(TypeOf(class, mth, e.c), TypeOf(class, mth, e.a), TypeOf(class, mth, e.b))
    [] e.kind = "call" -> CallType(class, mth, e)

\* SetAndOr
HasAndOr(e) ==
  \/ e.kind \in {"and", "or", "cond"}
  \/ e.kind = "calculated" /\ (HasAndOr(e.l) \/ HasAndOr(e.r))
  \/ e.kind = "call" /\ \E k \in DOMAIN e.args : HasAndOr(e.args[k])

-----------------------------------------------------------------------------
\* the analysis of a method so far: no error, and the flags and the leaving block
NewAnalysis == [ok |-> TRUE, and_or |-> FALSE, in_loop |-> FALSE, leaving |-> <<>>]

Require(a, holds) == [a EXCEPT !.ok = @ /\ holds]
Seen(a, e)        == [a EXCEPT !.and_or = @ \/ HasAndOr(e)]
InLoop(a, on)     == [a EXCEPT !.in_loop = on]

AnalyzeOfType(class, mth, e, type, a) == Seen(Require(a, TypeOf(class, mth, e) = type), e)

RECURSIVE AnalyzeStatement(_, _, _, _, _)

\* level is the depth of the scope the statements are in
AnalyzeStatements(class, mth, ss, level, a) ==
  FoldLeft(LAMBDA b, st : AnalyzeStatement(class, mth, st, level, b), a, ss)

\* OperationAssignment is checked like an assignment, whatever the operation
AnalyzeAssignment(class, mth, st, a) ==
  Seen(Require(a, AnalyzeRightCast(EntryType(mth, st.to), st.e, TypeOf(class, mth, st.e))), st.e)

RECURSIVE AnalyzeIf(_, _, _, _, _)
AnalyzeIf(class, mth, st, level, a) ==
  LET body == AnalyzeStatements(class, mth, st.body, level + 1,
                AnalyzeOfType(class, mth, st.c, "Bool", a))
      next == IF st.next = <<>> THEN body ELSE AnalyzeIf(class, mth, st.next[1], level, body)
  IN  AnalyzeStatements(class, mth, st.else, level + 1, next)

\* the labels are numbers, no two of them the same; then the lists in the order
\* of the text
AnalyzeSelect(class, mth, st, level, a) ==
  LET labels == FlattenSeq([k \in DOMAIN st.lists |-> st.lists[k].labels])
      valid  == /\ st.lists # <<>>
                /\ \A k \in DOMAIN labels : labels[k].kind = "number"
                /\ IsInjective(labels)
  IN  FoldLeft(LAMBDA b, ss : AnalyzeStatements(class, mth, ss, level + 1, b),
               Require(AnalyzeOfType(class, mth, st.e, "Int", a), valid), st.bodies)

\* in_loop is off behind a loop, even in the loop around it
LoopLeft(a) == InLoop(a, FALSE)

AnalyzeWhile(class, mth, st, level, a) ==
  LET test == AnalyzeOfType(class, mth, st.c, "Bool", a)
  IN  LoopLeft(AnalyzeStatements(class, mth, st.body, level + 1, InLoop(test, TRUE)))

AnalyzeDoWhile(class, mth, st, level, a) ==
  LET body == AnalyzeStatements(class, mth, st.body, level + 1, InLoop(a, TRUE))
  IN  AnalyzeOfType(class, mth, st.c, "Bool", LoopLeft(body))

AnalyzeFor(class, mth, st, level, a) ==
  LET pre    == AnalyzeStatement(class, mth, st.pre, level + 1, a)
      test   == AnalyzeOfType(class, mth, st.c, "Bool", pre)
      update == AnalyzeStatement(class, mth, st.update, level + 1, test)
  IN  LoopLeft(AnalyzeStatements(class, mth, st.body, level + 2, InLoop(update, TRUE)))

AnalyzeReturn(class, mth, st, a) ==
  IF st.e = Nothing THEN Require(a, mth.type = "Nil")
  ELSE Seen(Require(a, AnalyzeRightCast(mth.type, st.e, TypeOf(class, mth, st.e))), st.e)

\* one for a method, not in a block
AnalyzeLeaving(class, mth, st, level, a) ==
  IF level # 1 THEN Require(a, FALSE)
  ELSE LET body == AnalyzeStatements(class, mth, st.body, level + 1, a)
       IN  IF body.leaving = <<>> THEN [body EXCEPT !.leaving = <<st.body>>]
           ELSE Require(body, FALSE)

AnalyzeStatement(class, mth, st, level, a) ==
  CASE st.kind = "empty"   -> a
    [] st.kind = "declare" -> AnalyzeStatements(class, mth, st.set, level, a)
    [] st.kind = "stmt"    -> Seen(Require(a, TypeOf(class, mth, st.call) # "Wrong"), st.call)
    [] st.kind = "assign"  -> AnalyzeAssignment(class, mth, st, a)
    [] st.kind = "simple"  -> Require(a, FALSE)
    [] st.kind = "return"  -> AnalyzeReturn(class, mth, st, a)
    [] st.kind = "leaving" -> AnalyzeLeaving(class, mth, st, level, a)
    [] st.kind = "if"      -> AnalyzeIf(class, mth, st, level, a)
    [] st.kind = "do"      -> AnalyzeDoWhile(class, mth, st, level, a)
    [] st.kind = "while"   -> AnalyzeWhile(class, mth, st, level, a)
    [] st.kind = "for"     -> AnalyzeFor(class, mth, st, level, a)
    [] st.kind = "break"   -> Require(a, a.in_loop)
    [] st.kind = "select"  -> AnalyzeSelect(class, mth, st, level, a)

-----------------------------------------------------------------------------
(* AnalyzeReturnPaths *)
RECURSIVE Returns(_), IfReturns(_, _)

\* a chain with two or more "else if" does not, whatever is in it
IfReturns(st, nested) ==
  IF st.next = <<>> THEN Returns(st.body) /\ Returns(st.else)
  ELSE /\ ~nested
       /\ Returns(st.body)
       /\ IfReturns(st.next[1], TRUE)
       /\ st.next[1].else # <<>>

\* "other" is not looked at
Returns(ss) ==
  /\ ss # <<>>
  /\ LET last == Last(ss)
     IN  CASE last.kind = "select" -> \A k \in DOMAIN last.lists : Returns(last.lists[k].body)
           [] last.kind = "if"     -> IfReturns(last, FALSE)
           [] OTHER                -> last.kind = "return"

\* the method as the emitter gets it
AnalyzeMethod(class, mth) ==
  LET a == AnalyzeStatements(class, mth, mth.body, 1, NewAnalysis)
  IN  [ok |-> a.ok /\ (HasValue(mth) => Returns(mth.body)),
       method |-> [params |-> mth.params, locals |-> mth.locals, type |-> mth.type,
                   body |-> mth.body, has_and_or |-> a.and_or,
                   leaving |-> FlattenSeq(a.leaving)]]
===============================================================================
