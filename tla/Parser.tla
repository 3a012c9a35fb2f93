-------------------------------- MODULE Parser --------------------------------
(***************************************************************************)
(* compiler/parser.cpp: from the tokens of a class to the trees of its     *)
(* methods, by recursive descent.  ts is what the scanner gives, n the     *)
(* token the parser is at; a function gives the tree and the token behind  *)
(* it.  The first error ends the parsing (token 0): the parser goes on to  *)
(* look for more of them, but nothing is compiled any more.                *)
(***************************************************************************)
EXTENDS Source

Parsed(e, n) == [e |-> e, at |-> n]
Wrong        == Parsed(<<>>, 0)
\* what follows a tree and its end, unless there was an error
Then(p, F(_, _)) == IF p.at = 0 THEN Wrong ELSE F(p.e, p.at)

Tok(ts, n)       == IF n \in DOMAIN ts THEN ts[n].t ELSE "end"   \* GetToken
Expect(ts, n, t) == IF Tok(ts, n) = t THEN n + 1 ELSE 0          \* Match, NextToken

\* what the signs stand for
Operation == AntiFunction(Signs)
Assigned  == AntiFunction(Assigns)
Stepped   == AntiFunction(Steps)

VariableAt(ts, n) == [kind |-> ts[n].of, n |-> ts[n].n]

RECURSIVE ParseExpression(_, _), ParseLogic(_, _), ParseArguments(_, _, _)

\* ( expression )
ParseParens(ts, n) ==
  Then(ParseExpression(ts, Expect(ts, n, "(")), LAMBDA e, at : Parsed(e, Expect(ts, at, ")")))

\* ParseMethodCall, ParseExpressionList: a comma may stand behind the last one
ParseArguments(ts, n, es) ==
  IF Tok(ts, n) = ")" THEN Parsed(es, n + 1)
  ELSE Then(ParseExpression(ts, n), LAMBDA e, at :
         IF Tok(ts, at) = "," THEN ParseArguments(ts, at + 1, Append(es, e))
         ELSE Parsed(Append(es, e), Expect(ts, at, ")")))

ParseMethodCall(ts, n) ==
  Then(ParseArguments(ts, n + 2, <<>>), LAMBDA args, at : Parsed(Call(ts[n].n, args), at))

\* a name, behind the increment op: one before a call is dropped
ParseName(ts, n, op) ==
  LET after   == Tok(ts, n + 1)
      stepped == after \in DOMAIN Stepped
      v == IF stepped THEN Post(n, VariableAt(ts, n), Stepped[after]) ELSE VariableAt(ts, n)
  IN  IF after = "(" THEN ParseMethodCall(ts, n)
      ELSE Parsed(IF op = "none" THEN v ELSE Pre(n, v, op), n + 1 + Flag(stepped))

ParseSimpleExpression(ts, n) ==
  LET t    == Tok(ts, n)
      next == Tok(ts, n + 1)
  IN  CASE t = "ident" -> ParseName(ts, n, "none")
        [] t \in DOMAIN Stepped /\ next = "ident" -> ParseName(ts, n + 1, Stepped[t])
        [] t = "(" -> ParseParens(ts, n)
        [] t = "-" /\ next = "int" -> Parsed(Number(-ts[n + 1].n), n + 2)
        [] t = "int" -> Parsed(Number(ts[n].n), n + 1)
        [] t \in {"true", "false"} -> Parsed(Truth(Flag(t = "true")), n + 1)
        [] t = "Nil" -> Parsed(NilLiteral, n + 1)
        [] OTHER -> Wrong

\* left sign right
Calculated(sign, left, right) == Parsed(Calc(Operation[sign], left.e, right.e), right.at)

RECURSIVE ParseFactors(_, _), ParseTerms(_, _)

\* ParseFactor, ParseTerm: from left to right
ParseFactors(ts, left) ==
  LET sign == Tok(ts, left.at)
  IN  IF sign \notin {"*", "/", "%", "<<", ">>"} THEN left
      ELSE ParseFactors(ts, Calculated(sign, left, ParseSimpleExpression(ts, left.at + 1)))
ParseFactor(ts, n) == ParseFactors(ts, ParseSimpleExpression(ts, n))

ParseTerms(ts, left) ==
  LET sign == Tok(ts, left.at)
  IN  IF sign \notin {"+", "-"} THEN left
      ELSE ParseTerms(ts, Calculated(sign, left, ParseFactor(ts, left.at + 1)))
ParseTerm(ts, n) == ParseTerms(ts, ParseFactor(ts, n))

\* one comparison
ParseMathLogic(ts, n) ==
  Then(ParseTerm(ts, n), LAMBDA left, at :
    LET sign == Tok(ts, at)
    IN  IF sign \notin {"<", ">", "=", "<>"} THEN Parsed(left, at)
        ELSE Calculated(sign, Parsed(left, at), ParseTerm(ts, at + 1)))

\* a not is a comparison with true.  Here it is for one operand; what is behind
\* an "and" or "or" is one operand, and the left one in the tree
ParseLogic(ts, n) ==
  LET not == Tok(ts, n) = "<>"
  IN  Then(ParseMathLogic(ts, n + Flag(not)), LAMBDA math, at :
        LET first == IF not THEN Calc("NEQL_INT", math, Truth(1)) ELSE math
            and   == Tok(ts, at) = "&"
        IN  IF Tok(ts, at) \notin {"&", "|"} THEN Parsed(first, at)
            ELSE Then(ParseLogic(ts, at + 1), LAMBDA rest, end :
                   Parsed(IF and THEN And(rest, first) ELSE Or(rest, first), end)))

\* at the start of an expression it is for all of it
ParseExpression(ts, n) ==
  LET not == Tok(ts, n) = "<>"
  IN  Then(ParseLogic(ts, n + Flag(not)), LAMBDA c, at :
        CASE not -> Parsed(Calc("NEQL_INT", Truth(1), c), at)
          [] ~not /\ Tok(ts, at) = "?" ->
               Then(ParseLogic(ts, at + 1), LAMBDA yes, colon :
                 Then(ParseLogic(ts, Expect(ts, colon, ":")), LAMBDA no, end :
                   Parsed(Cond(c, yes, no), end)))
          [] OTHER -> Parsed(c, at))

-----------------------------------------------------------------------------
\* a declaration of a local, with the assignment of its first value if it has one
Declare(type, set) == [kind |-> "declare", type |-> type, set |-> set]

\* ParseType
TypeAt(ts, n) == IF Tok(ts, n) \in ValueTypes \cup {"Nil"} THEN n + 1 ELSE 0

\* the name is at n
ParseDeclaration(ts, n) ==
  LET typed == IF Tok(ts, n + 1) = ":" THEN TypeAt(ts, n + 2) ELSE 0
      type  == Tok(ts, n + 2)
  IN  IF Tok(ts, typed) # ":=" THEN Parsed(Declare(type, <<>>), typed)
      ELSE Then(ParseExpression(ts, typed + 1), LAMBDA e, at :
             Parsed(Declare(type, <<Assign(VariableAt(ts, n), e)>>), at))

RECURSIVE ParseStatement(_, _), ParseStatements(_, _, _), ParseIf(_, _),
          ParseLabels(_, _, _), ParseLists(_, _, _), ParseDeclarations(_, _, _)

ParseStatements(ts, n, ss) ==
  IF Tok(ts, n) \in {"}", "end"} THEN Parsed(ss, Expect(ts, n, "}"))
  ELSE Then(ParseStatement(ts, n), LAMBDA s, at : ParseStatements(ts, at, Append(ss, s)))
ParseStatementList(ts, n) ==
  IF Tok(ts, n) = "{" THEN ParseStatements(ts, n + 1, <<>>) ELSE Wrong

\* the word of a statement is at n
ParseIf(ts, n) ==
  Then(ParseParens(ts, n + 1), LAMBDA c, then :
    Then(ParseStatementList(ts, then), LAMBDA body, at :
      CASE Tok(ts, at) # "else" -> Parsed(If(c, body, <<>>, <<>>), at)
        [] Tok(ts, at) = "else" /\ Tok(ts, at + 1) = "if" ->
             Then(ParseIf(ts, at + 1), LAMBDA next, end : Parsed(If(c, body, <<next>>, <<>>), end))
        [] OTHER ->
             Then(ParseStatementList(ts, at + 1), LAMBDA else, end :
               Parsed(If(c, body, <<>>, else), end))))

ParseWhile(ts, n) ==
  Then(ParseParens(ts, n + 1), LAMBDA c, at :
    Then(ParseStatementList(ts, at), LAMBDA body, end : Parsed(While(c, body), end)))

ParseDoWhile(ts, n) ==
  Then(ParseStatementList(ts, n + 1), LAMBDA body, at :
    Then(ParseParens(ts, Expect(ts, at, "while")), LAMBDA c, end : Parsed(DoWhile(body, c), end)))

\* the update is a statement with its semicolon
ParseFor(ts, n) ==
  Then(ParseStatement(ts, Expect(ts, n + 1, "(")), LAMBDA pre, first :
    Then(ParseExpression(ts, first), LAMBDA c, second :
      Then(ParseStatement(ts, Expect(ts, second, ";")), LAMBDA update, last :
        Then(ParseStatementList(ts, Expect(ts, last, ")")), LAMBDA body, end :
          Parsed(For(pre, c, update, body), end)))))

\* the labels before one list of statements; "other" may be among them
ParseLabels(ts, n, found) ==
  CASE Tok(ts, n) = "label" ->
         Then(ParseSimpleExpression(ts, n + 1), LAMBDA e, at :
           ParseLabels(ts, Expect(ts, at, ":"), [found EXCEPT !.labels = Append(@, e)]))
    [] Tok(ts, n) = "other" /\ ~found.other ->
         ParseLabels(ts, Expect(ts, n + 1, ":"), [found EXCEPT !.other = TRUE])
    [] Tok(ts, n) = "other" /\ found.other -> Wrong
    [] OTHER -> Parsed(found, n)

\* the lists of a select: one with "other" keeps no other label; bodies are all
\* of them
ParseLists(ts, n, found) ==
  IF Tok(ts, n) \notin {"label", "other"} THEN Parsed(found, Expect(ts, n, "}"))
  ELSE Then(ParseLabels(ts, n, [labels |-> <<>>, other |-> FALSE]), LAMBDA group, at :
         Then(ParseStatementList(ts, at), LAMBDA body, end :
           IF group.other /\ found.other # <<>> THEN Wrong
           ELSE ParseLists(ts, end,
             [found EXCEPT !.bodies = Append(@, body),
                           !.other = IF group.other THEN <<body>> ELSE @,
                           !.lists = IF group.other THEN @
                                     ELSE Append(@, [labels |-> group.labels, body |-> body])])))

\* SetLabelStatements of AnalyzeSelect: the statements for each number
LabelStatements(lists) ==
  [v \in {e.n : e \in UNION {ToSet(list.labels) : list \in ToSet(lists)}} |->
     (CHOOSE list \in ToSet(lists) : \E e \in ToSet(list.labels) : e.n = v).body]

ParseSelect(ts, n) ==
  Then(ParseParens(ts, n + 1), LAMBDA e, at :
    Then(ParseLists(ts, Expect(ts, at, "{"), [lists |-> <<>>, bodies |-> <<>>, other |-> <<>>]),
      LAMBDA found, end :
        Parsed([kind |-> "select", e |-> e, lists |-> found.lists, bodies |-> found.bodies,
                cases |-> LabelStatements(found.lists), other |-> FlattenSeq(found.other)], end)))

ParseReturn(ts, n) ==
  IF Tok(ts, n + 1) = ";" THEN Parsed(Return(Nothing), n + 1)
  ELSE Then(ParseExpression(ts, n + 1), LAMBDA e, at : Parsed(Return(e), at))

ParseLeaving(ts, n) ==
  Then(ParseStatementList(ts, n + 1), LAMBDA body, at : Parsed(Leaving(body), at))

\* a statement that starts with a name
ParseNamed(ts, n) ==
  LET t == Tok(ts, n + 1)
      v == VariableAt(ts, n)
  IN  CASE t = ":"  -> ParseDeclaration(ts, n)
        [] t = "("  -> Then(ParseMethodCall(ts, n), LAMBDA call, at :
                         Parsed([kind |-> "stmt", call |-> call], at))
        [] t = ":=" -> Then(ParseExpression(ts, n + 2), LAMBDA e, at : Parsed(Assign(v, e), at))
        [] t \in DOMAIN Assigned ->
             Then(ParseLogic(ts, n + 2), LAMBDA e, at : Parsed(OpAssign(v, Assigned[t], e), at))
        [] t \in DOMAIN Stepped  -> Parsed(OpAssign(v, Stepped[t], Number(1)), n + 2)
        [] OTHER -> Wrong

ParseAnyStatement(ts, n) ==
  LET t == Tok(ts, n)
  IN  CASE t = "ident"  -> ParseNamed(ts, n)
        [] t \in DOMAIN Stepped /\ Tok(ts, n + 1) = "ident" ->
             Parsed(OpAssign(VariableAt(ts, n + 1), Stepped[t], Number(1)), n + 2)
        [] t = ";"       -> Parsed(Empty, n)
        [] t = "return"  -> ParseReturn(ts, n)
        [] t = "leaving" -> ParseLeaving(ts, n)
        [] t = "if"      -> ParseIf(ts, n)
        [] t = "do"      -> ParseDoWhile(ts, n)
        [] t = "while"   -> ParseWhile(ts, n)
        [] t = "break"   -> Parsed(Break, n + 1)
        [] t = "select"  -> ParseSelect(ts, n)
        [] t = "for"     -> ParseFor(ts, n)
        [] OTHER         -> Then(ParseSimpleExpression(ts, n), LAMBDA e, at :
                              Parsed([kind |-> "simple", e |-> e], at))

\* every statement ends with a semicolon
ParseStatement(ts, n) ==
  Then(ParseAnyStatement(ts, n), LAMBDA s, at : Parsed(s, Expect(ts, at, ";")))

-----------------------------------------------------------------------------
\* ParseDecelerationList: the types of the parameters; no comma behind the last one
ParseDeclarations(ts, n, types) ==
  CASE Tok(ts, n) = ")" -> Parsed(types, n + 1)
    [] Tok(ts, n) = "ident" ->
         Then(ParseDeclaration(ts, n), LAMBDA d, at :
           CASE Tok(ts, at) # "," -> Parsed(Append(types, d.type), Expect(ts, at, ")"))
             [] Tok(ts, at) = "," /\ Tok(ts, at + 1) = "ident" ->
                  ParseDeclarations(ts, at + 1, Append(types, d.type))
             [] OTHER -> Wrong)
    [] OTHER -> Wrong

\* the word "method" is at n; it is private where nothing is said
ParseMethod(ts, n) ==
  LET start == Expect(ts, n + 1, ":")
      name  == IF Tok(ts, start) \in {"public", "private"} THEN Expect(ts, start + 1, ":")
               ELSE start
  IN  Then(ParseDeclarations(ts, Expect(ts, Expect(ts, name, "ident"), "("), <<>>),
        LAMBDA params, at :
          LET type == Expect(ts, at, "~")
          IN  Then(ParseStatementList(ts, TypeAt(ts, type)), LAMBDA body, end :
                LET locals == SelectSeq(body, LAMBDA s : s.kind = "declare")
                IN  Parsed(Method(params, [k \in DOMAIN locals |-> locals[k].type],
                                  Tok(ts, type), body), end)))

\* the methods of a class, up to its brace
RECURSIVE ParseMethods(_, _, _)
ParseMethods(ts, n, found) ==
  IF Tok(ts, n) # "method" THEN Parsed(found, Expect(ts, n, "}"))
  ELSE Then(ParseMethod(ts, n), LAMBDA m, at : ParseMethods(ts, at, Append(found, m)))
ParseClass(ts) == ParseMethods(ts, 1, <<>>)
===============================================================================
