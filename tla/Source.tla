-------------------------------- MODULE Source --------------------------------
(***************************************************************************)
(* Programs as a programmer writes them, for the parser to read: a tree of *)
(* Language as the sequence of its tokens.  Parentheses are put only where *)
(* the order of precedence in the guide (docs/guide/objeck_lang.docx,      *)
(* "Operators") asks for them, and around an and in an or, an or in an     *)
(* and, and a negation that is an operand on the left or before the ?.     *)
(***************************************************************************)
EXTENDS Language, SequencesExt

\* tokens of scanner.h: n is the number of a name or the value of a literal,
\* of is what a name stands for
Token(t)     == [t |-> t, of |-> "none", n |-> 0]
Name(of, n)  == [t |-> "ident", of |-> of, n |-> n]
Literal(n)   == [t |-> "int", of |-> "none", n |-> n]
Tokens(ts)   == [k \in DOMAIN ts |-> Token(ts[k])]

Signs   == [ADD_INT |-> "+", SUB_INT |-> "-", MUL_INT |-> "*", DIV_INT |-> "/",
            MOD_INT |-> "%", SHL_INT |-> "<<", SHR_INT |-> ">>", LES_INT |-> "<",
            GTR_INT |-> ">", EQL_INT |-> "=", NEQL_INT |-> "<>"]
Assigns == [ADD_INT |-> "+=", SUB_INT |-> "-=", MUL_INT |-> "*=", DIV_INT |-> "/="]
Steps   == [ADD_INT |-> "++", SUB_INT |-> "--"]

\* how strongly the parts of an expression hold together
Strength(e) ==
  CASE e.kind = "cond" -> 0
    [] e.kind \in {"and", "or", "not"} -> 1
    [] e.kind = "calculated" -> CASE e.op \in Comparison -> 2
                                  [] e.op \in {"ADD_INT", "SUB_INT"} -> 3
                                  [] OTHER -> 4
    [] OTHER -> 5

\* sequences one behind the other, with a comma between them
Joined(parts) ==
  FoldLeft(LAMBDA ts, part : IF ts = <<>> THEN part ELSE ts \o Tokens(<<",">>) \o part,
           <<>>, parts)

RECURSIVE Spell(_, _), SpellStatement(_)

\* an expression where one at least as strong as least is asked for
Spell(e, least) ==
  LET s == Strength(e)
      ts ==
        CASE e.kind = "number" ->
               IF e.n < 0 THEN <<Token("-"), Literal(-e.n)>> ELSE <<Literal(e.n)>>
          [] e.kind = "boolean" -> Tokens(<<IF e.n = 1 THEN "true" ELSE "false">>)
          [] e.kind = "nil"     -> Tokens(<<"Nil">>)
          [] e.kind \in {"variable", "field", "self"} -> <<Name(e.kind, e.n)>>
          [] e.kind = "pre"  -> <<Token(Steps[e.op])>> \o Spell(e.to, 5)
          [] e.kind = "post" -> Spell(e.to, 5) \o <<Token(Steps[e.op])>>
          [] e.kind = "call" ->
               <<Name("method", e.m), Token("(")>>
                 \o Joined([k \in DOMAIN e.args |-> Spell(e.args[k], 0)]) \o Tokens(<<")">>)
          [] e.kind = "cond" -> Spell(e.c, IF e.c.kind = "not" THEN 2 ELSE 1) \o Tokens(<<"?">>) \o Spell(e.a, 1)
                                  \o Tokens(<<":">>) \o Spell(e.b, 1)
          [] e.kind = "not"  -> Tokens(<<"<>">>) \o Spell(e.e, 2)
          [] e.kind \in {"and", "or"} ->
               Spell(e.r, IF e.r.kind = e.kind THEN 1 ELSE 2)
                 \o Tokens(<<IF e.kind = "and" THEN "&" ELSE "|">>)
                 \o Spell(e.l, IF e.l.kind \in {e.kind, "not"} THEN 1 ELSE 2)
          [] e.kind = "calculated" ->
               Spell(e.l, IF s = 2 THEN 3 ELSE s) \o <<Token(Signs[e.op])>> \o Spell(e.r, s + 1)
  IN  IF s < least THEN Tokens(<<"(">>) \o ts \o Tokens(<<")">>) ELSE ts

SpellAll(ss) == FlattenSeq([k \in DOMAIN ss |-> SpellStatement(ss[k]) \o Tokens(<<";">>)])
Block(ss)    == Tokens(<<"{">>) \o SpellAll(ss) \o Tokens(<<"}">>)
InParens(c)      == Tokens(<<"(">>) \o Spell(c, 0) \o Tokens(<<")">>)

\* labels with the same statements stand before one block
Group(st, v)   == {w \in DOMAIN st.cases : st.cases[w] = st.cases[v]}
Labelled(st, v) ==
  FoldLeft(LAMBDA ts, w : ts \o Tokens(<<"label">>) \o Spell(Number(w), 5) \o Tokens(<<":">>),
           <<>>, SetToSortSeq(Group(st, v), <))
    \o Block(st.cases[v])

\* a statement without its semicolon
SpellStatement(st) ==
  CASE st.kind = "assign" ->
         Spell(st.to, 5) \o
         CASE st.op = "none" -> Tokens(<<":=">>) \o Spell(st.e, 0)
           [] st.op \in DOMAIN Steps /\ st.e = Number(1) -> <<Token(Steps[st.op])>>
           [] OTHER -> <<Token(Assigns[st.op])>> \o Spell(st.e, 1)
    [] st.kind = "if" ->
         Tokens(<<"if">>) \o InParens(st.c) \o Block(st.body)
           \o (IF st.next = <<>> THEN <<>> ELSE Tokens(<<"else">>) \o SpellStatement(st.next[1]))
           \o (IF st.else = <<>> THEN <<>> ELSE Tokens(<<"else">>) \o Block(st.else))
    [] st.kind = "while" -> Tokens(<<"while">>) \o InParens(st.c) \o Block(st.body)
    [] st.kind = "do" -> Tokens(<<"do">>) \o Block(st.body) \o Tokens(<<"while">>) \o InParens(st.c)
    [] st.kind = "for" ->
         Tokens(<<"for", "(">>) \o SpellStatement(st.pre) \o Tokens(<<";">>) \o Spell(st.c, 0)
           \o Tokens(<<";">>) \o SpellStatement(st.update) \o Tokens(<<";", ")">>) \o Block(st.body)
    [] st.kind = "select" ->
         Tokens(<<"select">>) \o InParens(st.e) \o Tokens(<<"{">>)
           \o FoldLeft(LAMBDA ts, v : ts \o Labelled(st, v), <<>>,
                SetToSortSeq({v \in DOMAIN st.cases : \A w \in Group(st, v) : v <= w}, <))
           \o (IF st.other = <<>> THEN <<>> ELSE Tokens(<<"other", ":">>) \o Block(st.other))
           \o Tokens(<<"}">>)
    [] st.kind = "return" ->
         Tokens(<<"return">>) \o IF st.e = Nothing THEN <<>> ELSE Spell(st.e, 0)
    [] st.kind = "stmt"    -> Spell(st.call, 5)
    [] st.kind = "break"   -> Tokens(<<"break">>)
    [] st.kind = "leaving" -> Tokens(<<"leaving">>) \o Block(st.body)
    [] st.kind = "empty"   -> <<>>

\* v : Type, with its first value
Declaring(n, type) == <<Name("variable", n), Token(":"), Token(type)>>

\* locals are declared at the start; if the first statement assigns to the last
\* one, it is the end of this declaration
SpellLocals(mth) ==
  LET n     == Len(mth.params)
      k     == Len(mth.locals)
      first == IF mth.body = <<>> THEN Empty ELSE mth.body[1]
      set   == k > 0 /\ first.kind = "assign" /\ first.op = "none"
                 /\ first.to = Variable(n + k - 1)
      plain == FlattenSeq([j \in 1..k |-> Declaring(n + j - 1, mth.locals[j])
                            \o IF j = k /\ set THEN <<>> ELSE Tokens(<<";">>)])
  IN  IF set THEN plain \o Tokens(<<":=">>) \o Spell(first.e, 0) \o Tokens(<<";">>)
                    \o SpellAll(Tail(mth.body))
      ELSE plain \o SpellAll(mth.body)

SpellMethod(m, mth) ==
  Tokens(<<"method", ":", "public", ":">>) \o <<Name("method", m), Token("(")>>
    \o Joined([j \in DOMAIN mth.params |-> Declaring(j - 1, mth.params[j])])
    \o Tokens(<<")", "~", mth.type, "{">>) \o SpellLocals(mth) \o Tokens(<<"}">>)

\* the methods of a class, and its brace
Text(class) ==
  FlattenSeq([m \in DOMAIN class |-> SpellMethod(m, class[m])]) \o Tokens(<<"}">>)
===============================================================================
