------------------------------- MODULE Emitter --------------------------------
(***************************************************************************)
(* compiler/intermediate.cpp: from trees to instructions.  The state of    *)
(* IntermediateEmitter is a record s: the instructions of the block, the   *)
(* two label counters, break_labels, the assignments of post-increments    *)
(* that wait in post_statements, and the nodes whose increment was taken   *)
(* from them (SetPreStatement(NULL), SetPostStatement(NULL)).  Counters,   *)
(* queue and nodes are kept from one method to the next.                   *)
(***************************************************************************)
EXTENDS Language, SequencesExt

\* counters before the first label of a program (constructor of the emitter)
FirstLabels == [conditional |-> -1, unconditional |-> 2^30 - 1, waiting |-> <<>>, taken |-> {}]

NewBlock(labels) == [conditional |-> labels.conditional, unconditional |-> labels.unconditional,
                     waiting |-> labels.waiting, taken |-> labels.taken,
                     code |-> <<>>, breaks |-> <<>>]
Labels(s) == [conditional |-> s.conditional, unconditional |-> s.unconditional,
              waiting |-> s.waiting, taken |-> s.taken]

Add(s, instrs)   == [s EXCEPT !.code = @ \o instrs]
CondStuck(s)     == s
UncondStuck(s)   == s
NextCond(s)      == [s EXCEPT !.conditional = @ + 1]
NextUncond(s)    == [s EXCEPT !.unconditional = @ + 1]
Jmp(label, cond) == Instr("JMP", label, cond)
Lbl(label)       == Instr("LBL", label, 0)

\* CalculateEntrySpace: ids in order of declaration, after the word that and/or uses
SlotAtOnce(mth, n) == n
Slot(mth, n) == n + Flag(mth.has_and_or)

RECURSIVE EmitExpression(_, _, _)

EmitExpressions(mth, es, s) ==
  FoldLeft(LAMBDA t, e : EmitExpression(mth, e, t), s, es)

LoadOf(mth, e) ==
  CASE e.kind = "variable" -> <<LoadV(Slot(mth, e.n), LOCL)>>
    [] e.kind = "field"    -> <<Op("LOAD_INST_MEM"), LoadV(e.n, INST)>>
    [] e.kind = "self"     -> <<Op("LOAD_INST_MEM")>>

\* what EmitAssignment puts behind the value
StoreOf(mth, v, op) ==
  LET inst == IF v.kind = "field" THEN <<Op("LOAD_INST_MEM")>> ELSE <<>>
      id   == IF v.kind = "field" THEN v.n ELSE Slot(mth, v.n)
      ctx  == IF v.kind = "field" THEN INST ELSE LOCL
  IN  IF op = "none" THEN inst \o <<StorV(id, ctx)>>
      ELSE inst \o <<LoadV(id, ctx), Op(op)>> \o inst \o <<StorV(id, ctx)>>

\* a pre-increment is emitted before the load, a post-increment is put to the
\* others that wait, either only the first time the node is emitted
EmitVariable(mth, e, s) ==
  IF e.kind \notin {"pre", "post"} THEN Add(s, LoadOf(mth, e))
  ELSE LET step == <<Lit(1)>> \o StoreOf(mth, e.to, e.op)
           load == LoadOf(mth, e.to)
       IN  CASE e.id \in s.taken  -> Add(s, load)
             [] e.id \notin s.taken /\ e.kind = "pre" ->
                  [Add(s, step \o load) EXCEPT !.taken = @ \cup {e.id}]
             [] e.id \notin s.taken /\ e.kind = "post" ->
                  [Add(s, load) EXCEPT !.taken = @ \cup {e.id}, !.waiting = Append(@, step)]

\* one of the post-increments that wait
EmitWaiting(s) ==
  IF s.waiting = <<>> THEN s
  ELSE [Add(s, Head(s.waiting)) EXCEPT !.waiting = Tail(@)]

\* the result goes through local 0
EmitAndOr(mth, e, s) ==
  LET right == NextCond(EmitExpression(mth, e.r, s))
      label == right.conditional
      early == NextUncond(Add(right, <<Jmp(label, Flag(e.kind = "and")),
                                       Lit(Flag(e.kind = "or")), StorV(0, LOCL)>>))
      end   == early.unconditional
      left  == EmitExpression(mth, e.l, Add(early, <<Jmp(end, -1), Lbl(label)>>))
  IN  Add(left, <<StorV(0, LOCL), Lbl(end)>>)

\* so does that of c ? a : b
EmitConditional(mth, e, s) ==
  LET test == NextCond(EmitExpression(mth, e.c, NextUncond(s)))
      end  == s.unconditional + 1
      cond == test.conditional
      then == EmitExpression(mth, e.a, Add(test, <<Jmp(cond, 0)>>))
      else == EmitExpression(mth, e.b,
                Add(then, <<StorV(0, LOCL), Jmp(end, -1), Lbl(cond)>>))
  IN  Add(else, <<StorV(0, LOCL), Lbl(end), LoadV(0, LOCL)>>)

EmitCalculation(mth, e, s) ==
  Add(EmitExpression(mth, e.l, EmitExpression(mth, e.r, s)), <<Op(e.op)>>)

\* a call of a method of the same object: parameters in order, then self
EmitMethodCall(mth, e, s) ==
  Add(EmitExpressions(mth, e.args, s),
      <<Op("LOAD_INST_MEM"), Instr("MTHD_CALL", 0, e.m)>>)

EmitExpression(mth, e, s) ==
  CASE e.kind \in {"number", "boolean", "nil"} -> Add(s, <<Lit(e.n)>>)
    [] e.kind \in {"variable", "field", "self", "pre", "post"} -> EmitVariable(mth, e, s)
    [] e.kind \in {"and", "or"} -> Add(EmitAndOr(mth, e, s), <<LoadV(0, LOCL)>>)
    [] e.kind = "cond" -> EmitConditional(mth, e, s)
    [] e.kind = "calculated" -> EmitCalculation(mth, e, s)
    [] e.kind = "call" -> EmitMethodCall(mth, e, s)

-----------------------------------------------------------------------------
EmitAssignment(mth, st, s) ==
  Add(EmitExpression(mth, st.e, s), StoreOf(mth, st.to, st.op))

RECURSIVE EmitStatement(_, _, _, _), EmitIfChain(_, _, _, _, _, _)

EmitStatements(class, mth, ss, s) ==
  FoldLeft(LAMBDA t, st : EmitStatement(class, mth, st, t), s, ss)

\* EmitIf(if_stmt, next_label, end_label)
EmitIfChain(class, mth, st, next_label, end_label, s) ==
  LET test  == NextCond(EmitExpression(mth, st.c, Add(s, <<Lbl(next_label)>>)))
      cond  == test.conditional
      more  == st.next # <<>> \/ st.else # <<>>
      body  == EmitStatements(class, mth, st.body,
                 Add(test, <<Jmp(IF more THEN cond ELSE end_label, 0)>>))
      after == Add(body, <<Jmp(end_label, -1)>>
                 \o IF st.body = <<>> /\ st.next = <<>> THEN <<Op("POP_INT")>> ELSE <<>>)
      chain == IF st.next = <<>> THEN after
               ELSE EmitIfChain(class, mth, st.next[1], cond, end_label, after)
  IN  IF st.else = <<>> THEN chain
      ELSE EmitStatements(class, mth, st.else, Add(chain, <<Lbl(cond)>>))

EmitIf(class, mth, st, s) ==
  LET t == NextCond(NextUncond(s))
  IN  Add(EmitIfChain(class, mth, st, t.conditional, t.unconditional, t),
          <<Lbl(t.unconditional)>>)

\* EmitFor, and EmitWhile, which emits a post-increment of the condition at its
\* end if no statement of the body was there to do so
EmitLoop(class, mth, c, body, kind, s) ==
  LET t     == NextUncond(s)
      test  == NextCond(EmitExpression(mth, c, Add(t, <<Lbl(t.unconditional)>>)))
      break == test.conditional
      done  == EmitStatements(class, mth, body,
                 [Add(test, <<Jmp(break, 0)>>) EXCEPT !.breaks = Append(@, break)])
      next  == IF kind = "while" THEN EmitWaiting(done) ELSE done
  IN  [Add(next, <<Jmp(t.unconditional, -1), Lbl(break)>>) EXCEPT !.breaks = s.breaks]

EmitFor(class, mth, st, s) ==
  EmitLoop(class, mth, st.c, Append(st.body, st.update), "for",
           EmitStatement(class, mth, st.pre, s))

EmitDoWhile(class, mth, st, s) ==
  LET t     == NextUncond(NextCond(s))
      break == t.unconditional
      body  == EmitStatements(class, mth, st.body,
                 [Add(t, <<Lbl(t.conditional)>>) EXCEPT !.breaks = Append(@, break)])
      test  == EmitWaiting(EmitExpression(mth, st.c, body))
  IN  [Add(test, <<Jmp(t.conditional, 1), Lbl(break)>>) EXCEPT !.breaks = s.breaks]

EmitReturn(class, mth, st, s) ==
  LET value == IF st.e = Nothing THEN s ELSE EmitExpression(mth, st.e, s)
  IN  Add(EmitStatements(class, mth, mth.leaving, value), <<Op("RTRN")>>)

\* OrphanReturn: a value nobody asked for is dropped
OrphanKept(class, mth, st, s) == EmitMethodCall(mth, st.call, s)
EmitMethodCallStatement(class, mth, st, s) ==
  Add(EmitMethodCall(mth, st.call, s),
      IF HasValue(class[st.call.m]) THEN <<Op("POP_INT")>> ELSE <<>>)

-----------------------------------------------------------------------------
(* select: a tree of comparisons (SelectArrayTree, SelectNode).  C++ leaves open
   in which order the three labels of a smallest tree are taken. *)
RECURSIVE SelectTree(_, _), EmitNode(_, _, _, _, _)

\* divide, for the labels vs in order; n is the last conditional_label.  A node
\* has the values the expression is compared with.
SelectTree(vs, n) ==
  IF Len(vs) = 1 THEN [id |-> n + 1, equal |-> vs, less |-> <<>>, kids |-> <<>>]
  ELSE LET size   == Len(vs)
           middle == size \div 2 + 1
           left   == SelectTree(SubSeq(vs, 1, middle - 1), n)
           right  == SelectTree(SubSeq(vs, middle + (size % 2), size), left.id)
       IN  [id    |-> right.id + 1, kids |-> <<left, right>>,
            equal |-> IF size % 2 = 0 THEN <<>> ELSE <<vs[middle]>>,
            less  |-> <<vs[IF size = 3 THEN 3 ELSE middle]>>]

\* Emit(node, end_label): the expression is evaluated at each node; of has the
\* labels of the blocks, none that of "other" or of the end
EmitNode(mth, e, node, target, s) ==
  LET Test(op, v, to, t) == Add(EmitCalculation(mth, Calc(op, e, Number(v)), t), <<Jmp(to, 1)>>)
      start == Add(s, <<Lbl(node.id)>>)
      equal == IF node.equal = <<>> THEN start
               ELSE Test("EQL_INT", node.equal[1], target.of[node.equal[1]], start)
      left  == node.kids[1]
      right == node.kids[2]
      less  == Test("LES_INT", node.less[1], left.id, equal)
  IN  IF node.kids = <<>> THEN Add(equal, <<Jmp(target.none, -1)>>)
      ELSE EmitNode(mth, e, right, target,
             EmitNode(mth, e, left, target, Add(less, <<Jmp(right.id, -1)>>)))

\* SelectArrayTree(s, e) and Emit(): labels for the blocks, for the nodes and
\* for the end; the nodes, and behind them the blocks
EmitTree(class, mth, st, values, s) ==
  LET blocks == [k \in DOMAIN values |-> st.cases[values[k]]]
                  \o IF st.other = <<>> THEN <<>> ELSE <<st.other>>
      tree   == SelectTree(values, s.conditional + Len(blocks))
      end    == s.unconditional + 1
      target == [of |-> [v \in ToSet(values) |->
                           s.conditional + CHOOSE k \in DOMAIN values : values[k] = v],
                 none |-> IF st.other = <<>> THEN end ELSE s.conditional + Len(blocks)]
      nodes  == EmitNode(mth, st.e, tree, target,
                         [NextUncond(s) EXCEPT !.conditional = tree.id])
  IN  Add(FoldLeft(LAMBDA t, k :
            Add(EmitStatements(class, mth, blocks[k], Add(t, <<Lbl(s.conditional + k)>>)),
                <<Jmp(end, -1)>>), nodes, [k \in DOMAIN blocks |-> k]),
          <<Lbl(end)>>)

\* one label: a comparison; t has taken the labels
EmitCase(class, mth, st, value, t) ==
  LET end  == t.unconditional
      more == st.other # <<>>
      test == EmitCalculation(mth, Calc("EQL_INT", st.e, Number(value)), t)
      body == EmitStatements(class, mth, st.cases[value],
                Add(test, <<Jmp(IF more THEN t.conditional ELSE end, 0)>>))
      rest == <<Jmp(end, -1)>> \o IF more THEN <<Lbl(t.conditional)>> ELSE <<>>
  IN  Add(EmitStatements(class, mth, st.other, Add(body, rest)), <<Lbl(end)>>)

EmitSelect(class, mth, st, s) ==
  LET values == SetToSortSeq(DOMAIN st.cases, <)
  IN  CASE Len(values) > 1 -> EmitTree(class, mth, st, values, s)
        [] Len(values) = 1 /\ st.other = <<>> ->
             EmitCase(class, mth, st, values[1], NextUncond(s))
        [] Len(values) = 1 /\ st.other # <<>> ->
             EmitCase(class, mth, st, values[1], NextCond(NextUncond(s)))

\* after every statement one post-increment that waits; an empty statement and a
\* leaving block where it stands emit nothing
EmitStatement(class, mth, st, s) == EmitWaiting(
  CASE st.kind = "assign" -> EmitAssignment(mth, st, s)
    [] st.kind = "if"     -> EmitIf(class, mth, st, s)
    [] st.kind = "select" -> EmitSelect(class, mth, st, s)
    [] st.kind = "while"  -> EmitLoop(class, mth, st.c, st.body, "while", s)
    [] st.kind = "for"    -> EmitFor(class, mth, st, s)
    [] st.kind = "do"     -> EmitDoWhile(class, mth, st, s)
    [] st.kind = "return" -> EmitReturn(class, mth, st, s)
    [] st.kind = "stmt"   -> EmitMethodCallStatement(class, mth, st, s)
    [] st.kind = "break"  -> Add(s, <<Jmp(Last(s.breaks), -1)>>)
    [] st.kind = "declare" -> EmitStatements(class, mth, st.set, s)
    [] st.kind \in {"empty", "leaving"} -> s)

-----------------------------------------------------------------------------
\* EmitMethod: parameters are taken from the stack, the last one first; the
\* end returns unless the last statement does
CodeUnended(class, mth, labels) ==
  LET n == Len(mth.params)
      prologue == [k \in 1..n |-> StorV(Slot(mth, n - k), LOCL)]
  IN  EmitStatements(class, mth, mth.body, Add(NewBlock(labels), prologue))
EmitCode(class, mth, labels) ==
  LET n == Len(mth.params)
      prologue == [k \in 1..n |-> StorV(Slot(mth, n - k), LOCL)]
      open == mth.body = <<>> \/ Last(mth.body).kind # "return"
      done == EmitStatements(class, mth, mth.body, Add(NewBlock(labels), prologue))
  IN  Add(EmitStatements(class, mth, IF open THEN mth.leaving ELSE <<>>, done),
          IF open THEN <<Op("RTRN")>> ELSE <<>>)

\* the method handed to the optimizer: its instructions, the declarations of
\* its locals, its space in bytes, number of parameters
Declarations(mth) == [n \in 1..Len(mth.params \o mth.locals) |->
  IF (mth.params \o mth.locals)[n] = "Obj" THEN "OBJ_PARM" ELSE "INT_PARM"]
EmitMethod(mth, code) ==
  [code |-> code, declarations |-> Declarations(mth),
   space |-> 4 * Len(mth.params \o mth.locals), params |-> Len(mth.params),
   has_and_or |-> mth.has_and_or, returns |-> HasValue(mth)]
===============================================================================
