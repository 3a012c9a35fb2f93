------------------------------- MODULE Compiler -------------------------------
(***************************************************************************)
(* A class from its text to its result: the text is parsed, the methods    *)
(* are analysed one after the other, emitted, optimised in the two rounds  *)
(* of ItermediateOptimizer::Optimize and loaded; then the machine calls    *)
(* one of them.                                                            *)
(***************************************************************************)
EXTENDS Parser, Analyzer, Emitter, Optimizer

CONSTANTS
  Programs, \* [class, entry, args, fields, legal]: the trees that are meant, which method
            \* is called, and with what; whether the language allows the class
  Levels    \* of optimisation, "s0" to "s3"

ASSUME CompilerAssumption == Levels \subseteq 0..3

VARIABLES
  program, \* the program at hand
  level,   \* optimization_level
  class,   \* the trees of the parser, then those of the analyzer
  labels,  \* what the emitter keeps from one method to the next
  current  \* the method a loop of the compiler is at

vars == <<program, level, class, labels, current, machine>>

Init ==
  /\ program \in Programs
  /\ level \in Levels
  /\ class = <<>>
  /\ labels = FirstLabels
  /\ current = 1
  /\ methods = <<>>
  /\ op_stack = <<>>
  /\ frames = <<>>
  /\ fields = program.fields
  /\ status = "parse"

\* Parser::Parse
Parse ==
  /\ status = "parse"
  /\ \E p \in {ParseClass(Text(program.class))} :
       /\ class' = p.e
       /\ status' = IF p.at = 0 THEN "rejected" ELSE "analyze"
  /\ UNCHANGED <<program, level, labels, current, methods, op_stack, frames, fields>>

\* the loop over the methods of the class goes on, or ends in the next stage
Advance(stage) ==
  IF current < Len(class)
  THEN current' = current + 1 /\ UNCHANGED status
  ELSE current' = 1 /\ status' = stage

\* AnalyzeMethods; it stops at the first method with an error, the code does so
\* behind the last one
AnalyzeNext ==
  /\ status = "analyze"
  /\ \E a \in {AnalyzeMethod(class, class[current])} :
       /\ class' = [class EXCEPT ![current] = a.method]
       /\ IF a.ok THEN Advance("emit") ELSE status' = "rejected" /\ UNCHANGED current
  /\ UNCHANGED <<program, level, labels, methods, op_stack, frames, fields>>

EmitNext ==
  /\ status = "emit"
  /\ \E s \in {EmitCode(class, class[current], labels)} :
       /\ methods' = Append(methods, EmitMethod(class[current], s.code))
       /\ labels' = Labels(s)
  /\ Advance("optimize")
  /\ UNCHANGED <<program, level, class, op_stack, frames, fields>>

OptimizeNext ==
  /\ status = "optimize"
  /\ methods' = [methods EXCEPT ![current] = OptimizeMethod(methods, current, level)]
  /\ Advance("inline")
  /\ UNCHANGED <<program, level, class, labels, op_stack, frames, fields>>

InlineNext ==
  /\ status = "inline"
  /\ methods' = [methods EXCEPT ![current] =
       IF level > 2 THEN InlineMethod(methods, current, labels.unconditional) ELSE @]
  /\ Advance("loaded")
  /\ UNCHANGED <<program, level, class, labels, op_stack, frames, fields>>

\* Main calls the method: its parameters are on the stack
Enter ==
  /\ status = "loaded"
  /\ op_stack' = program.args
  /\ frames' = <<NewFrame(program.entry, Instance, program.args)>>
  /\ status' = "run"
  /\ UNCHANGED <<program, level, class, labels, current, methods, fields>>

RunNext == Execute /\ UNCHANGED <<program, level, class, labels, current>>

\* the process has ended
Ended == status \in {"done", "fault", "rejected"}
Stay  == Ended /\ UNCHANGED vars

Next == Parse \/ AnalyzeNext \/ EmitNext \/ OptimizeNext \/ InlineNext \/ Enter \/ RunNext \/ Stay

Spec     == Init /\ [][Next]_vars
FairSpec == Spec /\ WF_vars(RunNext)

-----------------------------------------------------------------------------
TypeOK ==
  /\ level \in Levels /\ current \in 1..Len(program.class)
  /\ labels.conditional \in Int /\ labels.unconditional \in Int
  /\ status \in {"parse", "analyze", "rejected", "emit", "optimize", "inline", "loaded", "run", "done", "fault"}
  /\ status = "loaded" => \A n \in DOMAIN methods : \A i \in DOMAIN Code(n) :
         /\ Code(n)[i].op \in Straight \cup {"JMP", "LBL", "MTHD_CALL", "RTRN"}
         /\ Code(n)[i].a \in Int /\ Code(n)[i].b \in Int
  /\ \A n \in DOMAIN op_stack : op_stack[n] \in Int
  /\ \A n \in DOMAIN frames : /\ frames[n].method \in DOMAIN class
                              /\ frames[n].mem \in [0..LocalSize -> Int]
                              /\ frames[n].ip \in DOMAIN Code(frames[n].method)

-----------------------------------------------------------------------------
(* What is known to go wrong, as it shows in the code of a method. *)

\* strength reduction of a division: a shift rounds down, and 4 / x becomes x / 4
DivisionShifted(m) == \E n \in DOMAIN Code(m) : Code(m)[n].op = "SHR_INT"

\* strength reduction of 4 * @f: the literal is between the object and its field
FieldShifted(m) ==
  \E n \in DOMAIN Code(m) \ {1} :
    /\ Code(m)[n].op = "LOAD_INT_VAR" /\ Code(m)[n].b = INST
    /\ Code(m)[n - 1].op = "LOAD_INT_LIT"

\* every jump has one label
JumpsLand(m) ==
  \A n \in DOMAIN Code(m) : Code(m)[n].op = "JMP" =>
    Len(SelectSeq(Code(m), LAMBDA i : i.op = "LBL" /\ i.a = Code(m)[n].a)) = 1

\* declarations were added to those of the source
Inlined(m) == Len(methods[m].declarations) > Len(class[m].params \o class[m].locals)

Clean == \A m \in DOMAIN methods : JumpsLand(m)
Sound == Clean /\ \A m \in DOMAIN methods : ~DivisionShifted(m) /\ ~FieldShifted(m)

-----------------------------------------------------------------------------
Expected == Meaning(program.class, program.entry, program.args, program.fields)
Value0   == Flag(HasValue(program.class[program.entry]))

\* A class the language does not allow is refused, another one is not; and at every
\* level the compiled method does what the tree says that was written down: it
\* returns the same value, leaves the same fields, and faults in the same cases.
Conforms(expected) ==
  IF expected.flow = "fault" THEN status = "fault"
  ELSE /\ status = "done"
       /\ fields = expected.fld
       /\ Value0 = 1 => op_stack = <<expected.v>>
AsMeant == IF program.legal THEN Conforms(Expected) ELSE status = "rejected"
ResultPreserved == Ended /\ Sound => AsMeant

\* A method takes its parameters and leaves its value: the stack never goes
\* below where it stood, and at each RTRN it stands there, the value on top.
StackBalanced ==
  status = "run" =>
    /\ \A n \in DOMAIN frames : Len(op_stack) >= frames[n].base
    /\ fetched.op = "RTRN" =>
         Len(op_stack) = frame.base + Flag(methods[frame.method].returns)

\* The collector finds a local by walking the declarations of the method, after
\* self and the word of and/or (CheckPdaRoots): each slot with a reference is one
\* that the walk takes for an object, and what it takes for one is Nil or one.
\* The word of and/or is not walked; a reference in it is loaded at once.
Scanned(m) ==
  LET start == Flag(methods[m].has_and_or)
  IN  {n + start : n \in {k \in DOMAIN methods[m].declarations :
                            methods[m].declarations[k] = "OBJ_PARM"}}
FrameScanned(f) ==
  LET scanned == Scanned(f.method)
      word    == IF methods[f.method].has_and_or THEN {1} ELSE {}
  IN  /\ \A n \in 1..LocalSize : f.mem[n] = Instance => n \in scanned \cup word
      /\ \A n \in scanned : f.mem[n] \in {0, Instance}

AllFramesScanned == \A n \in DOMAIN frames : FrameScanned(frames[n])
FramesScanned ==
  \A n \in DOMAIN frames : Inlined(frames[n].method) \/ FrameScanned(frames[n])

\* A jump has exactly one label in its method, whatever was inlined into it.
LabelsDistinct == status = "loaded" => Clean

\* What strength reduction is for: a shift in place of a product or quotient.
ReductionPreserves == Ended => AsMeant

\* Every program of the set ends, so the compiled one does: no jump of a loop, a
\* condition or a break goes where it does not end.
Ends == status = "run" ~> Ended
===============================================================================
