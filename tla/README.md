# Objeck in TLA+

Objeck is an object-oriented language with a compiler (`src/src/compiler`) that
writes intermediate code to a file, and a virtual machine (`src/src/vm`) that loads
the file and interprets it, compiles methods to native code (amd64, ia32,
arm32) and collects garbage with several threads.  This directory holds a model of
the parts whose mistakes are hard to reproduce: the garbage collector, the memory it
hands out, the calls between interpreted and native code, threads with their joins
and critical sections, the way of a class from its tokens through parser, context analysis,
code generation and the optimizer to its execution, the compiler to native code for amd64, and the serializer of object
graphs.  Each module is written from the C++ source; `PROJECT.json` ("map")
names, for every definition, the lines it stands for.

Contents: 1 the system, 2 hard behaviours and what must hold, 3 the modules and
how they correspond to the code, 4 runs and bounds, 5 fairness, 6 proofs,
7 disagreements between code and documents, 8 what is not modelled, 9 plan.

## 1. The system

| Part | State it keeps | Operations | Talks to |
|---|---|---|---|
| Garbage collector, `vm/os/posix/memory.cpp`, `memory.h` | `allocated_memory`, `marked_memory`, roots of interpreters and of native code, `MARKED_FLAG` in each block, the mutexes of all of these | `AllocateObject`, `AllocateArray`, `CollectMemory`, `MarkMemory`, `MarkValidMemory`, `CheckStatic`, `CheckStack`, `CheckPdaRoots`, `CheckJitRoots`, `Add/Remove...MethodRoot` | reads operand stacks, frames and class memory of running threads |
| Pools and threshold, same files | `cache_pool_16` .. `cache_pool_512`, `allocation_size`, `mem_max_size`, `uncollected_count`, `collected_count` | taking a block, the sweep's refill and refund | the heap of the C library |
| Interpreter, `vm/interpreter.cpp`, `interpreter.h`, `vm.cpp` | per interpreter: call stack, current frame, halt flag; shared: frame cache, set of interpreters, virtual-method cache | `Execute` and its instructions, `ProcessMethodCall`, `ProcessReturn`, `ProcessAsyncMethodCall`, `HaltAll` | allocates; calls native code |
| Threads of a program, `interpreter.cpp`, `compiler/lib_src/lang.obs` | handle in each `Thread` object, mutex in each `ThreadMutex`, `ThreadHolder` of a starting thread | `Execute`, `Join`, `critical` (`CRITICAL_START`, `CRITICAL_END`), `Sleep` | pthreads |
| Native code at run time, `vm/jit/*/jit_*.h` | registered frames (`jit_mem`, temporaries) | compiled methods, `StackCallback` into a nested interpreter | interpreter, collector |
| JIT compilers, `vm/jit/*/*.cpp` | register pools, `working_stack` of values not yet in the operand stack, code buffer and jump offsets, `jit_mutex` of a method | `Compile`, `ProcessInstructions` and one `Process...` per group of instructions | instruction sequences of the loader; the interpreter for what it does not translate |
| Traps, `vm/common.cpp` | none but handles; of a serializer the buffer, the numbers given to blocks and the next one | I/O, strings, dates; `ObjectSerializer` and `ObjectDeserializer` | collector |
| Loader, `vm/loader.cpp` | the program: classes, methods, declarations, instructions | reads the linked file | compiler's target |
| Scanner and parser, `compiler/scanner.cpp`, `parser.cpp` | token window, syntax tree | recursive descent | context analysis |
| Context analysis, `compiler/context.cpp`, `tree.cpp`, `types.cpp` | symbol tables, current class/method, `in_loop` | checks and annotates the tree | linker (library classes) |
| Intermediate code, `compiler/intermediate.cpp` | statement labels, pending post-increments, current block | one `Emit...` per node | optimizer |
| Optimizer, `compiler/optimization.cpp`, `.h` | working stack of a pass, inlined methods | nine passes over blocks | target |
| Linker and target, `compiler/linker.cpp`, `target.cpp` | library classes, the output program | reads `.obl`, writes `.obe` | loader |
| Debugger, `vm/debugger` | breakpoints, stepping state | `next`, `step in`, `step out` at each line | interpreter (callbacks) |
| Class libraries, `compiler/lib_src/*.obs` | Objeck programs: collections, XML, JSON, logging | - | traps |
| Extension libraries, `lib/*`; drivers, Windows port, utilities | handles | wrappers of C libraries; `main` | - |

How they interact at run time.  A thread of the program interprets instructions on
its own operand stack.  `NEW_*` calls `AllocateObject` or `AllocateArray` with the
stack and its position; if the size check says so that thread starts a collection
thread and joins it.  The collection thread starts four mark threads (class memory,
the operand stack it was given, frames of the registered interpreters, frames
of native code), joins them and sweeps.  The other threads of the program are not
stopped: they go on moving references and appending to `allocated_memory`, which
only `allocated_mutex` orders with the sweep.  A method call takes a frame from a
cache all threads share, or enters native code; native code that calls a method
starts a nested interpreter on its own call instruction in a frame marked
`jit_called`, and the nested interpreter returns to it.  Threads share class memory;
what orders them is the `critical` statement, which locks the mutex of the object its
variable holds, and `Join`, which is given the handle the object holds.

## 2. What is hard, and what must hold

`PROJECT.json` ("hazards") lists every place, with its line, and the properties that
would catch it going wrong, or why there are none yet.  By component:

- **Collector.** Marks set by concurrent threads with an unlocked test; two mutexes
  taken in both orders; words that look like references; cyclic structures; a stale
  slot of the operand stack; flags that survive a collection; several threads.
  Must hold: nothing the program can reach is taken back (`NoDangling`), what no word
  reaches is (`GarbageReclaimed`), every collection starts clean (`CleanBetween`),
  the lock orders never meet (`NoLockCycle`), an allocation returns
  (`AllocationReturns`), and the whole is a heap (`HeapSpec`).
- **Pools.** Sizes chosen by one piece of code and returned by another, with a
  refund computed in a third place. Must hold: what is handed out is as good as a block of calloc
  (`HandedOut`), no pool shrinks (`PoolsConserved`), the total is the sum of what is
  allocated (`SizeAccounted`), the threshold comes down again and not below its floor
  (`ThresholdFloor`), as long as raising it does not overflow.
- **Calls.** Frames from a shared cache, native and interpreted code nested to any
  depth, threads that start and stop around `HaltAll`. Must hold: a frame has one
  owner and is never lost (`FramesOwned`), the frames marked `jit_called` are those of native
  code that waits (`TrampolinesMatch`), and together the two execution engines call and
  return as a program expects (`CallsSpec`).
- **Threads of a program.** A handle is stored after the thread runs and is a value that
  is used again; `critical` evaluates its variable twice.  Must hold: in a program that
  keeps named rules no addition is lost (`Counted`), joins succeed (`JoinsSucceed`) and wait for the
  right thread (`JoinSound`), and everybody who waits goes on (`WaitsEnd`).
- **Compiler.** A parser that exchanges operands, an analysis that keeps flags from one
  statement to the next; eight passes that each look right alone and run one after the
  other; jumps by labels from two counters; slots of locals that three parts compute;
  increments that wait; methods put into others. Must hold: what the language does not allow is
  refused and nothing else is, and a method does what its text means at every level (`ResultPreserved`), it takes its operands and leaves its value
  (`StackBalanced`), each jump has one label (`LabelsDistinct`), the collector finds
  the references in its frame (`FramesScanned`), it ends when its tree does (`Ends`).
- **Native compiler.** One pass over code with jumps, with values of the operand stack kept
  in registers; loads that are put off; callbacks that change every register; a frame
  whose layout the collector works out again.  Must hold: no register is lost or has two owners
  (`RegistersConserved`), what is in registers agrees where jumps meet (`StacksMeet`), a native
  method does what its tree means (`NativeAsMeant`) and ends (`NativeEnds`), the collector
  finds the references of its frame (`NativeRootsFound`).
- **Serializer.** Shared and cyclic graphs, several objects in one buffer, nested readers that
  each hold a copy of the position.  Must hold: one number per block (`NumberedOnce`),
  what is read is a copy (`RoundTrip`), the reader ends where the writer did (`InStep`).

## 3. Modules

| Module | Stands for |
|---|---|
| `MemoryManager` | `memory.cpp` with the instructions of `interpreter.cpp` that allocate or move references; its properties |
| `AbstractHeap` | what a garbage-collected heap promises; `MemoryManager` implements it by `Heap == INSTANCE AbstractHeap WITH ...` |
| `MemoryInvariant` | the parts of the inductive invariant: `Control`, `Locks`, and for one program thread `SingleThreaded` |
| `MCMemory` | declarations, bounds and symmetry for TLC |
| `MemoryManager_proofs` | the theorems about it: types and locks; that nothing in use is taken back, that it implements `AbstractHeap` and takes back all garbage |
| `MemoryPools`, `MCPools`, `MemoryPools_proofs` | size check, pools, sweep of one block at a time, accounting, threshold |
| `Interpreter`, `MCInterpreter`, `Interpreter_proofs` | calls, frames, native code, threads |
| `AbstractCalls` | what calling a method promises a thread; `Interpreter` implements it by `Calls` |
| `Concurrency`, `MCConcurrency`, `Concurrency_proofs` | `Thread`, `ThreadMutex` and `critical` |
| `StackMachine` | integer instructions, jumps, calls and returns of `interpreter.cpp` |
| `Language` | trees of methods and their meaning, the abstract specification of both compilers |
| `Source` | programs as their programmer writes them: trees as the tokens of `scanner.h` |
| `Parser` | `parser.cpp`: tokens to trees |
| `Analyzer` | `context.cpp`: types, loops, leaving blocks and return paths of a method |
| `Emitter` | `intermediate.cpp`: trees to instructions |
| `Optimizer` | `optimization.cpp`: the passes and method inlining |
| `Compiler`, `MCCompiler` | a class from its text to the result of one of its methods; the programs it is checked on |
| `NativeCompiler` | `jit_amd_lp64.cpp`, `.h`: instructions to machine code |
| `NativeCompiler_proofs` | theorems about `StackMachine`, what the passes put for adjacent instructions, and about the registers of the translation |
| `NativeCode`, `MCNative` | `Compiler` with one method of the class native: translation, execution, callbacks; its programs |
| `Serializer`, `MCSerializer` | object graphs to a buffer and back |
| `Serializer_proofs` | numbering, types, and that the readers take every token for what was written there |
| `SerializerCopy_proofs` | that what they make of it is a copy |
| `FoldTheorems` | what `FoldLeft` of the community modules computes, for the proofs about models that fold |

### MemoryManager

| State | Code |
|---|---|
| `kind`, `refs` | the `TYPE` word of a block and its contents, references only |
| `allocated`, `unsorted` | `allocated_memory`; the part appended since `std::sort` |
| `static` | class memory |
| `th`, `op`, `pos`, `frames`, `holder` | what a thread does, its operand stack and `stack_pos`, its frames (`frame`, `call_stack` and, for native code, `ClassMethodId` with its temporaries), the `ThreadHolder` of one that has not started |
| `block` | the block an allocation has and has not yet recorded |
| `gc`, `owner` | stage of the collection thread; the holder of `marked_sweep_mutex` |
| `flagged`, `marked` | `MARKED_FLAG`; `marked_memory` |
| `mst`, `work`, `cur` | stage of each mark thread, what its recursion has still to visit, the block tested and not yet marked |
| `allocated_mutex`, `marked_mutex` | holders |

An instruction is an action of its thread; a block of the code between two lock
operations is one action of the collection or a mark thread.  The recursion of
`CheckObject` is a set of words, so every order of the visit is covered.  A
word carries how the code knows it: by the declared type of the variable it was
read from, or "raw" for an operand stack, a temporary, or an element of an
array met through one.  A declared instance is recognised by its `TYPE` word, a raw
one by `binary_search` in `allocated_memory`; arrays go
through `MarkValidMemory`, which holds `allocated_mutex` until it has marked.
`Search` may miss when something was appended since the sort, and what is then
scanned is any part of the contents (`Scans`).  `GetBlock` may hand out a
block with a flag left over by an earlier life, or clean: both the pool and
`calloc` are covered.  What instruction a program executes next, and with which
operands, is free, within the compiler's typing (`Fits`): only an instance or null
goes into a variable declared as one.  Integers enter the operand stack by `LoadInt`
and can have the bits of an address.  An access to a null instance stops the program and has no step.  An access to a
null array prints and goes on, with the array popped and the index still on the operand stack (`interpreter.cpp:1855`,
`interpreter.cpp:1882`): to the collector that is a `Pop` and a `LoadInt`, which may follow each other anyway.  What a program does that
then takes the index for the element is not modelled.

### MemoryPools

`Check` is the test at the top of `AllocateObject` and `AllocateArray`, `Top` and
`PopPool` are the two halves of taking a block from a pool, `Calloc` the other case,
`Record` the code under `allocated_mutex`.  `StartSweep`, `SweepBlock` and
`FinishSweep` are the sweep, one block at a time, with what the marks kept left to
the program (`kept' \in SUBSET allocated`), so every history of collections is covered.
`asked` stands for the `TYPE` and `SIZE_OR_CLS` words, `cache` for the
`CACHE_SIZE` word, `dirty` for blocks that hold something.  Sizes are in
bytes, and both word lengths of the build and the doubling under `_X64` are there.

### Interpreter

`levels[t]` is the machine stack of a thread: interpreters and native code, the
innermost last.  An interpreter has its current frame and, on amd64, its own call
stack; on ia32 and arm32 the nested interpreter is given the call stack of the first one
(`OwnStack`, `StackAt`).  `StackCallback` starts a nested interpreter with a frame marked
`jit_called` and one instruction to execute (`pc = "call"`); `LeaveToNative` is the test
after each call and return.  `ProcessReturn` is two actions, `ReleaseStackFrame`, after
which other threads can take the frame, and `RestoreCaller` or `LeaveInterpreter`.
`Exceeded` and `Fails` are the `exit` calls.  Which frame of the cache is taken is
left open.

### Concurrency

| State | Code |
|---|---|
| `id` | slot 0 of a `Thread` object (`Thread:@id`) |
| `mutex`, `holder` | the variable `critical` is about; the `pthread_mutex_t` in a `ThreadMutex` |
| `state`, `self` | a pthread that is free, runs, or has ended and was not joined; `ThreadHolder::self` |
| `pc`, `object`, `thread`, `operand`, `sum` | the instruction a thread is in the middle of and the values it has for it |
| `inside`, `owed` | the sections a thread is in; who executed an object and has not joined it |
| `x`, `added` | a class variable, and how often 1 was added to it |

`ProcessAsyncMethodCall` starts the thread and `StoreHandle` stores its handle, with anything in
between; what `pthread_join` does on a handle that was never set, was joined, is the thread's own, or is joined by
another one at the time is in `JoinFails`, `MayJoin` and `JoinError`.  `EvaluateForStart` and
`EvaluateForEnd` are the two reads of the variable of `critical`.  The rules a program
keeps (`rules`: "joins", "sections") are a variable, chosen in `Init`, and each property says under
which of them it holds.

### Language, Source, Parser, Analyzer

`Language` has the trees of programs: integers, `true`, `false` and `Nil`, variables, fields of the object, calls
of methods of the same object, and/or, not, `c ? a : b`, assignments, pre- and post-increments, `if` chains, `select`, the
three loops, `break`, `return` and the `leaving` block; values are of type `Int`, `Bool` or the class of the object.  `Meaning` evaluates a tree directly and is not taken from code, but for the
order of evaluation (right operand first) and the early stop of and/or.  An
increment happens when its variable is evaluated; the value of a `select` is computed once.

`Source` writes a tree down by the precedence that the guide of the language gives, with no more parentheses than that
asks for.  `Parser` has one function for each function of `Parser` in the code, from a token number to a tree and the next
token number; `Then` goes on unless there was an error.  `ParseLogic` exchanges the operands of and/or, and a
not is a comparison with `true`, as in the code.  `Analyzer` goes through the statements with the state of
`ContextAnalyzer`: whether there was an error, `in_loop`, whether the method needs the word of and/or, its leaving block.
`Returns` is `AnalyzeReturnPaths`.  So the tree that `Meaning` evaluates is the one the programmer had in mind, and the
one that is emitted is what the parser made of its text.

### Emitter, Optimizer, StackMachine, Compiler

An emitter function takes and returns the state of `IntermediateEmitter` as a record:
instructions, `conditional_label`, `unconditional_label`, `break_labels`, the queue
`post_statements` (`waiting`) and the nodes whose increment was taken from them (`taken`).  Queue,
nodes and counters are kept from one method to the next, as in the code.  `EmitTree`, `SelectTree` and
`EmitNode` are the search tree of `SelectArrayTree`.  A
pass of `Optimizer` is one step on an instruction (`Step`), taken from front to back of the block
(`Through`, whose recursion is by halves only to keep it flat): `out` is
`outputs`, `work` is `working_stack`.  `Effect` is what an instruction does to operand stack,
locals and fields; the actions of `StackMachine` apply it to the state, and the theorems about
adjacent instructions (in `NativeCompiler_proofs`) are about it.  There is one object, `Instance`.  A shift, an addition and so on are on
unbounded integers in the machine (the programs stay far from 64 bits), and
`Wrap` cuts the results of the compiler's own arithmetic to `IntBits`.

`Compiler` parses the class, analyses its methods (an error in either ends with "rejected", which `ResultPreserved` asks
for exactly if the program is not `legal`) and goes through the loops of `EmitClass` and of `Optimize`: all methods are
emitted, all go through the passes, then one after the other has calls
inlined, so that a later method gets an earlier one with what was put into it.  Then
the chosen method is called and executed.  `Sound` says which code is known to be wrong
(a division made a shift; `4 * @f`, whose object and field have the literal between them):
`ResultPreserved` leaves those programs out and says that nothing else goes wrong.

### NativeCompiler, NativeCode

The state of `JitCompilerIA64` is a record: `working_stack` of `RegInstr` (an immediate, a register,
a word of memory that is not loaded yet), the two register pools, the code, the places of
jumps.  `ProcessInstruction` is one turn of `ProcessInstructions`; `NextInstruction` takes one turn a
step.  `TranslationSpec` is the translation of any method by itself, `NativeCode` has it between loading and
execution.  A machine instruction is a record too, with the condition of a jump or `cmov`; the few
instructions that compute an address in the operand stack are one push or pop.  `StartNative`
is the call with its frame cleared as `AddJitMethodRoot` and the prologue do, `FallBack` the
interpreter when the translation failed.  `Compute`, `DivideAX`, `Compare`, `Branch`, `PushStack` and
`PopStack` execute the code; What waits in registers during a call is in the frame;
`StackCallback` makes every scratch register `Junk` and starts the interpreter, and `CallbackReturns` goes on.
A read of a word or register nobody has written gives `Junk`.

### Serializer

| State | Code |
|---|---|
| `heap`, `roots` | blocks as words, an array with its three header words; the objects handed to `Write` |
| `buffer` | the bytes, one token for each value |
| `todo` | what `CheckObject` and `CheckMemory`, which call each other, have still to write |
| `serial_ids`, `next_id` | the same, of `ObjectSerializer` |
| `readers` | the `ObjectDeserializer`s at work: each has its class, instance, own position and number table handed on |
| `pos`, `results` | position of the `Deserializer` object, what `ReadObject` returned |

A value is written in one step and read in one step, so that "what is read is what was written
there" is a statement about each value: a reader that finds another kind of token than it
expects ends as "garbled".  `CHAR_PARM`, `BYTE_ARY` and `FLOAT_ARY` have the control of `INT_PARM` and
`INT_ARY`.  The buffer never grows past its capacity, which the program chooses large enough.  `AllSupported`
names what the code cannot copy (section 7).

`HeapsAssumption` says what a program of statically typed variables hands over: as many words as the class declares,
an object variable Nil or an object, an array variable Nil or an array with as many words as its header says, of which
one of a single dimension has the size there twice (`mem[0]` and `mem[2]` of `ProcessNewIntArray` and its kin), and the
roots objects or Nil.  The round trip needs the latter: the reader makes the header anew from the size alone.  Behind an array of objects the code takes other words for references; of these it asks only that they
are blocks again, by the set `met` of what is met on the way.  `CanRead` spells out when the reader finds the kind
of token it wants, so that `Garble` has no ENABLED.

## 4. Runs

| Run | Instance | Shows |
|---|---|---|
| `mem_core` | one thread, 3 blocks, objects and arrays of references, 2 frames with 2 variables, any integer may equal any address | `TypeOK`, `NoDangling`, `CleanBetween`, `SingleThreaded`, `GarbageReclaimed`, `HeapSpec` |
| `mem_live` | one thread, interpreted and native methods up to depth 3, a class variable, cyclic structures of 2 blocks, `FairSpec` | `AllocationReturns`, `NoDangling` |
| `mem_threads` | two threads in interpreted and native methods, 3 blocks, deadlock checked | `NoLockCycle`, `OneCollector` |
| `mem_opstacks` | two threads | finding: operand stacks of other threads are not read |
| `pools` | 32-bit, one block per pool, 2 blocks of calloc, two threads of which one uses the pools, all sizes at the borders of pools, a long of 11 bits | `TypeOK`, `HandedOut`, `PoolsConserved`, `SizeAccounted`, `ThresholdFloor` |
| `pools_drift` | 64-bit, one thread | finding: `allocation_size` drifts |
| `calls` | two threads nested to 5 and 2 levels, call stack of 2, a cache of 2 frames that is refilled twice, with a call stack per thread and per interpreter | `TypeOK`, `FramesOwned`, `TrampolinesMatch`, `CallsSpec` |
| `threads` | two `Thread` objects, two handles besides the main one, two mutexes, programs with every set of rules | `TypeOK`, `Counted`, `JoinsSucceed`, `JoinSound`, `WaitsEnd` |
| `compile` | 1003 programs from their text at levels 0 to 3, 32 of them to be refused: all operations on 3, 4, a parameter, a field, getters, and operations on these; 7 bodies with each of 21 conditions, some with side effects; callers and callees in both orders; `select` with 1 to 7 labels, every label and every gap between labels hit; increments of variables and fields; `?`, not and and/or in each other; Bool and object values; methods that return on some or all of their paths | `TypeOK`, `ResultPreserved`, `StackBalanced`, `FramesScanned`, `LabelsDistinct`, `Ends` |
| `native` | the programs of `compile` with statements, calls, increments, selects, choices, objects and return paths, and others that use up the registers, divide and shift in all of them, keep objects in the frame, divide by zero; levels 0, 2, 3 | `NativeTypeOK`, `RegistersConserved`, `StacksMeet`, `NativeAsMeant`, `NativeRootsFound`, `NativeEnds` |
| `serial` | all graphs of three nodes with one reference and several patterns of a second one, objects with arrays of their own, shared, none and empty, one to two roots, values at the limits of the int | `TypeOK`, `NumberedOnce`, `RoundTrip`, `InStep` |
| `strength` | `x / 4` and `4 / x`, levels 1 and 2 | finding: strength reduction changes quotients |

Every property of a passing run has a mutant in `PROJECT.json`: a change to one mapped
definition of the kind a slip in the code would be (a mark thread that is not joined, a sweep
that does not clear a flag, an off-by-one in the pool limits), which the same run refutes.

Bounds, and why they are enough:

- `Addr`: three blocks make a cycle, a chain, a kept and a freed neighbour, and a block
  that is recorded while others are marked.  Blocks are symmetric.  `mem_live` has no symmetry, as liveness
  asks, and two blocks, enough for a cycle.
- `MaxOp = 2`: a store needs two operands; an allocation a free slot.  The stack has a
  further slot, the one above the top that `CheckStack` reads.
- `MaxCalls`: `Main` is at depth two before its first call (`Init`), so one more call is
  already a frame below the current one; with the top one of each kind.
- In `mem_threads` the first thread has three frames and the one it starts a single one: both allocate, one
  collects while the other waits or goes on.
- `CollectAt` replaces the size check by "a collection may be asked for once so many blocks are in use"; the
  check itself is in `MemoryPools`.
- `Fields`: one per object suffices, since contents are visited as a set; the proofs cover any number.
- Primitive arrays (`intary`, `bytes`) would multiply the instances and are left to the proofs.
- `MaxSize` is where allocations stop.  `LongLimit = 1024` with `MemMax = 192` stands for 2^31 and the 3 * 2^20 of `MEM_MAX`: the first
  raise, to 768, fits and comes down again; a second one overflows, and the run goes on with the negative threshold, and
  with an `allocation_size` that has overflowed.  No bound is on `mem_max_size`.
- `PoolSize = 1`, thresholds of 1 for both counters: full, empty, at and over the limit.
- `CallStackSize`, `MaxLevels`: small enough for the stack to be full with native frames in between.
- `Fuel`: threads started, sections entered and values added together; 7 for programs that keep all rules, so that
  both handles are used again, fewer for those that may do anything, which go wrong after two.
- The programs of `compile` are depth two in expressions, so that each pass meets
  each pair and triple of neighbours it looks for, and conditions up to three tests; arguments are one negative and one
  positive number. 4 is a power of two, 3 is not. `IntBits = 16` and `LocalSize = 12` are wider than
  the programs need; `LoclInlineMemMax` is that of the code.
- `native`: eight registers are in the pools, and values are nested to depth 8, so that they are used up.  `Junk`
  is no value of a program, `Instance` no number of one.
- `serial`: `IntBits = 4`; three blocks have every cycle and sharing of two references.

`CHECK_DEADLOCK FALSE` is set for `pools` and `pools_drift` (a bound on the sizes stops the
allocations), for `calls` (the process exits) and for `threads` (a program that keeps no rules may block
itself; that those that do keep them go on is `WaitsEnd`).  The memory runs check for deadlock.

## 5. Fairness

`FairSpec` asks for weak fairness of each allocating thread, of the collection thread and
of each mark thread: they are POSIX threads that the scheduler runs when they are
runnable.  A mutex is taken in one step when free; nothing that holds one waits for
another mark thread for ever, and in `mem_live` weak fairness is enough because only the
collection and one thread compete.  Nothing makes the program execute an instruction.
In `compile` it is the interpreter that goes on (`WF_vars(RunNext)`): its loop does nothing else; in
`native` the processor and the interpreter (`NativeStep`, `Interpret`).  In `threads` every thread that can go
on does (`WF_vars(Step(h))`): weak fairness is enough, since the threads stop entering sections when `Fuel`
is used up, and so nobody takes a mutex again for ever.  The mutexes of the system promise no more, and with
endless competitors a thread could wait for ever.

## 6. Proofs

All proofs are checked by TLAPS for every value of the constants that satisfies the
`ASSUME` of the module; some theorems assume a program of one thread, which is
stated as an `ASSUME ... PROVE` of the theorem.

| Theorem | Says | Assumes |
|---|---|---|
| `CollectorsExcluded` | `[]OneCollector` | - |
| `LockOrder` | `[]NoLockCycle` | - |
| `NoUseAfterFree` | `[]NoDangling` | `Threads = {Main}` |
| `FlagsCleared` | `[]CleanBetween` | `Threads = {Main}` |
| `MarkingLosesNothing` | `[]SingleThreaded` | `Threads = {Main}` |
| `HeapImplemented` | `HeapSpec` | `Threads = {Main}` |
| `CollectionComplete` | `GarbageReclaimed` | `Threads = {Main}` |
| `BlocksHandedOut` | `[]HandedOut` | one thread |
| `PoolsKeepBlocks` | `[]PoolsConserved` | one thread |
| `PoolsTypeCorrect` | `[]TypeOK` of the pools | - |
| `SizesAddUp` | `[]SizeAccounted` | one thread; no instance is charged double |
| `ThresholdNeverBelow` | `[]ThresholdFloor` | - |
| `InterpretersTyped` | `[]TypeOK` of `Interpreter` | - |
| `FramesNeverShared` | `[]FramesOwned` | - |
| `NativeCallsReturn` | `[]TrampolinesMatch` | - |
| `CallsImplemented` | `CallsSpec` | - |
| `ThreadsTyped` | `[]TypeOK` of `Concurrency` | - |
| `NoneLost` | `[]Counted` | - |
| `EveryJoinReturns` | `[]JoinsSucceed` | - |
| `JoinsCorrect` | `JoinSound` | - |
| `BlocksNumberedOnce` | `[]NumberedOnce` | - |
| `SerializerTyped` | `[]TypeOK` of `Serializer` | - |
| `SerializerInStep` | `[]InStep` | - |
| `SerializerRoundTrip` | `[]RoundTrip` | - |
| `TranslationConserves` | `[]RegistersConserved`, of `TranslationSpec` | `[]Supplied` |
| `StoreLoadIsCopy` | store and load of a local are `COPY_INT_VAR` | an operand on the stack |
| `LoadStoreIsNothing` | load and store of a local do nothing | - |
| `FoldedLiteral` | two literals and an operation are one literal | value not cut to an int |

*Types and locks.* That `TypeOK` holds is a lemma (`TypeCorrect`); the bounds of the operand stacks in it come from the guards of the model's
instructions.  `TypeOK /\ Control` is inductive: `Control` says where a thread and the
collection stand together, which is what `Top(t)` and the frame of `t` need to be defined.
`Locks` says that a mark thread holds `allocated_mutex` only in `MarkValidMemory`,
and the sweep `marked_mutex` only after the joins: by `AllJoined` no mark thread is
alive then, so `NoLockCycle`.

*Safety of the collector.* `NoDangling` alone is not inductive: that the sweep takes nothing
reachable depends on the whole mark phase.  `SingleThreaded` adds that the program is well typed
(`StaticsGood`, `FramesGood`, `StackGood`, `BlocksTyped`), what holds
in each stage (`Phases`), and the tri-colour invariant `Tricolour`: once a mark thread
has read its roots, every root and everything a flagged block refers to is `Covered`, that
is flagged or pending in some mark thread.  The unlocked test of the flag is harmless because a
thread that finds the flag set relies on a thread that still has the contents
pending.  With all mark threads done nothing is pending, so the flagged blocks are closed
under reference and contain the roots (`MarkedComplete`), and the sweep keeps what is needed
(`NoneDangling`).  The assumption of one program thread is what makes the roots stand still while they are marked;
`mem_opstacks` shows that without it the statement is false.

*The heap.* `HeapImplemented` shows each step of `MemoryManager` to be one of `AbstractHeap` or none.  Reachability is a
least fixed point, the intersection of all closed sets of blocks, so nothing is proved about it by induction: an instruction moves references it
reads from blocks that are reachable, so what it moves is (`ReachEdges`); and at the sweep the flagged blocks are a closed
set with the roots in it (`MarkedComplete`), so what is not flagged is out of reach.  A new
block was not in use and refers to nothing, which `AbstractHeap` asks for because otherwise a stale
word could bring an old graph back.  `CollectionComplete` is the other direction: `OnlyReached`, that whatever is flagged or pending in a
mark thread since the collection began is led to by some word, is an invariant of every order in
which the four threads mark, because the program stands still meanwhile.

*Pools.* `PoolsInv` says what is true of a block in a pool, in use, and in the hands of an
allocation at each of its stages; `HandedOut` and `PoolsConserved` are consequences.

`ThresholdFloor` is not inductive: nothing puts `mem_max_size` back to `MEM_MAX`, the sweep halves it whenever it is not equal
to it (`memory.cpp:803`), so a threshold that is not `MEM_MAX` doubled some number of times would sink past it.  `Rises` is that chain
of doublings, whose last link is dropped or two more added.  `<<= 2` does both only if it does not overflow.  The code does not look, so the
property says until when it does not: `large` is a history variable, set when a collection is asked for with a quarter of a
long or more wanted.  Until then `RoomToShift` holds: who asks wants more than the threshold, so four times the threshold is in range; and
that is still so when it comes to shift, because nobody else changes `mem_max_size` before it gives `marked_sweep_mutex` back
(`CollectorInv`).  Neither the number of threads nor the width of a long matters.

A long is `Long(n)`, of which the proofs need that it is in range, that it leaves alone what is in range, and that
an overflow on the way does not change a sum (`LongAdds`).

`SizeAccounted` says nothing while a sweep runs, so its invariant `SizeInv` is about the blocks in use: those the sweep has
not come to and those it keeps.  That the sum over a set of blocks grows and shrinks with its elements, in whatever
order the community module adds them up, is `TotalAdds`.

*Calls.*  `IInv` has four parts.  `Threading` gives the shape of each thread's levels: interpreters and native code
alternate (`Nested`), and where the frames marked `jit_called` are.  The last depends on the build: with a call stack
for each nested interpreter (`OwnStacks`) one is at the bottom of each nested stack and nowhere else; with one call stack
for all of them (`SharedStack`) they are on it among the others, and what keeps the interpreter from leaving
past its start is that the first frame of a thread is never one.  `Marked` counts: as many marked frames as native methods that wait.
`Ownership` says that the chains of the threads and the cache share no frame and no chain has one twice; `Kept`, that a frame is in one of
them, unless some thread that `HaltAll` stopped has ended - it is the only one that goes without giving its frames
back.  The frames of a thread are `FlattenSeq` of its call stacks; what a push, a pop, a new level or one less does
to that is a lemma each (`FlatGrown`, `FlatCut`, ...).  `TrampolinesMatch` needs only the number of marked frames; that calls return
to the right method needs to know which native method each stands for: `Matching` (`Paired`) is a monotone one-to-one map
from the native methods that wait to the marked frames, with the method of each.  With it a callback and the
way back to native code change nothing in `Activations`, and every other step of the code is one call, one return, a stop
or nothing.

*Induction.*  The induction theorems of the library take an operator and are out of reach.  Where a proof needs one - sums,
`FlattenSeq`, which are recursive functions in the community modules - it takes the smallest number of a set
(`SmallestNumber`, `LeastNumber`, from `WFMin` and the well-founded order on the natural numbers), or the
smallest set (`LeastSet`).  `FoldTheorems` does it the other way: the operator is a CONSTANT of the module, and a proof takes an
instance of it for the operator it folds, a property as the set of numbers that have it.  `FoldLeft` is defined by
choosing an element that is left, and then another; `LeftLast` says that this takes the sequence in order, because the greatest
number is what `CHOOSE` finds.

*Registers of native code.*  `RegistersConserved` counts, and only between two instructions.  `Conserved` says who has what: `Owned(c, hand)`
divides the registers of the pools into those that are free, those of the working stack, each of one entry, and the
`hand` of the operation at work.  There is one lemma for each operation, from `GetRegister` up to
`ProcessStackCallback`, of what it takes into its hand and gives back; between two instructions the hand is empty.  A
comparison that was made one with its jump leaves a flag, which is right only if a jump comes next (`JumpNext`).  What the compiler of
the virtual machine must have done for that is `Supplied`: known instructions that find their operands on the working
stack, parameters stored first, and the object of a `COPY_INT_VAR` not in a register (`ProcessCopy` would
lose it).  The theorem takes it as a hypothesis, and `native` checks it of every program, in `NativeTypeOK`.

*Threads of a program.*  For `Counted` the invariant is that the one mutex is held by whoever is in a section and that
a thread between its load and its store is in one (`CountInv`); that the variable does not change once
threads run is what makes the two evaluations of `critical` agree.  `JoinInv` is about who owes which join: what an
object that is still to be joined holds, or is about to be given, is the handle of the thread last
started from it (`Started`), no two such handles are equal although values are used again (`Distinct`), no two threads owe
each other (`Acyclic`), and every thread that runs is owed by somebody (`Known`), so that `Main` cannot end before it.

*Serializer.*  `NumberInv` adds to `NumberedOnce` that the numbers given are below the next one at every stage of the
writing; when the next object begins both are reset.

`TypeOK` looks like a matter of types and is not: that the instance a reader fills in is a block of the heap and that its
offset is within the buffer takes an account of both halves.  `Walk(h, met)` follows one program `h`: the blocks that were
written are as they were and readers fill in only others (`Keeps`, `IsReader`), `met` is closed under what the
serializer visits (`Closed`), and what is left to be written is from there (`Fitting`).

`InStep` relates what is read to what was written long before, through readers of which each has its own offset and goes on
with the one it is handed back.  `Exact` keeps the whole writing: `Script` is a set of configurations of the writer - what is left
to write, the numbers given, the position in the buffer - that begins with the first graph and is closed under the
step of the writer (`After`), each with its tokens in the buffer at its position.  While things are read, `Follow`
puts the readers against one of these configurations: the innermost reader stands where the writer stood, its number
table has the numbers given by then, and what the writer had left is what the readers have left, from the
innermost to the outermost, one after the other (`FrontOf`).  A step of the reader then is the step of the writer at that place, or begins or ends a
reader, where both lists are the same list divided in another way (`VariableRead`, `NewObject`, `OldObject`, `InnerBegins`,
`ObjectEnds`).  So a token of the wanted kind is always ahead (`ReadsOn`), and after the last graph the position is the
end of the buffer.  This holds of graphs without an array of objects (`Good`).  `AllSupported` says so in terms of what is
reached: `Layout` and `InPlace` show where the words of a variable are, and `RoundsEnd` that as many rounds as there
are blocks find everything, since a set that grows in each of them would have more elements than there are blocks.

`RoundTrip` is about the end, when the readers that knew the numbers are gone, so the invariant (`Same`, `Work`) says at every
moment what the copies made so far are.  The readers at work share a one-to-one map `m` from the blocks numbered so far to
blocks that were not there before (`Copying`): a block that is finished has its twin, with each word the same or, where it
refers to something, the twin of that (`Twins`, `Right`); of a block at work this holds up to the variable its reader has come
to (`Filling`), and the word an outer reader waits for is still to be given the twin of the block the next reader fills in
(`Waits`, `Placed`).  The number table of the innermost reader is `m` written with numbers (`Mapped`).  When the
last reader of a graph ends, every block that was numbered is finished, so `m` is a copy of a set that is closed under
references (`GraphCopied`); later graphs are read into other blocks and leave it alone (`Remain`).  `WholeCopied` takes from that set what
is reached from the root: reached in a number of rounds on either side, and a closed set holds all that is reached.
That no value is cut on the way (`Neat`) follows from what `AllSupported` says of the blocks reached (`NeatMet`).

*Neighbouring instructions.* The last three of the table say, for every operand stack, frame and object, why the
rewritings of three passes are right where they apply; that the passes apply them only there is
checked by `compile`.

Only model-checked: everything about `Compiler` and `NativeCode` but for the registers (the trees, the emitter and the passes are recursive
operators, which the prover does not take: no theorem can be stated about a module that has them),
liveness (`AllocationReturns`, `WaitsEnd`, `Ends`, `NativeEnds`) and whatever is said with ENABLED, which the prover does
not do.  The theorems that assume one thread stay open for several: there the runs that expect a violation show what
fails.

## 7. Where the code and its documents disagree

- `mem_opstacks`: `CheckStack` reads the operand stack of the collecting thread only
  (`memory.cpp:862`); `fixes.txt:45` notes "scan stack memory for threads op_stack,
  stack_pos; frames are okay".
- `pools_drift`: on 64-bit builds an object is charged twice its class size
  (`memory.cpp:295`) and its class size is given back (`memory.cpp:705`), under the
  comment "account for deallocated memory".

- `strength`: release note `docs/release notes/r3.1.1_0.txt:13` says "Strength reduction
  optimization bug was resolved", but `4 / x` becomes `x >> 2`, and -5 / 4 is -2 at level 2
  and -1 at level 1.

Known from the models, without a run:

- Parser. The guide gives `&` and `|` the same precedence from left to right; `a & b | c` is read as `a & (b | c)`.  `<> a & b`
  is the negation of all of it, `a & <> b & c` of `b` alone, and `<> a ? b : c` is refused.  A pre-increment before a
  call is dropped (`ParseName`).  `Source` puts parentheses in those places.
- Context analysis.  `in_loop` is off behind a loop, so a `break` behind an inner loop is refused (`context.cpp:2934`).  A
  chain with two `else if` that returns on each path is refused (`context.cpp:901`), and a `select` is believed to return if each of its labels
  does, whatever `other` does.  `obj += obj` passes, as an assignment would, and adds addresses; the condition of `?` may have any type.
  The programs of `compile` keep clear of these, but for the refused ones.
- Optimizer. `4 * @f` takes the literal for the object at level 2 (`FieldShifted`).  `optimization.h:105` says "don't
  inline the same method more then once, since you'll have label/jump conflicts"; it happens by way of another
  method, when a caller of B and A has B inlined and then A, which contains B.  The collector does not find
  references in inlined locals (`Inlined` in `FramesScanned`).
- Increments.  A post-increment waits for the end of the next statement that ends.  In the condition of an `if`, `while`
  or `for` it comes after the first statement inside; in a `return` it comes behind `RTRN`, where nothing
  executes it, and when that method is inlined the last instruction that is left out is the increment's and
  not `RTRN`; of two in one statement the second comes after the following statement, even one of the next
  method.  A pre-increment of a node that is emitted more than once, in a `leaving` block or the expression of a
  `select`, is emitted the first time only (`intermediate.cpp:3366`).  The programs of `compile` have increments everywhere else.
- `select` evaluates its expression anew at each comparison, so an expression with side effects has them several times.
- Native code.  A load of a local is put off until it is used, and a store to the local in between changes
  it: `++x - x`, or two and/or in one expression (`Stale`).  `SHR_INT` is logical in native code and arithmetic in the
  interpreter.  A method that needs more registers than there are is interpreted.  There is no check for a
  zero divisor, the processor traps.  `CheckJitRoots` walks the declarations over words that are
  numbered by use: a declaration that nothing uses moves the others (`LaidOut`).  The
  register a callback takes for its address may be R8, in which an argument was put before (`jit_amd_lp64.cpp:1582`, `jit_amd_lp64.cpp:1591`);
  the callbacks of the model do not use that argument, and argument registers are not in it.  `Sleep` does not multiply by 1000
  in native code, so that it sleeps for microseconds where `lang.obs` says milliseconds.
- Threads.  A handle is no identification: after a join its value is used for a new thread, so an object that is
  joined twice may join another one's thread (`JoinError` and `JoinSound` under the rule "joins").
- Serializer.  An instance variable that is an array of objects is passed over without moving on, so that later ones are written from
  the word before theirs (`SkipDeclaration`, and `NoClass` or `Garble` when reading).  Arrays of more than one
  dimension lose elements, as the number written is of the first word and the header is longer; character arrays end at a zero;
  integers wider than `INT_VALUE` are cut.

## 8. What is not modelled, and why

Data: the bytes of blocks, strings, floating point; multi-dimensional array headers.  The virtual-method cache.
Of the instructions arrays, floats, conversions and function references.  Of the native compilers those for ia32 and
arm32, which have the structure of the one for amd64 with other registers, and of that one floats, arrays and the
instructions that only call back.
Traps (but for the serializer), loader, drivers and extension libraries are I/O.
The Windows memory manager is a port of the POSIX one.
Of the compiler: arrays, strings, floats, the code of `critical` (its effect is in `Concurrency`), function
references, virtual and static methods, several classes, libraries, linker, target; of the scanner the characters, of the
parser what it says after the first error.
`StackMachine` faults where the address is not that of the object; the real machine checks only for Nil. Integers stay far from 64 bits.
The shift of a signed long that overflows (`memory.cpp:798`) is undefined in C++; the model truncates, which is what the processors do.
Native code has its own cases of joining and of `critical` (`jit_amd_lp64.h:1236` to `jit_amd_lp64.h:1287`); `Concurrency` is of
the interpreter's.

## 9. Plan

Done, the most important behaviour first:

1. `MemoryManager` with `AbstractHeap`, its invariant, its safety proof and the proof that it is such a heap.
2. `MemoryPools` with its proofs.
3. `Interpreter` with `AbstractCalls`, with the proofs of both.
4. `StackMachine`, `Language`, `Emitter`, `Optimizer`, `Compiler` for integers, with `select` and increments;
   then `Source`, `Parser` and `Analyzer` before them, so that the run starts from text.
5. `Concurrency` with its proofs.
6. `NativeCompiler` and `NativeCode` for amd64 on integers.
7. `Serializer` with the proofs of its numbering, its types, that reader and writer are in step, and of the round trip.

Next:

8. Proofs: what each step of `StackMachine` does to the depth of the operand stack, the part of `StackBalanced` within the
   prover's reach.
9. Arrays with their bounds checks and floats in `Parser`, `Analyzer`, `Emitter`, `StackMachine` and `NativeCompiler`.
10. Library: the balanced tree of `Map` against a set, `Hash` against a function; debugger
    stepping against the call depth; linker and dispatch of virtual methods.

Composition: `NativeCode` is `Compiler` (with `Parser`, `Analyzer`, `Emitter`, `Optimizer` and `StackMachine`) and `NativeCompiler`.
`Interpreter` and `MemoryManager` share frames and are to be joined at the registration of roots.
