SPECIFICATION Spec
CONSTANTS
  a1 = a1 a2 = a2 a3 = a3 
  main = main run = run self = self param = param s1 = s1 f1 = f1
  Addr = {a1, a2, a3}
  Null = Null
  Threads = {main}
  Main = main
  Statics = {}
  Locals = {self, param}
  Self = self
  Param = param
  Fields = {f1}
  Decl <- ArrayDecl
  Kinds = {"obj", "objary"}
  Ints = {a1, a2, a3}
  NoJit = TRUE
  CollectAt = 2
  MaxOp = 2
  MaxCalls <- TwoCalls
SYMMETRY Blocks
INVARIANTS TypeOK NoDangling CleanBetween SingleThreaded
PROPERTIES GarbageReclaimed HeapSpec
