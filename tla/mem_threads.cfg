SPECIFICATION Spec
CONSTANTS
  a1 = a1 a2 = a2 a3 = a3 
  main = main run = run self = self param = param s1 = s1 f1 = f1
  Addr = {a1, a2, a3}
  Null = Null
  Threads = {main, run}
  Main = main
  Statics = {}
  Locals = {self}
  Self = self
  Param = self
  Fields = {}
  Decl <- ObjDecl
  Kinds = {"obj"}
  Ints = {}
  NoJit = FALSE
  CollectAt = 1
  MaxOp = 1
  MaxCalls <- MainCalls
SYMMETRY Blocks
INVARIANTS NoLockCycle OneCollector
