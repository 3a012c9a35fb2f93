SPECIFICATION FairSpec
CONSTANTS
  a1 = a1 a2 = a2 a3 = a3 
  main = main run = run self = self param = param s1 = s1 f1 = f1
  Addr = {a1, a2}
  Null = Null
  Threads = {main}
  Main = main
  Statics = {s1}
  Locals = {self}
  Self = self
  Param = self
  Fields = {f1}
  Decl <- ObjDecl
  Kinds = {"obj"}
  Ints = {}
  NoJit = FALSE
  CollectAt = 1
  MaxOp = 2
  MaxCalls <- ThreeCalls
PROPERTIES AllocationReturns
INVARIANTS NoDangling
