SPECIFICATION Spec
CONSTANTS
  p16 = p16 p32 = p32 p64 = p64 p256 = p256 p512 = p512 c1 = c1 c2 = c2
  t1 = t1 t2 = t2 NoBlock = NoBlock
  Addr = {p16, p32, p64, p256, p512, c1, c2}
  Threads = {t1, t2}
  Pool <- OneEach
  PoolSize = 1
  Requests <- Requests32
  Word = 4
  X64 = FALSE
  LongLimit = 1024
  MemMax = 192
  UncollectedCount = 1
  CollectedCount = 1
  MaxSize = 550
SYMMETRY Heap
CHECK_DEADLOCK FALSE
INVARIANTS TypeOK HandedOut PoolsConserved SizeAccounted 
