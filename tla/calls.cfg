SPECIFICATION Spec
CONSTANTS
  f1 = f1 f2 = f2 f3 = f3 f4 = f4 f5 = f5 f6 = f6 f7 = f7 f8 = f8
  main = main run = run m = m n = n
  Threads = {main, run}
  Main = main
  Methods = {m, n}
  Native = {n}
  Frame = {f1, f2, f3, f4, f5, f6}
  NoFrame = NoFrame
  Preload = {f1, f2}
  Refill = 2
  CallStackSize = 2
  MaxLevels <- Levels
SYMMETRY Frames
CHECK_DEADLOCK FALSE
INVARIANTS TypeOK FramesOwned TrampolinesMatch
PROPERTY CallsSpec
