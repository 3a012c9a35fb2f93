\* Two Thread objects, handles that are used again, two mutexes.
SPECIFICATION FairSpec
CONSTANTS
  main = main
  h1 = h1
  h2 = h2
  u1 = u1
  u2 = u2
  k1 = k1
  k2 = k2
  Handles = {main, h1, h2}
  Main = main
  NoHandle = NoHandle
  Objects = {u1, u2}
  NoObject = NoObject
  Mutexes = {k1, k2}
  Nil = Nil
  Fuel <- FuelOf
INVARIANTS TypeOK Counted JoinsSucceed
PROPERTIES JoinSound WaitsEnd
CHECK_DEADLOCK FALSE
