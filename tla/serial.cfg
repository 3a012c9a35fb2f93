SPECIFICATION Spec
CONSTANTS
  Classes <- SmallClasses
  Heaps <- SmallHeaps
  IntBits = 4
INVARIANTS TypeOK NumberedOnce RoundTrip InStep
