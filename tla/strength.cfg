SPECIFICATION Spec
CONSTANTS
  Instance = 1000
  LocalSize = 12
  IntBits = 16
  LoclInlineMemMax = 128
  Programs <- DivisionPrograms
  Levels = {1, 2}
INVARIANT ReductionPreserves
