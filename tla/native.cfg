SPECIFICATION NativeSpec
CONSTANTS
  Instance = 1000
  LocalSize = 12
  IntBits = 16
  LoclInlineMemMax = 128
  Junk = 4444
  WordBits = 24
  Programs <- NativePrograms
  Levels = {0, 2, 3}
INVARIANTS NativeTypeOK RegistersConserved StacksMeet NativeAsMeant NativeRootsFound
PROPERTY NativeEnds
