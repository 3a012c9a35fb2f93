SPECIFICATION FairSpec
CONSTANTS
  Instance = 1000
  LocalSize = 12
  IntBits = 16
  LoclInlineMemMax = 128
  Programs <- AllPrograms
  Levels = {0, 1, 2, 3}
INVARIANTS TypeOK ResultPreserved StackBalanced FramesScanned LabelsDistinct
PROPERTY Ends
