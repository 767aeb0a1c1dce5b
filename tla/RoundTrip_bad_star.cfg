CONSTANTS
  Asts <- SmallAsts
  HandAsts <- ByHandAsts
  Bufs <- NoBufs
  PatternSize = 8
  CountWidth = 4
  WordLength = 4
  MaxAlphas = 2
SPECIFICATION Spec
INVARIANTS
  StarsWritten
