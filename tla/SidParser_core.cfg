CONSTANTS
  Texts <- AnyTexts
  Bufs <- CoreBufs
  PatternSize = 2
  CountWidth = 2
SPECIFICATION FairSpec
INVARIANTS
  TypeOK
  LocalsWritten
  ReadsBackOtherwise
  AssertsOtherwise
  AllReadOtherwise
PROPERTIES
  ErrorUnwinds
  Termination
