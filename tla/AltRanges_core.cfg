SPECIFICATION Spec
CONSTANTS
  MaxChar = 10
  Chars = {0, 1, 2, 3, 4, 5, 6, 7, 8, 9, 10}
  Classes <- MCClasses
  Named <- MCNamed
  Other = Other
  Lists <- MCLists
INVARIANTS
  TypeOK
  Fits
  LinesRight
  EverythingShownOtherwise
