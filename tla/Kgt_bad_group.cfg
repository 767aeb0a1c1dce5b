SPECIFICATION Spec
CONSTANTS
  MaxAlphas = 2
  Grammars <- UndefinedInGroup
  Options <- CheckUndefined
INVARIANTS
  UndefinedTold
