SPECIFICATION Spec
CONSTANTS
  MaxAlphas = 2
  Productions <- TurnAtTheEnd
  Limit = 20
  MaxWord = 2
INVARIANTS
  NoCrash
