SPECIFICATION Spec
CONSTANTS
  MaxAlphas = 2
  Productions <- CoreProductions
  Limit = 20
  MaxWord = 5
INVARIANTS
  TypeOK
  NormalForm
  NoCrash
PROPERTIES
  CosmeticWhereSound
