SPECIFICATION Spec
CONSTANTS
  MaxAlphas = 2
  Productions <- OptionInAlt
  Limit = 20
  MaxWord = 6
PROPERTIES
  CosmeticOnly
