SPECIFICATION FairSpec
CONSTANTS
  MaxAlphas = 2
  Productions <- CountsProductions
  Limit = 2
  MaxWord = 7
PROPERTIES
  CosmeticWhereSound
  TransformKeepsMeaning
  PassReachesFixpoint
  Termination
