SPECIFICATION FairSpec
CONSTANTS
  MaxAlphas = 2
  Grammars <- CoreGrammars
  Options <- CoreOptions
INVARIANTS
  TypeOK
  ErrorOrder
  UndefinedIsTrueOtherwise
  LinkedToGrammar
  HasAlternativesOtherwise
  OnlySupported
  InvisibleIsGone
PROPERTIES
  ImplementsConversion
