SPECIFICATION FairSpec
CONSTANT Drawings <- MCDrawings
INVARIANTS
  WithinRows
  Apart
  JoinedOtherwise
  NothingLost
PROPERTIES
  Termination
