SPECIFICATION Spec
CONSTANTS
  Tnodes <- MCTnodes
  Parts <- MCParts
INVARIANTS
  TypeOK
  WithinTile
  EndsLevel
  TracksJoined
PROPERTIES
  NoOverdraw
