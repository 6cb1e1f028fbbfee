SPECIFICATION FairSpec
CONSTANTS
  Scripts <- MCScripts
  Starts <- MCStarts
  Modes <- MCModes
  MaxDisturbances = 1
  MaxWire = 2
  MaxPiece = 1
  DsrReplies <- MCReplies
  WindowRect <- MCWindow
  Layout <- MCLayout
INVARIANTS
  KeysAsTyped
  RecordsTrue
  TablesRightAtStart
PROPERTIES
  QueueDrains
CHECK_DEADLOCK FALSE
