\* Two threads opening sessions, one agent that crashes or hangs.
SPECIFICATION FairSpec
CONSTANTS
  o1 = o1
  o2 = o2
  Openers <- TwoOpeners
  Environments <- SomeEnvironments
  MaxMishaps = 1
INVARIANTS
  DesktopsRight
  NothingHeld
  ConversionsRightAtStart
PROPERTIES
  OpenSettles
CHECK_DEADLOCK FALSE
