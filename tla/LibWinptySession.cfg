\* Two threads, three calls, an agent that may be slow, hang or die.
SPECIFICATION FairSpec
CONSTANTS
  t1 = t1
  t2 = t2
  Threads <- TwoThreads
  Kinds <- AllKinds
  MaxCalls = 3
INVARIANTS
  AnswersOwnCall
PROPERTIES
  ClosedOnlyForCause
  ImplementsSession
  CallsReturn
CHECK_DEADLOCK FALSE
