\* Keyboard input and the status reports it causes; CONOUT, which nobody opens, and
\* CONERR.
SPECIFICATION FairSpec
CONSTANTS
  OutPipes <- WithConerr
  InPipes <- Inbound
  IoSize = 1
  Quota = 1
  ClientPipes <- InputAndError
  ClientRequests <- SpawnOrList
  PlainMode = FALSE
  MaxScreen = 0
  MaxToggles = 0
  MaxTyped = 1
  MaxCalls = 1
INVARIANTS
  NothingLeftQueued
PROPERTIES
  InputTaken
CHECK_DEADLOCK FALSE
