\* A fair agent thread and a client that reads.
SPECIFICATION FairSpec
CONSTANTS
  OutPipes <- WithoutConerr
  InPipes <- Inbound
  IoSize = 1
  Quota = 1
  ClientPipes <- OutputOnly
  ClientRequests <- AllRequests
  PlainMode = FALSE
  MaxScreen = 1
  MaxToggles = 0
  MaxTyped = 0
  MaxCalls = 1
PROPERTIES
  OutputEnds
  AgentGoesAway
  CallsReturn
CHECK_DEADLOCK FALSE
