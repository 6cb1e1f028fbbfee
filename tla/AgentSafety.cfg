\* One output pipe that holds one item: two changes and a mouse mode to send.
SPECIFICATION Spec
CONSTANTS
  OutPipes <- WithoutConerr
  InPipes <- Inbound
  IoSize = 1
  Quota = 1
  ClientPipes <- OutputOnly
  ClientRequests <- AllRequests
  PlainMode = FALSE
  MaxScreen = 2
  MaxToggles = 1
  MaxTyped = 0
  MaxCalls = 1
INVARIANTS
  NoOutputLost
  MouseOffAtEnd
  PipesStayConnectable
  KillsOnlyWhenHungUp
PROPERTIES
  ImplementsSession
CHECK_DEADLOCK FALSE
