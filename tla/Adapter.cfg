\* CONOUT only, under fair scheduling; the terminal and the agent may fail, and
\* a resize may come while another is handled.
SPECIFICATION FairSpec
CONSTANTS
  Outputs <- Conout
  MaxDrawn = 1
  MaxInputs = 2
  MayFail = TRUE
INVARIANTS
  AllOutputCopied
  ExitCodeKnown
  StartsAsAskedAtStart
PROPERTIES
  SessionEnds
  SizeFollows
CHECK_DEADLOCK FALSE
