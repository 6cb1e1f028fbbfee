\* Windows before 10 and 10: two rows over a buffer that holds two markers.
SPECIFICATION FairSpec
CONSTANTS
  BUFFER_LINE_COUNT = 6
  SYNC_MARKER_LEN = 1
  SYNC_MARKER_MARGIN = 1
  Rows = 2
  MaxPrinted = 7
  MaxClears = 1
  MaxRewrites = 1
INVARIANTS
  TrackingSound
  NoLineSkipped
PROPERTIES
  OnlyFloodsLoseTrack
  WindowSent
  TerminalCatchesUp
