\* A clear in the middle of a scrape.
SPECIFICATION Spec
CONSTANTS
  BUFFER_LINE_COUNT = 6
  SYNC_MARKER_LEN = 1
  SYNC_MARKER_MARGIN = 1
  Rows = 2
  MaxPrinted = 10
  MaxClears = 1
  MaxRewrites = 0
INVARIANTS
  MarkersStayAbove
