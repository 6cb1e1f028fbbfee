SPECIFICATION FairSpec
CONSTANTS
  BUFFER_LINE_COUNT = 14
  SYNC_MARKER_LEN = 1
  SYNC_MARKER_MARGIN = 1
  MAX_CONSOLE_WIDTH = 400
  MAX_CONSOLE_HEIGHT = 8
  Sizes <- MCSizes
  StartSizes <- MCStartSizes
  Monitor <- MCMonitor
  Consoles <- MCConsoles
  MaxResizes = 2
  MaxProgram = 2
INVARIANTS
  WindowAndFontRight
PROPERTIES
  CursorStaysVisible
  ResizeSettles
