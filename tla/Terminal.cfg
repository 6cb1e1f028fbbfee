SPECIFICATION Spec
CONSTANTS
  MaxWidth = 3
  Height = 2
  OwnColor = 7
  Widths = {2, 3}
  MaxTop = 1
  Glyphs <- SomeGlyphs
  Modes <- SomeModes
  MaxWrites = 3
  MaxResizes = 2
INVARIANTS
  ScreenRight
  TextRightAtStart
PROPERTIES
  PlainAppends
CHECK_DEADLOCK FALSE
