SPECIFICATION Spec
CONSTANTS
  SCREEN_WIDTH = 3
  SCREEN_HEIGHT = 2
  VID_MEM_END = 13
  Glyphs = {a, b}
  Blank = blank
  FirmwareText <- FilledOrBlank
  MaxCount = 2
  a = a
  b = b
  blank = blank
INVARIANTS
  CursorInPlace
  HardwareFollows
PROPERTY ImplementsTerminal
