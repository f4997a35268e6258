SPECIFICATION Spec
CONSTANTS
  Word = 64
  HalfWord = 16
  PointerSize = 1
  VGA_WIDTH = 4
  VGA_HEIGHT = 2
  TabStop = 2
  Byte = 4
  BufferSize = 8
  Tasks = {"init", "second"}
  Scripts <- MCScripts
  PanicMessage <- MCPanicMessage
  PanicPlace <- MCPanicPlace
  Nobody = Nobody
INVARIANTS
  NumbersReadBack
  ScreenShowsPaper
  CursorOnScreen
PROPERTIES
  PanicIsShown
CHECK_DEADLOCK FALSE
