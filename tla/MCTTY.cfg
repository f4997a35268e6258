\* Two lines of two cells in a ring of two screens, which MaxPos lets wrap.
SPECIFICATION Spec
CONSTANTS
  rows_ = 2
  cols_ = 2
  Screens = 2
  TabStop = 2
  Blank = blank
  Strings <- Keystrokes
  Lines = {1, 4}
  MaxPos = 18
INVARIANTS
  WindowInHistory
  ScreenIsWindow
  NoStaleText
PROPERTIES
  CursorFollowsText
