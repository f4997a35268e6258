\* A queue of two slots that four key events can fill and wrap; nothing more
\* happens once the events are used up, so the system may stop.  ctrl is the
\* right one, whose codes are extended; a code beyond the driver's table acts
\* as ctrl or as a, at the choice of what lies behind it, and is left out.
SPECIFICATION Spec
CONSTANTS
  capacity_ = 2
  Unused = unused
  ShiftKeys = {lshift, rshift}
  CtrlKeys = {ctrl}
  CharKeys = {a}
  BeyondKeys = {}
  ExtendedKeys = {ctrl}
  Prefix = e0
  MaxCounts = {1, 2}
  WireSize = 2
  MaxEvents = 4
CHECK_DEADLOCK FALSE
INVARIANTS
  KeysInOrder
  NoPhantomShift
PROPERTIES
  ImplementsFifo
  InterruptsComeBack
  KeysAreUsed
