\* The timer, the keyboard and two lines of the second controller, the last of
\* which the stubs confuse with its neighbour.  Requests are bounded, a faulty
\* system stops.
SPECIFICATION Spec
CONSTANTS
  Lines = {0, 1, 8, 14}
  Workers = {w}
  MaxRequests <- TwiceTimerAndKeys
CHECK_DEADLOCK FALSE
INVARIANTS
  InterruptsEndTheirOwn
  BootOrder
PROPERTIES
  RequestsAreServed
  KeysAreRead
