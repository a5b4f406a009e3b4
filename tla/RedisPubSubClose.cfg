SPECIFICATION Spec
CONSTANTS
  Channels = {a, b}
  Cap = 2
  MaxMsgs = 4
  MaxConns = 2
INVARIANT ClosedForGood
CHECK_DEADLOCK FALSE
