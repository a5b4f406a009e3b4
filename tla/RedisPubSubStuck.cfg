SPECIFICATION Spec
CONSTANTS
  Channels = {a, b}
  Cap = 2
  MaxMsgs = 4
  MaxConns = 2
INVARIANT KeepsListening
CHECK_DEADLOCK FALSE
