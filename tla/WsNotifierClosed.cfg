SPECIFICATION Spec
CONSTANTS
  Handlers = {n1, h1}
  Notifiers = {n1}
  MaxMsgs = 1
  Cap = 2
  AppCloses = FALSE
  Unfit = {}
INVARIANT NotifyReturns

CHECK_DEADLOCK FALSE
