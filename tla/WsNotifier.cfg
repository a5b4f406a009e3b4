SPECIFICATION FairSpec
CONSTANTS
  Handlers = {n1}
  Notifiers = {n1}
  MaxMsgs = 3
  Cap = 2
  AppCloses = TRUE
  Unfit = {2}
INVARIANTS TypeOK HandlerRuns Conserved ClosedOnce
PROPERTIES LoopEnds EventuallyWritten
CHECK_DEADLOCK FALSE
