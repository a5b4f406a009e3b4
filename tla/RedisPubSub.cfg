SPECIFICATION FairSpec
CONSTANTS
  Channels = {a}
  Cap = 2
  MaxMsgs = 3
  MaxConns = 3
INVARIANTS TypeOK Conserved SubscriptionsKept
PROPERTIES ServedAgain EventuallyHandled PushEnds
CHECK_DEADLOCK FALSE
