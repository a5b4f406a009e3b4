SPECIFICATION Spec
CONSTANTS
  Conns = {c1, c2}
  MaxReq = 1
  MaxNotes = 0
  ReqCells = {r1, r2, r3}
  RespCells = {s1, s2}
  Ids = {i1, i2}
  Kinds = {"call"}
  Outcomes = {"emptyError", "error"}
  HasMissingMethod = FALSE
  BigMessages = FALSE
  AppCloses = FALSE
  NoCell = NoCell
SYMMETRY Symmetry
INVARIANTS TypeOK ReplyCorrect PendingExact RecordsOwned
PROPERTY KeepsPromise
CHECK_DEADLOCK FALSE
