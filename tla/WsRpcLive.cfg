SPECIFICATION FairSpec
CONSTANTS
  Conns = {c1}
  MaxReq = 2
  MaxNotes = 1
  ReqCells = {r1, r2, r3}
  RespCells = {s1, s2}
  Ids = {i1}
  Kinds = {"call", "badArgs", "callNoParams"}
  Outcomes = {"result", "badResult"}
  HasMissingMethod = FALSE
  BigMessages = TRUE
  AppCloses = TRUE
  NoCell = NoCell
INVARIANT IInv
PROPERTIES Answered ServeLoopEnds
CHECK_DEADLOCK FALSE
