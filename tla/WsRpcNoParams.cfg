SPECIFICATION FairSpec
CONSTANTS
  Conns = {c1}
  MaxReq = 2
  MaxNotes = 1
  ReqCells = {r1, r2, r3}
  RespCells = {s1, s2}
  Ids = {i1, i2}
  Kinds = {"call", "badArgs", "unknown", "unknownNoParams", "callNoParams"}
  Outcomes = {"result", "error"}
  HasMissingMethod = FALSE
  BigMessages = FALSE
  AppCloses = FALSE
  NoCell = NoCell
PROPERTY HeaderAnswered
CHECK_DEADLOCK FALSE
