CONSTANTS
  p1 = p1
  p2 = p2
  file = file
  memory = memory
  r1 = r1
  r2 = r2
  r3 = r3
  Nobody = Nobody
  NoRequest = NoRequest
  NoRecord = NoRecord
  GateOn = TRUE
  Processes = {p1, p2}
  Databases = {file}
  DbOf <- OneFile
  Files = {file}
  Requests = {r1, r2, r3}
  ServerOf <- OneAndTwo
  Callers <- EditorAndAdmin
  CallerOf <- ByTurns
  Ids <- IdSet
  MaxCrashes = 1
CHECK_DEADLOCK FALSE
SPECIFICATION FairSpec
INVARIANTS
  TypeOK
  HistoryIsTrue
PROPERTIES
  ImplementsHistory
  Answered
