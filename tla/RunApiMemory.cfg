CONSTANTS
  p1 = p1
  p2 = p2
  file = file
  memory = memory
  r1 = r1
  r2 = r2
  r3 = r3
  Nobody = Nobody
  NoRequest = NoRequest
  NoRecord = NoRecord
  GateOn = TRUE
  Processes = {p1}
  Databases = {memory}
  DbOf <- OwnMemory
  Files = {}
  Requests = {r1, r2, r3}
  ServerOf <- AllOnOne
  Callers <- Everyone
  CallerOf <- ByAll
  Ids <- NoIds
  MaxCrashes = 1
CHECK_DEADLOCK FALSE
SPECIFICATION Spec
INVARIANTS
  AnswerIsRecorded
  ShownStays
  ShownAreOwn
