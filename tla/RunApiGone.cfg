CONSTANTS
  p1 = p1
  p2 = p2
  file = file
  memory = memory
  r1 = r1
  r2 = r2
  r3 = r3
  Nobody = Nobody
  NoRequest = NoRequest
  NoRecord = NoRecord
  GateOn = TRUE
  Processes = {p1}
  Databases = {file}
  DbOf <- OneFile
  Files = {file}
  Requests = {r1, r2}
  ServerOf <- AllOnOne
  Callers <- EditorOnly
  CallerOf <- AllByEditor
  Ids <- NoIds
  MaxCrashes = 0
CHECK_DEADLOCK FALSE
SPECIFICATION Spec
INVARIANT RunIsRecorded
