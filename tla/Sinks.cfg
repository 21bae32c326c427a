SPECIFICATION Spec
CONSTANTS
  Writers = {w1, w2, w3}
  Readers = {r1}
  Places <- MCPlaces
  FormatOf <- MCFormatOf
  FileOf <- MCFileOf
  Jobs <- MCJobs
  Assignments <- MCAssignments
  Targets <- MCTargets
  Crs = {c1, c2}
  NoCrs = NoCrs
  DefaultCrs = c2
  NoLayer = NoLayer
  NoWriter = NoWriter
  w1 = w1
  w2 = w2
  w3 = w3
  c1 = c1
  c2 = c2
  csvFile = csvFile
  jsonFile = jsonFile
  shpFile = shpFile
  roads = roads
  towns = towns
CHECK_DEADLOCK FALSE
INVARIANTS TypeOK Delivered OneWriter CrsOfRows ReadsOneWriter
