CONSTANTS
  a = a
  b = b
  f = f
  g = g
  Gone = Gone
  Unknown = Unknown
  Runs = {r1, r2}
  Jobs = {a}
  Files = {f}
  Names <- NameSet
  FileOf <- OneManifest
  MaxEdits = 1
  EditsInRuns = TRUE
  Reverts = FALSE
SPECIFICATION Spec
SYMMETRY Symmetry
CHECK_DEADLOCK FALSE
PROPERTY SkipIsFresh
