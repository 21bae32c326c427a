CONSTANTS
  a = a
  b = b
  f = f
  g = g
  Gone = Gone
  Unknown = Unknown
  Runs = {r1, r2, r3}
  Jobs = {a, b}
  Files = {f, g}
  Names <- NameSet
  FileOf <- OwnNames
  MaxEdits = 2
  EditsInRuns = FALSE
  Reverts = FALSE
SPECIFICATION Spec
SYMMETRY Symmetry
CHECK_DEADLOCK FALSE
INVARIANTS
  TypeOK
  SkipWasEarned
PROPERTY SkipIsFresh
