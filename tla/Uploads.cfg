SPECIFICATION Spec
CHECK_DEADLOCK FALSE
CONSTANTS
  Images = {i1, i2}
  Handlers = {h1, h2}
  None = None
  Script = script
  DeclaredSize = 1
  Sizes = {2}
  MaxImages = 2
  MaxBytes = 3
  DefaultBytes = 3
  MaxCrashes = 1
  Events = {"expire", "reject", "storage", "db", "delete", "crash"}
SYMMETRY Symmetry
INVARIANTS
  TypeOK
  ActiveCovered
  SlotsExact
  CleanupExclusive
