\* Two replacements of one image, two requests at a time.
SPECIFICATION Spec
CONSTANTS
  Replacements = {n1, n2}
  Original = original
  Requests = {p1, p2}
  Scripts = {}
  None = none
  MaxFaults = 1
  Faults = {"crash", "storage", "db", "stale", "delete"}
SYMMETRY Symmetry
INVARIANTS TypeOK ShowsValidated CleanupSparesActive ReservedExact
PROPERTIES VerdictOnItsObject DeletedStays
CHECK_DEADLOCK FALSE
