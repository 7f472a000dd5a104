\* Two items, two requests at a time: who starts what, and what is shown.
SPECIFICATION Spec
CONSTANTS
  Images = {i1, i2}
  Requests = {r1, r2}
  Workers = {w1}
  Reconcilers = {}
  None = none
  Concurrency = 1
  MaxAttempts = 2
  MaxOps = 3
  MaxFaults = 1
  Faults = {"crash", "expire", "refuse", "delete", "replace"}
SYMMETRY Symmetry
INVARIANTS TypeOK CompletedIsTrue
PROPERTIES NoStartAfterCancel
CHECK_DEADLOCK FALSE
