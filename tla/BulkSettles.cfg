\* One item and the reconcile script: what every behaviour comes to.
SPECIFICATION FairSpec
CONSTANTS
  Images = {i1}
  Requests = {r1}
  Workers = {w1}
  Reconcilers = {k1}
  None = none
  Concurrency = 1
  MaxAttempts = 1
  MaxOps = 3
  MaxFaults = 1
  Faults = {"crash", "expire"}
PROPERTIES CountersConverge ItemsSettle
CHECK_DEADLOCK FALSE
