\* One image: every order of run, cancel, retry, execution, review and loss of the image.
SPECIFICATION FairSpec
CONSTANTS
  Images = {i1}
  Runners = {r1}
  Requests = {r2}
  Workers = {w1}
  Reviewers = {v1}
  Scripts = {"jobs", "generations", "batches"}
  None = none
  MaxAttempts = 2
  MaxTries = 1
  MaxRevisions = 2
  MaxOps = 3
  MaxFaults = 1
  Faults = {"crash", "refuse", "db", "delete", "replace"}
INVARIANTS TypeOK ApprovedAgrees OrphansExplained
PROPERTIES WorkEnds BatchTellsTruth
CHECK_DEADLOCK FALSE
