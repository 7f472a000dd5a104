\* Two jobs, one of them a child of a bulk publish, and two workers.
SPECIFICATION FairSpec
CONSTANTS
  Platforms = {"wordpress", "webflow"}
  Jobs = {j1, j2}
  Children = {j1}
  Workers = {w1, w2}
  Parallel = 1
  Requests = {p1}
  Scripts = {script}
  None = none
  MaxAttempts = 2
  MaxOps = 2
  MaxFaults = 1
  Faults = {"crash", "remote", "db", "stall"}
INVARIANTS TypeOK SoleExecution DuplicatesExplained MappingsAgree
PROPERTIES PublishingSettles
CHECK_DEADLOCK FALSE
