\* A promotion, and the recovery script's cancellation of the same candidate.
SPECIFICATION Spec
CONSTANTS
  Replacements = {n1}
  Original = original
  Requests = {p1}
  Scripts = {script}
  None = none
  MaxFaults = 0
  Faults = {}
INVARIANT ActiveObjectKept
CHECK_DEADLOCK FALSE
