\* One replacement, a request and the scripts: what every behaviour comes to.
SPECIFICATION FairSpec
CONSTANTS
  Replacements = {n1}
  Original = original
  Requests = {p1}
  Scripts = {script}
  None = none
  MaxFaults = 2
  Faults = {"crash", "storage", "db", "stale"}
PROPERTIES OldObjectsGo AbandonedEnds ReadySettles
CHECK_DEADLOCK FALSE
