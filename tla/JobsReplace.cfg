SPECIFICATION Spec
CONSTANTS
  Workers = {w1}
  Jobs = {j1}
  Handlers = {h1}
  Images = {i1}
  Variants = {v1}
  Keys = {}
  None = None
  MaxAttempts = 2
  MaxStops = 0
  Events = {"stall", "replace", "db", "webcrash"}
  Parallel = 2
  MaxRevisions = 1
  MaxActive = 2
  SourceSize = 2
  OutputSize = 1
  MaxGenerated = 6
INVARIANTS
  ObjectsOwned
  NeverOvercharged
