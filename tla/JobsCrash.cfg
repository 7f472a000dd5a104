SPECIFICATION Spec
CONSTANTS
  Workers = {w1}
  Jobs = {j1}
  Handlers = {h1}
  Images = {i1}
  Variants = {v1}
  Keys = {}
  None = None
  MaxAttempts = 3
  MaxStops = 2
  Events = {"crash", "restart", "retry", "storage", "delete"}
  Parallel = 2
  MaxRevisions = 1
  MaxActive = 2
  SourceSize = 2
  OutputSize = 1
  MaxGenerated = 6
INVARIANTS
  TypeOK
  ActiveHasObject
  OneActive
  SoleWriter
PROPERTIES
  CompletedIsFinal
