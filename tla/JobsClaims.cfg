SPECIFICATION Spec
CONSTANTS
  Workers = {w1, w2}
  Jobs = {j1}
  Handlers = {h1}
  Images = {i1}
  Variants = {v1}
  Keys = {}
  None = None
  MaxAttempts = 2
  MaxStops = 1
  Events = {"crash", "restart", "shutdown", "stall", "cancel"}
  Parallel = 1
  MaxRevisions = 1
  MaxActive = 2
  SourceSize = 2
  OutputSize = 1
  MaxGenerated = 6
SYMMETRY Symmetry
INVARIANTS
  ClaimsDistinct
  WritersDisjoint
  CompletedHasDerivative
PROPERTIES
  TicketsImplemented
