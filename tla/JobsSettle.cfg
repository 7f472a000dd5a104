SPECIFICATION LiveSpec
CONSTANTS
  Workers = {w1, w2}
  Jobs = {j1, j2}
  Handlers = {h1}
  Images = {i1}
  Variants = {v1, v2}
  Keys = {}
  None = None
  MaxAttempts = 2
  MaxStops = 1
  Events = {"crash"}
  Parallel = 2
  MaxRevisions = 1
  MaxActive = 2
  SourceSize = 2
  OutputSize = 1
  MaxGenerated = 6
PROPERTIES
  JobSettles
