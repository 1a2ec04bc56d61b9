CONSTANTS
  N = 3
  Bodies <- MCBodies
  Contexts <- MCContexts
  Upstreams <- MCUpstreams
  MaxRows = 3
  Repeats = {2}
  Workers = {1, 2}
  MaxSeeds = 2
  MaxGroup = 1
  MaxFaults = 1
  Grace = 1
  CheckEvery = 1
  BlockAge = 100
  BlockRows = 2
  MaxPoints = 100
SPECIFICATION Spec
INVARIANT BulkIsSerial
INVARIANT RefusedForCause
INVARIANT CompleteIsWhole
