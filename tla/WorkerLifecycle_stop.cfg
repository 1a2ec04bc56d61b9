SPECIFICATION Spec
CONSTANTS
  None = None
  s1 = s1
  s2 = s2
  s3 = s3
  j1 = j1
  p1 = p1
  p2 = p2
  Starters <- TwoStarters
  Stoppers <- OneStopper
  Pids <- TwoPids
  Tries = 2
  MaxReconnects = 1
  LongStates <- AllStates
  MaxOutages = 0
  MaxKills = 1
  MaxErrors = 1
SYMMETRY Symmetry2
CHECK_DEADLOCK FALSE
INVARIANT ServingOwnsFiles
INVARIANT NothingLeftBehind
INVARIANT StartedHasServed
INVARIANT StoppedIsGone
