SPECIFICATION Spec
CONSTANTS
  None = None
  s1 = s1
  s2 = s2
  s3 = s3
  j1 = j1
  p1 = p1
  p2 = p2
  Starters <- TwoStarters
  Stoppers <- OneStopper
  Pids <- OnePid
  Tries = 1
  MaxReconnects = 2
  LongStates <- AllStates
  MaxOutages = 2
  MaxKills = 0
  MaxErrors = 0
CHECK_DEADLOCK FALSE
INVARIANT TypeOK
PROPERTY EverybodyReturns
