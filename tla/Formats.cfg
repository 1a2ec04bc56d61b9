CONSTANTS
  Ids = {1, 2}
  NameBytes <- MCNameBytes
  Processes <- MCProcesses
  RssUnit = 2
  HeaderSize = 1
  RowSize = 1
  ObservationSize = 1
  ProcessSize = 1
  EntrySize = 1
  IdentitySize = 1
  Moves <- MCMoves
  MaxRows = 3
  Identities = {1, 2}
  Following <- MCFollowing
  Timebases <- MCTimebases
  Unit = 2
  Depth <- MCDepth
SPECIFICATION MCSpec
INVARIANT RowExact
INVARIANT BudgetCovers
INVARIANT CpuWithinBound
INVARIANT TemporalTrue
INVARIANT MemoryExact
CHECK_DEADLOCK FALSE
