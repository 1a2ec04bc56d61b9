SPECIFICATION Spec
CONSTANTS
  p1 = p1
  w1 = w1
  Panes <- OnePane
  Workspaces <- OneWorkspace
  Usages = {1, 2}
  MaxReconnects = 2
  MaxChanges = 3
  MaxFaults = 2
INVARIANT ViewTrue
INVARIANT CacheTrue
PROPERTY MarkShown
CHECK_DEADLOCK FALSE
