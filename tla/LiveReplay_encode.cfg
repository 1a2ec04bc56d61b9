CONSTANTS
  Ids = {1, 2}
  Limits = {1}
  Components = {"user"}
  Counters = {0, 1}
  Steps = {1, 2, 3}
  MaxRows = 3
  Grace = 3
  CheckEvery = 2
  BlockAge = 3
  BlockRows = 2
  MaxPoints = 3
  FrameAge = 4
  FrameBytes = 4
  FrameBlocks = 3
  Sizes = {1, 3}
  Gaps = {1, 2, 5}
  MaxTime = 14
SPECIFICATION MCSpec
INVARIANT NoHiddenDrop
CHECK_DEADLOCK FALSE
