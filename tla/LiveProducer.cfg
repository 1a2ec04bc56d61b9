CONSTANTS
  Interval = 1
  Duration = 4
  Capacity = 1
  MaxTime = 4
  Sleeps = {2}
  Reads = {"read","raced"}
  MaxFaults = 1
SPECIFICATION Spec
INVARIANT OkMeansAll
INVARIANT ScheduleKept
PROPERTY StopEndsRun
INVARIANT GapsTrue
INVARIANT NothingUnmarked
