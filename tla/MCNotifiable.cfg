SPECIFICATION FairSpec
CONSTANTS
  Types = {damage, spawned}
  Delays <- SomeDelays
  Intervals <- SomeIntervals
  TimersFirst = TRUE
  MaxNotifies = 3
  MaxHandlers = 2
  MaxTimers = 2
  MaxTime = 3
  damage = damage
  spawned = spawned
CONSTRAINT Explored
INVARIANTS Delivered LossNeedsDisturbance NoDueTimerLeft
PROPERTIES InOrder EventuallyDrained IntervalSpacing
