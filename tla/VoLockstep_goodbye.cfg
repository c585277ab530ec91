SPECIFICATION Spec
CHECK_DEADLOCK FALSE
CONSTANTS
  Host = host
  Guest = guest
  Delay = 2
  Window = 3
  FramesPerTick = 1
  StallLimit = 2
  MaxBatch = 15
  UserReset = {FALSE}
  MaxUpsets = 0
  MayDrop = TRUE
  MaxTick = 4
  PressTick = 4
  PairTick = 4
  MaxNet = 2
  CycleTicks = 3
  BurstTicks = 3
INVARIANT CleanLeaveInstant
