SPECIFICATION LeaveSpec
CHECK_DEADLOCK FALSE
CONSTANTS
  Host = host
  Guest = guest
  Delay = 2
  Window = 3
  FramesPerTick = 2
  StallLimit = 2
  MaxBatch = 2
  UserReset = {FALSE}
  MaxUpsets = 0
  MayDrop = TRUE
  MaxTick = 4
  PressTick = 4
  PairTick = 4
  MaxNet = 1
  CycleTicks = 1
  BurstTicks = 2
PROPERTY EndsAlone
