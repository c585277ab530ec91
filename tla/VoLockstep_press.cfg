SPECIFICATION Spec
CHECK_DEADLOCK FALSE
CONSTANTS
  Host = host
  Guest = guest
  Delay = 2
  Window = 3
  FramesPerTick = 1
  StallLimit = 1
  MaxBatch = 15
  UserReset = {FALSE}
  MaxUpsets = 1
  MayDrop = FALSE
  MaxTick = 5
  PressTick = 5
  PairTick = 5
  MaxNet = 2
  CycleTicks = 3
  BurstTicks = 3
INVARIANT OnePressPerDesync
