SPECIFICATION Spec
CHECK_DEADLOCK FALSE
CONSTANTS
  Host = host
  Guest = guest
  Delay = 2
  Window = 3
  FramesPerTick = 1
  StallLimit = 3
  MaxBatch = 15
  UserReset = {FALSE}
  MaxUpsets = 0
  MayDrop = FALSE
  MaxTick = 6
  PressTick = 6
  PairTick = 6
  MaxNet = 4
  CycleTicks = 1
  BurstTicks = 9
INVARIANT NoHoleAtGate
