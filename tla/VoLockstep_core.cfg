SPECIFICATION Spec
SYMMETRY Roles
CHECK_DEADLOCK FALSE
ACTION_CONSTRAINT EarlyPairs
CONSTANTS
  Host = host
  Guest = guest
  Delay = 2
  Window = 3
  FramesPerTick = 1
  StallLimit = 1
  MaxBatch = 15
  UserReset = {FALSE}
  MaxUpsets = 0
  MayDrop = FALSE
  MaxTick = 10
  PressTick = 10
  PairTick = 2
  MaxNet = 2
  CycleTicks = 3
  BurstTicks = 3
INVARIANT LockstepInv Agreement RecordsImmutable SkewBounded NoHoleAtGate NoMutualStall
PROPERTY WatermarkMonotone OneGame
