SPECIFICATION Spec
SYMMETRY Roles
CHECK_DEADLOCK FALSE
ACTION_CONSTRAINT OneTrouble
CONSTANTS
  Host = host
  Guest = guest
  Delay = 1
  Window = 2
  FramesPerTick = 1
  StallLimit = 1
  MaxBatch = 15
  UserReset = {TRUE, FALSE}
  MaxUpsets = 1
  MayDrop = FALSE
  MaxTick = 5
  PressTick = 2
  PairTick = 5
  MaxNet = 1
  CycleTicks = 1
  BurstTicks = 1
INVARIANT NoFalseAlarm RepairedTogether
PROPERTY ArmedByDisturbance
