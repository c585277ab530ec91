SPECIFICATION MCSpec
CHECK_DEADLOCK FALSE
CONSTANTS
  MaxPlayers = 2
  MaxUpdates = 3
  MaxFailures = 2
  Keepalive = TRUE
  TickMod = 6
  Keep = 2
  Slots = 4
  First = 2
  Lead = 1
  Gap = 2
  MaxTick = 8
  MaxMatches = 2
  MaxAgain = 1
  OddTicks = {7}
INVARIANT ServerInv IdleMeansTold LastWord
INVARIANT OneTick DisagreementSaid SameVerdict
PROPERTY CountArrives
