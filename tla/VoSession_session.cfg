SPECIFICATION SessionSpec
CHECK_DEADLOCK FALSE
CONSTANTS
  SeqMod = 4
  VOD = 2
  Delays = {2, 3}
  MaxBoots = 2
INVARIANT SessionInv NoSilentDrop AnswerIsOwn KeysAreOwn ClosedBehind MatchAsStarted
PROPERTY SessionGoesOn
