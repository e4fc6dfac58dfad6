\* One INVITE per caller, won on a UDP leg: the early start, the winner path and the
\* recorder, for a call whose start may fail and one whose start does not.
SPECIFICATION FairSpec
CONSTANTS
  c1 = c1
  c2 = c2
  NoLeg = NoLeg
  NoEntry = NoEntry
  Call = {c1, c2}
  GroupCall = {}
  OptIn = {}
  Failing = {c2}
  TlsWinner = FALSE
  MaxCalls = 1
  MaxLegs = 2
  MaxDrops = 0
INVARIANTS
  IndexedIsRecording
  AnsweredIsForked
  MediaEndsWithCall
PROPERTIES
  EveryCallIsRecorded
CHECK_DEADLOCK FALSE
