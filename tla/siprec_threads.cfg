\* A group call of a caller who opted in, with a TLS winner's reader and an API drop
\* beside the read loop.
SPECIFICATION FairSpec
CONSTANTS
  c1 = c1
  NoLeg = NoLeg
  NoEntry = NoEntry
  Call = {c1}
  GroupCall = {c1}
  OptIn = {c1}
  Failing = {}
  TlsWinner = TRUE
  MaxCalls = 1
  MaxLegs = 3
  MaxDrops = 1
INVARIANTS
  RecordingIsIndexed
  RecordedOnce
PROPERTIES
  EveryCallIsRecorded
  AnswerIsAcked
CHECK_DEADLOCK FALSE
