\* A recorded conference group call: its bridge ID has a colon.
SPECIFICATION Spec
CONSTANTS
  c1 = c1
  NoLeg = NoLeg
  NoEntry = NoEntry
  Call = {c1}
  GroupCall = {c1}
  OptIn = {}
  Failing = {}
  TlsWinner = FALSE
  MaxCalls = 1
  MaxLegs = 2
  MaxDrops = 0
INVARIANTS
  AnsweredIsForked
CHECK_DEADLOCK FALSE
