\* Four callers on a recorded line, two of them dialling twice; a call may be
\* dropped through the API while it rings or talks.
SPECIFICATION FairSpec
CONSTANTS
  c1 = c1
  c2 = c2
  c3 = c3
  c4 = c4
  NoCaller = NoCaller
  Caller = {c1, c2, c3, c4}
  Recorded = TRUE
  MaxDialogs = 3
  MaxInvites = 2
  Redialling = {c1, c2}
  MaxDrops = 1
INVARIANTS
  CapacityBound
  OneRinging
  HungUpIsGone
PROPERTIES
  NoReRing
  SessionsEnd
CHECK_DEADLOCK FALSE
