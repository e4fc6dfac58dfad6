\* Three UDP endpoints, one INVITE: only the read loop and the timer run.
SPECIFICATION FairSpec
CONSTANTS
  e1 = e1
  e2 = e2
  e3 = e3
  NoLeg = NoLeg
  Ring = {e1, e2, e3}
  TlsRing = {}
  Listed = TRUE
  MaxInvites = 1
INVARIANTS
  TypeOK
  OneDecision
  WinnerSpared
  NoLegForgotten
  FailureMeansAllRefused
PROPERTIES
  CallerIsAnswered
CHECK_DEADLOCK FALSE
