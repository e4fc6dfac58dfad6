\* One UDP and one TLS endpoint, and an INVITE repeated after the first session
\* is gone: the reader goroutine and a stale ring timer run beside the read loop.
SPECIFICATION Spec
CONSTANTS
  e1 = e1
  t1 = t1
  NoLeg = NoLeg
  Ring = {e1, t1}
  TlsRing = {t1}
  Listed = TRUE
  MaxInvites = 2
INVARIANTS
  NoLegLeak
PROPERTIES
  AnswersOnce
CHECK_DEADLOCK FALSE
