\* One call of every kind, its re-INVITEs and repeated recorder answers, beside
\* a source that is started and stopped by two requests.
SPECIFICATION MCSpec
CONSTANTS
  Scenarios <- MCScenarios
  MaxReinvites = 2
  MaxAttach = 2
  MaxSilences = 2
  MaxConns = 2
  Source = {"tv", "radio"}
  Extracted = {"tv"}
  Handler = {"h1", "h2"}
  NoReceiver = NoReceiver
  QueueSize = 2
  MaxReceivers = 2
  MaxStops = 3
INVARIANTS
  EverySideIsHeard
  ListedSocketsAreOpen
  NothingOutlivesTheCall
  ListedReceiverIsLive
  NoStrayReceiver
PROPERTIES
  ClosedReceiverEnds
CHECK_DEADLOCK FALSE
