\* One request at a time, from a file, over HTTP and with polling: two requests,
\* two edits of the source, a crash.
SPECIFICATION Spec
CONSTANTS
  h1 = h1
  Handler = {h1}
  Modes = {"file", "http", "poll"}
  UserIds = {"u1", "u2", "u3"}
  Poller = poller
  NoFile = NoFile
  Torn = Torn
  NoDoc = NoDoc
  FirstDoc <- MCFirstDoc
  Docs <- MCDocs
  Pins = {"1", "2", "3"}
  DeviceLists <- MCDeviceLists
  ClusterSpecs <- MCClusterSpecs
  Recordings <- MCRecordings
  ServerLists <- MCServerLists
  Databases <- MCDatabases
  SipSpecs <- MCSipSpecs
  EnvLimits <- MCEnvLimits
  EnvSip <- MCEnvSip
  WriteOutcomes = {"ok", "fails"}
  RenameOutcomes = {"ok"}
  PolledReload = FALSE
  MaxRequests = 2
  MaxEdits = 2
  MaxCrashes = 1
INVARIANTS
  FileIsWhole
  MemoryIsDisk
  SavedSectionsStart
  PinsUnique
PROPERTIES
  PollConverges
CHECK_DEADLOCK FALSE
