\* Two requests at once.
SPECIFICATION Spec
CONSTANTS
  h1 = h1
  h2 = h2
  Handler = {h1, h2}
  Modes = {"file"}
  UserIds = {"u1"}
  Poller = poller
  NoFile = NoFile
  Torn = Torn
  NoDoc = NoDoc
  FirstDoc <- MCFirstDoc
  Docs <- MCDocs
  Pins = {"1", "2", "3"}
  DeviceLists <- MCDeviceLists
  ClusterSpecs <- MCClusterSpecs
  Recordings <- MCRecordings
  ServerLists <- MCServerLists
  Databases <- MCDatabases
  SipSpecs <- MCSipSpecs
  EnvLimits <- MCEnvLimits
  EnvSip <- MCEnvSip
  WriteOutcomes = {"ok"}
  RenameOutcomes = {"ok"}
  PolledReload = FALSE
  MaxRequests = 2
  MaxEdits = 0
  MaxCrashes = 0
INVARIANTS
  MemoryIsDisk
CHECK_DEADLOCK FALSE
