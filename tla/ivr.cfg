\* One caller, any two keys and the calls that get somewhere, two far-side endpoints.
SPECIFICATION Spec
CONSTANTS
  Bridges <- MCBridges
  Groups <- MCGroups
  Users <- MCUsers
  Caller = "a"
  TlsEndpoints = {"c"}
  Recording = TRUE
  Offers <- MCOffers
  Dialled <- MCDialled
  MaxPending = 1
  MaxInvites = 2
  MaxFanouts = 2
  Repeatable = {7}
INVARIANTS
  EachKeyOnce
  KeysDecide
  OneConnected
  NothingOutlivesTheCall
PROPERTIES
  RingingEnds
CHECK_DEADLOCK FALSE
