\* One call to the hoot group, whose endpoints may all answer.
SPECIFICATION HootSpec
CONSTANTS
  Bridges <- MCBridges
  Groups <- MCGroups
  Users <- MCUsers
  Caller = "a"
  TlsEndpoints = {"c"}
  Recording = FALSE
  Offers <- HootOffers
  Dialled <- HootDialled
  MaxPending = 1
  MaxInvites = 1
  MaxFanouts = 1
  Repeatable = {}
PROPERTIES
  EveryoneIsBridged
CHECK_DEADLOCK FALSE
