\* Every pair of talkers and listeners, four dial plans, one change of the
\* configuration at any moment.
SPECIFICATION Spec
CONSTANTS
  Fold <- MCFold
  HasPrefix <- MCHasPrefix
  Matches <- MCMatches
  Domain <- MCDomain
  Configs <- MCConfigs
  Dialled = {"", "ivr", "menu", "line", "hoot", "shout", "room", "nowhere", "other"}
  Callers = {"", "a", "b", "x"}
  MaxChanges = 1
INVARIANTS
  NobodyRingsHimself
PROPERTIES
  RegionOnlyReorders
  DialPlanFallsThrough
CHECK_DEADLOCK FALSE
