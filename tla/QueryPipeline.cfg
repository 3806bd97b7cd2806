SPECIFICATION Spec
CONSTANTS
  Query = {1}
  c1 = c1
  site = site
  alias = alias
  zone = zone
  Client <- MCClient
  Domain <- MCDomain
  Alias <- MCAlias
  Local <- MCLocal
  SafeSearch <- MCSafeSearch
  Typo <- MCTypo
  Tracking <- MCTracking
  HighRisk <- MCHighRisk
  MaxChanges = 2
INVARIANTS
  StableBlockEnforced
  StableLiftHonoured
  NoRebinding
  LogMatchesResponse
PROPERTY EveryQueryAnswered
CHECK_DEADLOCK FALSE
