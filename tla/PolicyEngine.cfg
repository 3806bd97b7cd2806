SPECIFICATION Spec
CONSTANTS
  d1 = d1
  d2 = d2
  Network = network
  NoFile = nofile
  RuleName <- MCRuleName
  QueryName <- MCQueryName
  Device <- MCDevice
  ScheduleId = {1, 2}
  Plan <- MCPlan
  Minutes = 3
  FirstFile <- MCFirstFile
  LegacyAllow <- MCLegacyAllow
  LegacyDeny <- MCLegacyDeny
  MaxEdits = 2
INVARIANTS
  VerdictAsPromised
  PromiseSurvivesRestart
  VerdictOfSomeMoment
PROPERTIES
  EditsAreNarrow
