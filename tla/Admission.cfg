SPECIFICATION Spec
CONSTANTS
  c1 = c1
  c2 = c2
  Client <- MCClient
  Task <- MCTask
  Global = 2
  Connections = 2
  PerClient = 1
INVARIANTS
  PermitsAccounted
  OverloadByOthers
PROPERTIES
  ServiceReturns
