SPECIFICATION MCSpec
CONSTANTS
  Writer = {"w1", "w2"}
  Pid = {1}
  MaxWrites = 3
  MaxStops = 1
  Kind = {"upstream", "privacy", "telegram", "devices"}
  Handler = {"h1", "h2"}
  Entry = {"e1"}
  Bad = "bad"
  Token = {"k1"}
  NoToken = "none"
  MaxSaves = 3
  MaxBoots = 2
  NoChild = NoChild
  MaxFaults = 2
  Request = {"r1"}
  Editor = {"x1", "x2"}
  TTL = 2
  Deadline = 1
  MaxEdits = 1
  MaxRestarts = 1
  LastTick = 3
  Domain = {"d1", "d2", "d3"}
  Address = {1, 2, 3}
  Net <- MCNet
  NoNet = "none"
  NoDomain = "nobody"
  DomainCap = 2
  Keep = 4
  Many = 2
  Window = 2
  Resolved <- MCResolved
  MaxAnswers = 4
  LastSecond = 3
  Slot = {"s1", "s2"}
  Executions = 1
  Allowed = 4
  ShellLimit = 2
  Grace = 1
  Reaping = 1
  Resolving = 1
  Sending = 1
  Name = {"nas.lan", "lan", "example.com"}
  Local = {"nas.lan", "lan"}
  Below <- MCBelow
  Spelling = {"NAS", "nas", "com"}
  Canonical <- MCCanonical
  Ip = {"1", "2"}
  Written <- MCWritten
  Torn = Torn
  NoFile = NoFile
  NoIp = "no address"
  MaxChanges = 2
  MaxExits = 1
INVARIANTS
  WholeFile
  SavedIsShown
  ReplacedActionsExpire
  GroupsClosed
  FluxExact
PROPERTIES
  ResolverCatchesUp
  ZoneServed
CHECK_DEADLOCK FALSE
