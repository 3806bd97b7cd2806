SPECIFICATION Spec
CONSTANTS
  Client = {c1, c2}
  Nobody = Nobody
  Pool = 2
  LeaseTime = 2
  Second = 1
  Horizon = 3
  Instances = 1
INVARIANTS
  DiscoverSkipsNothing
PROPERTIES
  RefinesLedger
SYMMETRY ClientSymmetry
CHECK_DEADLOCK FALSE
