SPECIFICATION RateSpec
CONSTANTS
  Query = {t1, t2}
  Limit = 2
  Window = 3
  MaxDelay = 1
  Horizon = 5
  MaxDrops = 1
INVARIANTS
  ListedMeansRestricted
SYMMETRY QuerySymmetry
CHECK_DEADLOCK FALSE
