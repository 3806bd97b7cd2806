SPECIFICATION Spec
CONSTANTS
  Client = {c1, c2}
  Nobody = Nobody
  Pool = 1
  LeaseTime = 5
  Second = 2
  Horizon = 6
  Instances = 2
INVARIANTS
  SafeLeaseHonoured
  LeaseNotLengthened
  DiskTracksTable
SYMMETRY ClientSymmetry
CHECK_DEADLOCK FALSE
