SPECIFICATION Spec
CONSTANTS
  Event = {1, 2, 3}
  Edge = {1, 2, 3, 4, 5, 6}
  What <- MCWhat
  Kind <- MCKind
  Device = {"d1", "d2"}
  Timeframe = {0, 9}
  MaxQuery = 3
  QueueCap = 1
  BatchSize = 2
  BatchMax = 2
  RowCap = 2
  RelCap = 6
  Retention = 1
  Horizon = 2
  MaxBoots = 2
  Budget = 38
  DeviceCap = 1
  Day = 2
INVARIANTS
  EveryQueryOnce
  FlushMeansSaved
  RetentionKeepsNewest
  ChargedOnce
  StaysSpent
CHECK_DEADLOCK FALSE
