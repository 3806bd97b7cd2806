SPECIFICATION MCSpec
CONSTANTS
  Call = {c1, c2, c3}
  NoCall = NoCall
  Question = {qa, qb}
  Id = {1, 2}
  Slots = 2
  Alert = {"a", "b"}
  Caller = {q1, q2, q3}
  Permits = 2
  Silence = 2
  Room = 1
  MaxEvictions = 2
  LastMoment = 2
INVARIANTS
  AnswersOwnQuestion
  SlotsAreReturned
  CopiesBounded
SYMMETRY Symmetries
CHECK_DEADLOCK FALSE
