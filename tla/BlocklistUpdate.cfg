SPECIFICATION Spec
CONSTANTS
  Remote = {r1}
  Local = {f1}
  Handler = {h1, h2}
  Refresher = refresher
INVARIANTS
  Protected
  AnswersHold
  AnswersSurviveRestart
PROPERTIES
  LostOnlyOnRequest
  RefreshEnds
