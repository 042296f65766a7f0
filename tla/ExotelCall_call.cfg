SPECIFICATION Spec
CONSTANTS
  t1 = t1
  t2 = t2
  d1 = d1
  d2 = d2
  None = None
  Turns <- TwoTurns
  Decides <- TwoTurns
  Outcomes <- TwoTurns
  Diagnoses = {d1, d2}
  DiagnosisOf <- Contradiction
  Webhooks <- EveryWebhook
  Carries = {}
  EventId <- TurnEventId
  Handlers = {h1, h2}
SYMMETRY HandlerSymmetry
INVARIANTS AckedEndIsEnqueued
PROPERTIES NeverRegresses
CHECK_DEADLOCK FALSE
