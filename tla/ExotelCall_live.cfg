SPECIFICATION FairSpec
CONSTANTS
  t1 = t1
  t2 = t2
  d1 = d1
  d2 = d2
  None = None
  Turns <- Decisive
  Decides <- Decisive
  Outcomes <- Decisive
  Diagnoses = {d1}
  DiagnosisOf <- OneDiagnosis
  Webhooks <- ShortCall
  Carries = {}
  EventId <- OwnEventId
  Handlers = {h1, h2}
PROPERTIES DecidedIsEnqueued
CHECK_DEADLOCK FALSE
