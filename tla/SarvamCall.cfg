SPECIFICATION Spec
CONSTANTS
  c1 = c1
  c2 = c2
  o1 = o1
  o2 = o2
  d1 = d1
  d2 = d2
  None = None
  Outcomes = {o1, o2}
  Diagnoses = {d1, d2}
  DiagnosisOf <- TwoDiagnoses
  Completions = {c1, c2}
  OutcomeOf <- TwoOutcomes
  FinalState <- FirstFailed
  Silent = {c2}
  Recorded = {c1, c2}
  Handlers = {h1, h2}
  Workers = {w1, w2}
  MaxAttempts = 2
SYMMETRY Symmetry
INVARIANTS DeliveredWasReported AckedCompletionIsEnqueued
PROPERTIES OutcomeIsKept
CHECK_DEADLOCK FALSE
