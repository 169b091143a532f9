SPECIFICATION Spec
CONSTANTS
  c1 = c1
  d1 = d1
  w1 = w1
  w2 = w2
  Channels = {c1}
  MaxRevision = 1
  Plan <- Container
  MaxAttempts = 3
  Deciders = {d1}
  Workers = {w1, w2}
  FailureLimit = 2
  CapLimit = 9
INVARIANTS
  TypeOK
  StepTakesEffectOnce
  OutcomesTrue
  ReceiptsMatchState
PROPERTIES
  SentWhileGranted
