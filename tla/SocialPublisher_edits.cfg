SPECIFICATION FairSpec
CONSTANTS
  c1 = c1
  d1 = d1
  d2 = d2
  w1 = w1
  Channels = {c1}
  MaxRevision = 2
  Plan <- Processed
  MaxAttempts = 2
  Deciders = {d1, d2}
  Workers = {w1}
  FailureLimit = 2
  CapLimit = 1
INVARIANTS
  OneRevisionSent
PROPERTIES
  SendingEnds
