SPECIFICATION FairSpec
CONSTANTS
  c1 = c1
  c2 = c2
  w1 = w1
  w2 = w2
  o1 = o1
  Calls = {c1, c2}
  Reads = {c2}
  Origins = {o1}
  Workers = {w1, w2}
  ScopeLimit = 2
  SlotLimit = 1
  MaxChanges = 1
INVARIANTS
  TypeOK
  SentAsApproved
  AnswersTrue
PROPERTIES
  PromiseKept
  ChangesEnd
CHECK_DEADLOCK FALSE
