SPECIFICATION FairSpec
CONSTANTS
  r1 = r1
  Runs = {r1}
  Plans <- MCPlans
  MaxChanges = 1
  MaxFaults = 1
INVARIANT OwnOutput
PROPERTIES
  PromiseKept
  AnswerTaken
  RunEnds
CHECK_DEADLOCK FALSE
