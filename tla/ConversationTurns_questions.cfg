SPECIFICATION Spec
CONSTANTS
  Turns <- OneTurn
  Workers = {w1, w2}
  MaxCalls = 2
  AttemptLimit = 2
  BusyLimit = 2
  MaxCommands = 0
INVARIANTS
  QuestionsCanExpire
CHECK_DEADLOCK FALSE
