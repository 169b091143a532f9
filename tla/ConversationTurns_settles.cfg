SPECIFICATION FairSpec
CONSTANTS
  Turns <- OneTurn
  Workers = {w1, w2}
  MaxCalls = 1
  AttemptLimit = 2
  BusyLimit = 2
  MaxCommands = 0
INVARIANTS
  NoBlindRerun
PROPERTIES
  TurnSettles
CHECK_DEADLOCK FALSE
