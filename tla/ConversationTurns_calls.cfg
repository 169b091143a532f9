SPECIFICATION Spec
CONSTANTS
  Turns <- TwoTurns
  Workers = {w1, w2}
  MaxCalls = 1
  AttemptLimit = 1
  BusyLimit = 1
  MaxCommands = 1
SYMMETRY WorkerSymmetry
INVARIANTS
  TypeOK
  OneAttempt
PROPERTIES
  PromiseKept
CHECK_DEADLOCK FALSE
