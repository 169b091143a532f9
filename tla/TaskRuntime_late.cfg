\* A call that timed out is settled after its lease, and its row is then abandoned.
SPECIFICATION Spec
CONSTANTS
    w1 = w1
    w2 = w2
    Workers <- OneWorker
    TimeLimit = 6
    RaiseBy = 2
    ToolLimit = 2
    CallTimeout = 2
    Headroom = 1
    WorkTimes = {1}
    Budget = 6
    MaxSteps = 1
    MaxAttempts = 2
    MaxCommands = 0
    MaxCrashes = 0
    Decisions = {"answer"}
    Failures = {"timeout"}
    Files = FALSE
    Revocable = {TRUE}
    Routes = {"inside"}
    ReservedCost = 2
    KnownCost = 1
INVARIANTS LateSpentOnce
CHECK_DEADLOCK FALSE
