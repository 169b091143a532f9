\* Two workers process the task at once; settlements may begin after their lease.
SPECIFICATION Spec
CONSTANTS
    w1 = w1
    w2 = w2
    Workers <- TwoWorkers
    TimeLimit = 4
    RaiseBy = 0
    ToolLimit = 2
    CallTimeout = 2
    Headroom = 1
    WorkTimes = {1}
    Budget = 6
    MaxSteps = 1
    MaxAttempts = 2
    MaxCommands = 2
    MaxCrashes = 0
    Decisions = {"tools", "propose", "answer"}
    Failures = {"timeout", "mismatch"}
    Files = FALSE
    Revocable = {TRUE}
    Routes = {"inside", "api", "images"}
    ReservedCost = 2
    KnownCost = 1
INVARIANT WinnerDecides
PROPERTIES EffectsReserved OutcomesStay StoppedIsQuiet PromiseKept
SYMMETRY WorkersAlike
CHECK_DEADLOCK FALSE
