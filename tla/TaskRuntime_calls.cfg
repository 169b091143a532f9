\* One worker that may be lost, files, calls that are refused, time out or answer late, and proposals.
SPECIFICATION FairSpec
CONSTANTS
    w1 = w1
    w2 = w2
    Workers <- OneWorker
    TimeLimit = 6
    RaiseBy = 2
    ToolLimit = 2
    CallTimeout = 2
    Headroom = 1
    WorkTimes = {1}
    Budget = 6
    MaxSteps = 1
    MaxAttempts = 2
    MaxCommands = 0
    MaxCrashes = 1
    Decisions = {"tools", "propose", "clarify", "answer"}
    Failures = {"rate-limit", "timeout"}
    Files = TRUE
    Revocable = {TRUE, FALSE}
    Routes = {"inside", "knowledge", "mcp", "api", "images", "skills", "slack"}
    ReservedCost = 2
    KnownCost = 1
INVARIANTS TypeOK TimeAccounted SpentOnce
PROPERTIES AccountingEnds TaskRests
CHECK_DEADLOCK FALSE
