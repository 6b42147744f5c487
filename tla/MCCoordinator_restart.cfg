SPECIFICATION FairSpec
CONSTANTS
    w1 = w1
    w2 = w2
    w3 = w3
    c1 = c1
    c2 = c2
    Workers = {w1, w2}
    Cmds = {c1, c2}
    Requests <- Checkpoints
    DefaultInterval = FALSE
    ExitOnLast = FALSE
    LateLaunch = FALSE
    CrashStates <- NoCrash
    MaxGeneration = 2
    MaxRuns = 2
INVARIANTS
    OnlyExpectedOrders
PROPERTIES
    ScriptIsRestartable
    RestartCompletes
CHECK_DEADLOCK FALSE
