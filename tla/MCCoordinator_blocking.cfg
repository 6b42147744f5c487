SPECIFICATION Spec
CONSTANTS
    w1 = w1
    w2 = w2
    w3 = w3
    c1 = c1
    c2 = c2
    Workers = {w1}
    Cmds = {c1, c2}
    Requests <- BlockingAndPlain
    DefaultInterval = FALSE
    ExitOnLast = TRUE
    LateLaunch = FALSE
    CrashStates <- NoCrash
    MaxGeneration = 2
    MaxRuns = 2
INVARIANTS
    BlockingIsDone
CHECK_DEADLOCK FALSE
