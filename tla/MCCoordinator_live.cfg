SPECIFICATION FairSpec
CONSTANTS
    w1 = w1
    w2 = w2
    w3 = w3
    c1 = c1
    c2 = c2
    Workers = {w1, w2}
    Cmds = {c1, c2}
    Requests <- AnyRequests
    DefaultInterval = FALSE
    ExitOnLast = TRUE
    LateLaunch = FALSE
    CrashStates <- CrashAnywhere
    MaxGeneration = 2
    MaxRuns = 1
PROPERTIES
    CheckpointEnds
    AcceptedIsAnswered
    KillCompletes
CHECK_DEADLOCK FALSE
