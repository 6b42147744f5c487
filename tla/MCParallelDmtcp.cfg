SPECIFICATION FairSpec
CONSTANTS
    a1 = a1
    a2 = a2
    a3 = a3
    Apps = {a1, a2, a3}
    Threads <- MCThreads
    Ram <- MCRam
    TotalRam = 5
    Cpus = 1
    Rules = {"twice", "once", "idle", "random"}
    SliceTicks = 2
INVARIANTS
    TrackedHasFile
    Accounted
    UnfollowedIsNoidea
    OSErrorNeedsNoidea
    RestartsOnlyEnded
    ExitIsComplete
PROPERTIES
    CompletedIsFinal
    Terminates
