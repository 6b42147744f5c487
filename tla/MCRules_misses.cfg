SPECIFICATION FairSpec
CONSTANTS
    a1 = a1
    a2 = a2
    a3 = a3
    a4 = a4
    Apps = {a1, a2, a3, a4}
    Threads <- MCThreads
    Ram <- MCRam
    Misses <- MCMisses
    TotalRam = 7
    Cpus = 2
    IdleTenths = {0, 69, 70, 496, 745, 1000}
PROPERTY
    MinMissesFirst
CHECK_DEADLOCK FALSE
