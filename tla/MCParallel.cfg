SPECIFICATION Spec
CONSTANTS
    Instances = {"1", "2", "3", "4", "5", "6"}
    Missing = {"5", "6"}
    Threads <- MCThreads
    NoThreads = {"6"}
    MayFail = {"3"}
    MaxThreads = {3}
    Overcommit = {125}
    Cpus = 2
    Groups = {"G1", "G2", "G3"}
    Members <- MCMembers
INVARIANTS
    ThreadsAccounted
    WaitsOnlyWhenFull
    ReturnIsComplete
    HalfOfGroupEnded
PROPERTIES
    RunsOnce
    ReturnsUnlessBlocked
CHECK_DEADLOCK FALSE
