SPECIFICATION FairSpec
CONSTANTS
    main = main
    t1 = t1
    t2 = t2
    Threads = {main, t1, t2}
    Main = main
    MaxOps = 3
    MaxCkpts = 2
INVARIANTS
    ImageIsQuiescent
    NobodyRunsUntilResumed
    WakeUpsComeOutEven
PROPERTIES
    
    StoppedGoesOn
