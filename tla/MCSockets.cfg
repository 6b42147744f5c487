SPECIFICATION FairSpec
CONSTANTS
    acc = acc
    con = con
    p1 = p1
    p2 = p2
    Ends = {acc, con}
    Peer <- MCPeer
    Accepting = {acc}
    Procs = {p1, p2}
    Layouts <- MCLayouts
    Signalled <- MCSignalled
    None = None
    NoImage = NoImage
    Parent <- MCParent
    Fd <- MCFd
    SndBuf <- MCSndBuf
    RcvBuf <- MCRcvBuf
    DeadBuf = 1
    MaxSent = 2
    MaxCkpts = 1
    MaxRestarts = 1
INVARIANTS
    OneLeader
    Expected
    ResumedAsBefore
PROPERTIES
    ImplementsStream
    RunsAgain
CHECK_DEADLOCK FALSE
