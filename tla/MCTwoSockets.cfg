SPECIFICATION FairSpec
CONSTANTS
    acc1 = acc1
    con1 = con1
    acc2 = acc2
    con2 = con2
    p1 = p1
    p2 = p2
    Ends = {acc1, con1, acc2, con2}
    Peer <- MCPeer
    Accepting = {acc1, acc2}
    Procs = {p1, p2}
    Layouts <- MCLayouts
    Signalled = {}
    Parent <- MCParent
    Fd <- MCFd
    None = None
    NoImage = NoImage
    SndBuf <- MCSndBuf
    RcvBuf <- MCRcvBuf
    DeadBuf = 1
    MaxSent = 1
    MaxCkpts = 1
    MaxRestarts = 1
PROPERTIES
    RunsAgain
CHECK_DEADLOCK FALSE
