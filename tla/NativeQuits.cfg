CONSTANTS
    e1 = e1
    e2 = e2
    s1 = s1
    n1 = n1
    n2 = n2
    x1 = x1
    o1 = o1
    o2 = o2
    o3 = o3
    None = None
    EpicSends = {e1}
    EpicScans = {}
    Sends = {}
    NodeReads = {n1}
    SdkCalls = {}
    MaxResets = 1
SPECIFICATION FairSpec
CHECK_DEADLOCK FALSE
INVARIANTS
    HelpersAreKnown
PROPERTIES
    QuitDecides
    ClosingEnds
    ClientsAreSessionClients
