CONSTANTS
    r1 = r1
    r2 = r2
    r3 = r3
    r4 = r4
    None = None
    NodeReads = {}
    Reads = {r4}
    Scans = {r1}
    EpicSends = {r2, r3}
    Sends = {}
SPECIFICATION Spec
CHECK_DEADLOCK FALSE
SYMMETRY Symmetric
INVARIANTS
    TypeOK
    PendingOnCurrentHelper
    NoOrphanHelper
    WatchdogsMatchPending
    NoCallerForgotten
PROPERTIES
    ImplementsSessionClient
