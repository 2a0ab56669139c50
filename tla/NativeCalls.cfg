CONSTANTS
    r1 = r1
    r2 = r2
    r3 = r3
    r4 = r4
    None = None
    NodeReads = {r1, r2}
    Reads = {}
    Scans = {}
    EpicSends = {}
    Sends = {r3, r4}
SPECIFICATION FairSpec
CHECK_DEADLOCK FALSE
INVARIANTS
    NoForeignBytes
    DrainCountExact
PROPERTIES
    SessionCloses
    ImplementsBroker
    CallsSettle
