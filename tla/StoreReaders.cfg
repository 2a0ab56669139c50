CONSTANTS
    t1 = t1
    t2 = t2
    i1 = i1
    o1 = o1
    o2 = o2
    load = load
    zano = zano
    Txs = {t1}
    Incoming = {i1}
    Known = {}
    Unsteady = {i1}
    Outpoints = {o1}
    HistoryLoads = {load}
    ZanoMerges = {zano}
    BalanceRefresh = TRUE
    SameTick = FALSE
    MaxRestarts = 1
SPECIFICATION FairSpec
CHECK_DEADLOCK FALSE
INVARIANTS
    FreshEvidenceSurvives
PROPERTIES
    LockReleased
