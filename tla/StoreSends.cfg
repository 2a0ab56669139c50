CONSTANTS
    t1 = t1
    t2 = t2
    i1 = i1
    o1 = o1
    o2 = o2
    load = load
    zano = zano
    Txs = {t1, t2}
    Incoming = {i1}
    Known = {i1}
    Unsteady = {}
    Outpoints = {o1, o2}
    HistoryLoads = {load}
    ZanoMerges = {}
    BalanceRefresh = FALSE
    SameTick = FALSE
    MaxRestarts = 1
SPECIFICATION Spec
CHECK_DEADLOCK FALSE
SYMMETRY Symmetric
INVARIANTS
    TypeOK
    InputsLocked
    EvidenceSurvives
    RejectedLeavesNoTrace
PROPERTIES
    UncertainBlocksSend
