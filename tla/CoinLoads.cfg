CONSTANTS
    w1 = w1
    w2 = w2
    slow = slow
    deferred = deferred
    private = private
    l1 = l1
    l2 = l2
    Wallets = {w1, w2}
    Plain = {}
    Targeted = {slow}
    Deferred = {}
    Privacy = {private}
    Loads = {l1, l2}
    MaxMoments = 1
    MaxChanges = 3
    MaxPageLoads = 1
    CoinPage = TRUE
    None = None
SPECIFICATION Spec
SYMMETRY Symmetric
CHECK_DEADLOCK FALSE
INVARIANTS
    TypeOK
    BalancesOfWallet
    PrefsKept
