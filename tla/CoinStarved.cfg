CONSTANTS
    w1 = w1
    w2 = w2
    slow = slow
    deferred = deferred
    private = private
    l1 = l1
    l2 = l2
    Wallets = {w1}
    Plain = {}
    Targeted = {slow}
    Deferred = {}
    Privacy = {}
    Loads = {l1, l2}
    MaxMoments = 0
    MaxChanges = 2
    MaxPageLoads = 0
    CoinPage = TRUE
    None = None
SPECIFICATION FairSpec
CHECK_DEADLOCK FALSE
PROPERTIES
    StandardRefreshes
