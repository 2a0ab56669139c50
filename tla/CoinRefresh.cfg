CONSTANTS
    w1 = w1
    w2 = w2
    slow = slow
    deferred = deferred
    private = private
    l1 = l1
    l2 = l2
    Wallets = {w1}
    Plain = {}
    Targeted = {slow}
    Deferred = {deferred}
    Privacy = {}
    Loads = {l1, l2}
    MaxMoments = 1
    MaxChanges = 2
    MaxPageLoads = 1
    CoinPage = FALSE
    None = None
SPECIFICATION FairSpec
CHECK_DEADLOCK FALSE
PROPERTIES
    LoadedNeverOlder
    StandardRefreshes
