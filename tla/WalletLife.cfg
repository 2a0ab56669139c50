CONSTANTS
    p1 = p1
    p2 = p2
    std = std
    priv = priv
    s1 = s1
    s2 = s2
    s3 = s3
    None = None
    Phrases = {p1, p2}
    Standard = {std}
    Privacy = {priv}
    AlwaysRederived = {std}
    Slots = {s1, s2, s3}
    Behind = 2
SPECIFICATION Spec
SYMMETRY Symmetric
INVARIANTS
    TypeOK
    UnlockedHasPhrase
    LockForgets
    NothingOfClearedWallet
