CONSTANTS
    job = job
    s1 = s1
    s2 = s2
    m1 = m1
    m2 = m2
    Nobody = Nobody
    Jobs = {job}
    Probed = {}
    Guarded = {job}
    Restarting = {job}
    Unremovable = {"exit"}
    RestartLimit = 0
    States = {s1, s2}
    Miners = {m1, m2}
    Onwards = FALSE
SPECIFICATION Spec
SYMMETRY Symmetric
CHECK_DEADLOCK FALSE
INVARIANTS
    TypeOK
    MinersAreHeld
    EntryHasFuture
