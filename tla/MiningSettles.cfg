CONSTANTS
    job = job
    s1 = s1
    s2 = s2
    m1 = m1
    m2 = m2
    Nobody = Nobody
    Jobs = {job}
    Probed = {job}
    Guarded = {}
    Restarting = {job}
    Unremovable = {"stop"}
    RestartLimit = 1
    States = {s1}
    Miners = {m1, m2}
    Onwards = FALSE
SPECIFICATION FairSpec
CHECK_DEADLOCK FALSE
PROPERTIES
    StartSettles
    StopSettles
