CONSTANTS
    e1 = e1
    e2 = e2
    s1 = s1
    n1 = n1
    n2 = n2
    x1 = x1
    o1 = o1
    o2 = o2
    o3 = o3
    None = None
    EpicSends = {e1, e2}
    EpicScans = {}
    Sends = {s1}
    NodeReads = {}
    SdkCalls = {o1, o2, o3}
    MaxResets = 1
SPECIFICATION Spec
CHECK_DEADLOCK FALSE
SYMMETRY Symmetric
INVARIANTS
    TypeOK
    EpicSendSpared
    SdkSerial
