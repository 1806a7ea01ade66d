CONSTANTS
    Ids = {a, b}
    Vals = {v1}
    Absent = Absent
    EventIds = {e1, e2}
    NoId = NoId
    Torn = Torn
    NoEntry = NoEntry
    NoSnapshot = NoSnapshot
    NoCut = NoCut
    RingCap = 3
    KeepTail = 3
    MinDrop = 1
    MaxSeq = 2
    MaxLines = 2
    Tabs = {t1, t2}
    Writers = {t1}
    Hazards = {"drop", "restart", "compact"}
    Nil = Nil
    MaxQueue = 2
    MaxFrames = 2
SYMMETRY Symmetry
SPECIFICATION Spec
INVARIANTS ReadersFollow Converges
CHECK_DEADLOCK FALSE
