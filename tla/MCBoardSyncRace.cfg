CONSTANTS
    Ids = {a, b}
    Vals = {v1}
    Absent = Absent
    EventIds = {e1, e2}
    NoId = NoId
    Torn = Torn
    NoEntry = NoEntry
    NoSnapshot = NoSnapshot
    NoCut = NoCut
    RingCap = 3
    KeepTail = 3
    MinDrop = 1
    MaxSeq = 3
    MaxLines = 3
    Tabs = {t1, t2}
    Writers = {t1}
    Hazards = {"command"}
    Nil = Nil
    MaxQueue = 3
    MaxFrames = 3
SPECIFICATION Spec
INVARIANTS Converges
CHECK_DEADLOCK FALSE
