CONSTANTS
    Ids = {a}
    Vals = {v1}
    Absent = Absent
    EventIds = {e1, e2}
    NoId = NoId
    Torn = Torn
    NoEntry = NoEntry
    NoSnapshot = NoSnapshot
    NoCut = NoCut
    RingCap = 3
    KeepTail = 1
    MinDrop = 1
    MaxSeq = 3
    MaxLines = 3
    Tabs = {t1}
    Writers = {t1}
    Hazards = {"command", "lostAck", "restart", "reload", "undo"}
    Nil = Nil
    MaxQueue = 2
    MaxFrames = 1
SYMMETRY Symmetry
SPECIFICATION Spec
INVARIANTS OrderKept NoEditLost WatermarkEarned
CHECK_DEADLOCK FALSE
