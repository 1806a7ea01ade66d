CONSTANTS
    Ids = {a}
    Vals = {v1}
    Absent = Absent
    EventIds = {e1, e2}
    NoId = NoId
    Torn = Torn
    NoEntry = NoEntry
    NoSnapshot = NoSnapshot
    NoCut = NoCut
    RingCap = 3
    KeepTail = 3
    MinDrop = 1
    MaxSeq = 2
    MaxLines = 2
    Tabs = {t1, t2}
    Writers = {t1}
    Hazards = {"drop", "lostAck"}
    Nil = Nil
    MaxQueue = 1
    MaxFrames = 1
SPECIFICATION FairSpec
PROPERTIES EditsLand TabsCatchUp
CHECK_DEADLOCK FALSE
