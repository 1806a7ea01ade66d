CONSTANTS
    Ids = {a}
    Vals = {v1}
    Absent = Absent
    EventIds = {e1, e2}
    NoId = NoId
    Torn = Torn
    NoEntry = NoEntry
    NoSnapshot = NoSnapshot
    NoCut = NoCut
    RingCap = 3
    KeepTail = 1
    MinDrop = 1
    MaxSeq = 3
    MaxLines = 3
    Faults = {}
SPECIFICATION Spec
INVARIANTS ExactlyOnce
