CONSTANTS
    Ids = {a, b}
    Vals = {v1, v2}
    Absent = Absent
    NoBuffer = NoBuffer
    Nothing = Nothing
    MaxVersion = 3
    MaxSeq = 3
    GestureSources = {"user", "agent"}
    MaxWrite = 2
SYMMETRY Symmetry
SPECIFICATION Spec
INVARIANTS TypeOK MirrorIsCommitted BufferIsLive
PROPERTIES EmissionsChain VersionToken
