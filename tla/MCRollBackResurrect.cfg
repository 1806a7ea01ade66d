CONSTANTS
    Ids = {a, b}
    Vals = {v1, v2}
    Absent = Absent
    NoBuffer = NoBuffer
    Nothing = Nothing
    MaxVersion = 3
    MaxSeq = 2
    GestureSources = {"user"}
    MaxWrite = 2
SPECIFICATION RollBackSpec
PROPERTIES UndoNeverResurrects
