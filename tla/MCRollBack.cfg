CONSTANTS
    Ids = {a, b}
    Vals = {v1}
    Absent = Absent
    NoBuffer = NoBuffer
    Nothing = Nothing
    MaxVersion = 3
    MaxSeq = 2
    GestureSources = {"user"}
    MaxWrite = 1
SYMMETRY Symmetry
VIEW View
SPECIFICATION RollBackSpec
INVARIANT OwnHistoryUndoable
