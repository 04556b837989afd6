CONSTANTS
    MaxCnt = 1
    Chars = {"a", "b"}
    Lines <- MCLines
    Flags = {"MarkState", "Changed"}
    MaxRows = 2
    MaxCol = 1
    MaxNotes = 2
    MaxUndo = 2
SPECIFICATION Spec
INVARIANTS LogsConnect
PROPERTIES UndoIsExact
