CONSTANTS
    MaxCnt = 63
    Chars = {"a", "b"}
    Delims = {" "}
    Keywords = {}
    Wraps <- MCNoWraps
    Texts <- MCTextsBlock
    SavedCols = {1}
    TabWidth = 4
    UnindentKeywords = FALSE
    DeleteWS = FALSE
    SpacesOnly = TRUE
    AfterBlock = TRUE
    BlockIns = TRUE
    CompressMoves = FALSE
    PMClipboard = TRUE
    PageRows = 3
    Commands = {"MouseShift", "Type", "Enter", "Bksp", "DelLine", "DupLine", "DelToEOL", "Del", "Indent", "Unindent", "Upper", "FlipBlockMode", "Undo"}
    MaxLines = 4
    MaxWidth = 3
    MaxUndo = 2
SPECIFICATION MCSpec
PROPERTIES ImplementsHistory
CHECK_DEADLOCK FALSE
