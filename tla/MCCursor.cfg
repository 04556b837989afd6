CONSTANTS
    MaxCnt = 63
    Chars = {"a", "-"}
    Delims = {" ", "-"}
    Keywords = {}
    Wraps <- MCNoWraps
    Texts <- MCTextsCursor
    SavedCols = {0, 1, 3}
    TabWidth = 4
    UnindentKeywords = FALSE
    DeleteWS = TRUE
    SpacesOnly = FALSE
    AfterBlock = FALSE
    BlockIns = FALSE
    CompressMoves = FALSE
    PMClipboard = TRUE
    PageRows = 3
    Commands = {"Left", "Right", "Up", "Down", "Home", "End", "PgUp", "PgDn", "WordLeft", "WordRight", "FileBegin", "FileEnd", "JumpLine", "JumpCol", "Mouse", "FlipType", "Ins", "FlipAutoIndent", "Type", "DelWordLeft", "DelWordRight", "Undo"}
    MaxLines = 4
    MaxWidth = 4
    MaxUndo = 2
SPECIFICATION MCSpec
INVARIANTS CursorInText
CHECK_DEADLOCK FALSE
