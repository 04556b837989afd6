CONSTANTS
    MaxCnt = 63
    Chars = {"a", "b"}
    Delims = {" "}
    Keywords = {}
    Wraps <- MCNoWraps
    Texts <- MCTextsBlock
    SavedCols = {0, 1}
    TabWidth = 4
    UnindentKeywords = FALSE
    DeleteWS = FALSE
    SpacesOnly = TRUE
    AfterBlock = TRUE
    BlockIns = TRUE
    CompressMoves = FALSE
    PMClipboard = TRUE
    PageRows = 3
    Commands = {"Mark", "Up", "DelLine"}
    MaxLines = 4
    MaxWidth = 3
    MaxUndo = 3
SPECIFICATION MCSpec
INVARIANTS BlockCanBeCleared
CHECK_DEADLOCK FALSE
