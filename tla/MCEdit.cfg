CONSTANTS
    MaxCnt = 63
    Chars = {"a", " "}
    Delims = {" "}
    Keywords = {}
    Wraps <- MCWraps
    Texts <- MCTextsWords
    SavedCols = {0, 3}
    TabWidth = 4
    UnindentKeywords = FALSE
    DeleteWS = FALSE
    SpacesOnly = FALSE
    AfterBlock = FALSE
    BlockIns = FALSE
    CompressMoves = FALSE
    PMClipboard = TRUE
    PageRows = 2
    Commands = {"Type", "TypeWrap", "Enter", "Down", "Bksp", "Del", "DelWordLeft", "DelWordRight", "Undo", "Save"}
    MaxLines = 3
    MaxWidth = 3
    MaxUndo = 3
SPECIFICATION MCSpec
INVARIANTS SavedIsOnDisk WrapKeepsWords
PROPERTIES ImplementsHistory
CHECK_DEADLOCK FALSE
