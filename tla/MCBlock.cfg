CONSTANTS
    MaxCnt = 63
    Chars = {"a", "b"}
    Delims = {" "}
    Keywords = {}
    Wraps <- MCNoWraps
    Texts <- MCTextsBlock
    SavedCols = {1}
    TabWidth = 2
    UnindentKeywords = FALSE
    DeleteWS = FALSE
    SpacesOnly = TRUE
    AfterBlock = TRUE
    BlockIns = TRUE
    CompressMoves = FALSE
    PMClipboard = TRUE
    PageRows = 3
    Commands = {"Mark", "Down", "Right", "Copy", "Cut", "Paste", "FlipBlockMode", "Undo"}
    MaxLines = 4
    MaxWidth = 4
    MaxUndo = 3
SPECIFICATION MCSpec
INVARIANTS CutPasteRoundTrip
PROPERTIES ImplementsHistory
CHECK_DEADLOCK FALSE
