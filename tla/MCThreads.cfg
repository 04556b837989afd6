SPECIFICATION Spec
CONSTANTS
    Keys <- MCKeysThreads
    Macro <- MCMacroThreads
    Reps = {1, 2}
    Messages = {"cursor", "execute"}
    Started = {"timer", "mouse", "pipe"}
    Names = {"f"}
    MayOverwrite = FALSE
    MaxBoxes = 1
INVARIANTS TypeOK LogsUnmixed NothingLostUnasked NothingAfterRemoval
PROPERTY EditorEnds
