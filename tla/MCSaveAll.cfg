SPECIFICATION Spec
CONSTANTS
    Keys <- MCKeysSaveAll
    Macro <- MCMacroSaveAll
    Reps = {1}
    Messages = {}
    Started = {}
    Names = {"f"}
    MayOverwrite = FALSE
    MaxBoxes = 2
INVARIANT SavedIsKept
