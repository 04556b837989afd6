SPECIFICATION Spec
CONSTANTS
    Keys <- MCKeysExit
    Macro <- MCMacroExit
    Reps = {1}
    Messages = {"execute"}
    Started = {"pipe"}
    Names = {"f"}
    MayOverwrite = FALSE
    MaxBoxes = 1
INVARIANT NothingLostUnasked
