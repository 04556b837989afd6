SPECIFICATION Spec
CONSTANTS
    Keys <- MCKeysFiles
    Macro <- MCMacroFiles
    Reps = {1}
    Messages = {"open", "cursor"}
    Started = {"pipe"}
    Names = {"f", "g"}
    MayOverwrite = FALSE
    MaxBoxes = 2
INVARIANTS CurrentExists TrackingBalanced EveryChangeNoted SavedIsKept
