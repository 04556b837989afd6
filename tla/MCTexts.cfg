CONSTANTS MaxLen = 4 Bits = 5 Large = 16 Delta = 1
SPECIFICATION Spec
INVARIANT TokensTileTheLine
INVARIANT EndStateIsTheGrammars
INVARIANT ScrollingKeepsColours
INVARIANT BlockIsShown
INVARIANT MatchIsMutual
INVARIANT TabsKeepColumns
INVARIANT FilesComeBack
INVARIANT CasesAgree
INVARIANT SearchFindsFirst
INVARIANT RepliesAreObeyed
INVARIANT SortOrders
INVARIANT StartStatesCurrent
INVARIANT BookmarksFollow
INVARIANT ProfileReads
INVARIANT MacrosReplay
INVARIANT CompletionOffersAll
INVARIANT KeywordsFound
INVARIANT VariablesAreKept
INVARIANT ScreenComesBack
CHECK_DEADLOCK FALSE
