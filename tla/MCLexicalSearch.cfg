SPECIFICATION SearchSpec
CONSTANTS
    Docs = {1, 2, 3, 4}
    Source <- MCSource
    Contexts = 2
    Context <- MCContext
    Layouts <- MCLayouts
    Words = {1, 2, 3, 4, 5, 6}
    Completions <- MCCompletions
    Length <- MCLength
    Identifiers = {4}
    ChunkTexts <- MCTexts
    Requests <- MCRequests
    Score <- MCScore
    MinPrefixChars = 3
    MaxPrefixTerms = 1
    MaxExpansions = 2
    MaxScan = 2
    MaxPartialTerms = 3
    MaxCandidates = 3
    MaxTotal = 3
    MaxProofs = 4
    MinSources = 2
    Limit = 3
INVARIANTS
    RebuildRanksTheSame
    StrongestKept
    ThinAnswersWiden
    FaithfulToQuery
CHECK_DEADLOCK FALSE
