SPECIFICATION Spec
CONSTANTS
    Sources = {1, 2}
    Contents = {"long", "short", "empty"}
    Chunks <- MCChunks
    Builds = {1, 2, 3}
    Format <- MCFormat
    Profile <- MCProfile
    Distance <- MCDistance
    Filters = {{1, 2}, {1}}
    HYBRID_CANDIDATES = 3
    PageLimit = 2
    Strict = FALSE
    MaxEdits = 1
    MaxFaults = 2
    None = None
INVARIANTS
    SkipIsSound
    SyncedVectors
    CalmSearchIsExact
PROPERTIES
    VectorsCatchUp
