SPECIFICATION Spec
CHECK_DEADLOCK FALSE
CONSTANTS
    Setups = {"one", "two"}
    Request <- MCRequest
    Definition <- MCDefinition
    Additions <- MCAdditions
    Platforms = {"linux", "windows"}
    MaxRuns = 3
    MaxCommands = 2
    MaxFaults = 2
    None = None
INVARIANTS
    UniqueIds
PROPERTIES
    OkServesRequest
    CleanStartSucceeds
    ForeignKept
