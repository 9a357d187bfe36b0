SPECIFICATION Spec
CHECK_DEADLOCK FALSE
CONSTANTS
    Setups = {"one", "two"}
    Request <- MCRequest
    Definition <- MCDefinition
    Additions <- MCAdditions
    Platforms = {"linux", "windows"}
    MaxRuns = 2
    MaxCommands = 0
    MaxFaults = 1
    None = None
PROPERTIES
    RerunResumes
