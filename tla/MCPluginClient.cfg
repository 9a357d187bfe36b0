SPECIFICATION Spec
CONSTANTS
    MaxActivations = 3
    Daemons = {2}
    MaxSearches = 2
    MaxModes = 1
    MaxFaults = 2
INVARIANTS
    OneBackendAtATime
    AtRest
    ShownIsCurrent
PROPERTIES
    EverySearchSettles
CHECK_DEADLOCK FALSE
