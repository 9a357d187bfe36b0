SPECIFICATION Spec
CONSTANTS
    Sources = {a}
    Configs <- TwoConfigs
    RestartConfigs = {}
    StartupConfig = "startup"
    Basis = "strict_hash"
    Boots = {"fresh"}
    Semantic = FALSE
    ChannelCapacity = 1
    PathCapacity = 1
    MaxEdits = 1
    MaxFaults = 0
    MaxRescans = 0
    None = None
INVARIANTS BootMissesNothing
