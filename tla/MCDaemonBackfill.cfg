SPECIFICATION Spec
CONSTANTS
    Sources = {a}
    Configs <- TwoConfigs
    RestartConfigs = {}
    StartupConfig = "startup"
    Basis = "strict_hash"
    Boots = {"booted"}
    Semantic = TRUE
    ChannelCapacity = 1
    PathCapacity = 1
    MaxEdits = 1
    MaxFaults = 0
    MaxRescans = 0
    None = None
INVARIANTS ConfigHeld
