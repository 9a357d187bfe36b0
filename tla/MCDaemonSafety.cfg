SPECIFICATION SafetySpec
CONSTANTS
    Sources = {a}
    Configs <- TwoConfigs
    RestartConfigs = {}
    StartupConfig = "startup"
    Basis = "metadata_audit"
    Boots = {"fresh", "reopened"}
    Semantic = TRUE
    ChannelCapacity = 1
    PathCapacity = 1
    MaxEdits = 1
    MaxFaults = 1
    MaxRescans = 1
    None = None
INVARIANTS OfflineChangesFirst
PROPERTIES Settles
