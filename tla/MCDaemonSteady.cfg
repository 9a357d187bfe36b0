SPECIFICATION Spec
CONSTANTS
    Sources = {a, b}
    Configs <- ThreeConfigs
    RestartConfigs = {"rebound"}
    StartupConfig = "startup"
    Basis = "strict_hash"
    Boots = {"booted"}
    Semantic = FALSE
    ChannelCapacity = 1
    PathCapacity = 1
    MaxEdits = 3
    MaxFaults = 1
    MaxRescans = 0
    None = None
INVARIANTS ChangeIsTracked CurrentIsHonest ConfigHeld
PROPERTIES HintsSuffice ConfigAdopted
