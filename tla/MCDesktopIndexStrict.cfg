SPECIFICATION Spec
CONSTANTS
    v1 = v1
    z = z
    Vaults = {v1}
    Sources = {s1, s2}
    VaultOf <- InOneVault
    Contents = {x, k}
    SizeOf <- Sizes
    Skipped = {k}
    Unprepared = {}
    Regs = {1}
    Builds = {1}
    Basis = "strict_hash"
    RacyWindow = 0
    Oversized = {}
    MaxClock = 0
    None = None
INVARIANTS Converged
SYMMETRY Symmetry
PROPERTIES RemovedOnlyWhenGone
