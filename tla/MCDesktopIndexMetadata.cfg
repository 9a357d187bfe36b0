SPECIFICATION Spec
CONSTANTS
    v1 = v1
    z = u
    Vaults = {v1}
    Sources = {s1}
    VaultOf <- InOneVault
    Contents = {x, k, u}
    SizeOf <- Sizes
    Skipped = {k}
    Unprepared = {u}
    Regs = {1, 2}
    Builds = {1, 2}
    Basis = "metadata_audit"
    RacyWindow = 0
    Oversized = {}
    MaxClock = 2
    None = None
INVARIANTS Converged ManifestIndexAgree ServedByThisBuild
