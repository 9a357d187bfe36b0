SPECIFICATION Spec
CONSTANTS
    v1 = v1
    Vaults = {v1}
    Sources = {s1}
    VaultOf <- InOneVault
    Paths = {p, q}
    Rooms = {room1, room2}
    Contents = {x, y}
    Builds = {1, 2}
    None = None
INVARIANTS NoOrphanDocument NoForeignDocument
