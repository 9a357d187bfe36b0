SPECIFICATION AuditSpec
CONSTANTS
    Shapes <- SmallShapes
    SourceLimits = {1, 2, 3}
    ByteLimit = 6
    Cursors = {0, 1, 2, 3, 4}
    MaxAge = 6
INVARIANTS AuditBound
