SPECIFICATION AuditSpec
CONSTANTS
    Shapes <- TwoVaults
    SourceLimits = {2}
    ByteLimit = 6
    Cursors = {0}
    MaxAge = 6
PROPERTIES AuditedAgain
