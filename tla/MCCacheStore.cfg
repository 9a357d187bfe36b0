\* Two windows; three saves of two identifiers between them, so that an identifier is
\* reused and retention removes an image; one fault.
SPECIFICATION Spec
CONSTANTS
    Windows = {w1, w2}
    w1 = w1
    w2 = w2
    MaxPuts = 3
    MaxNames = 2
    MaxOpens = 2
    MaxFaults = 1
    Retained = 2
SYMMETRY Symmetry
CHECK_DEADLOCK FALSE
INVARIANTS
    AckedLoadable
    ReaderGrace
