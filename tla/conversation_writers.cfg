SPECIFICATION Spec
CONSTANTS
    Attempts = {w1, w2}
    Branches = {b1, b2}
    NoAttempt = NoAttempt
    NoBranch = NoBranch
    Messages = {m, n}
    MaxLength = 2
    MaxRows = 4
SYMMETRY Symmetry
CHECK_DEADLOCK FALSE
INVARIANTS
    TypeOK
    ChainsWhole
PROPERTIES
    ReadersFollowWriter
