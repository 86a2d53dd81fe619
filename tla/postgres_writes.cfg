SPECIFICATION Spec
CONSTANTS
    Workers = {w1, w2, w3}
    NoWorker = NoWorker
    MaxToken = 3
    MaxVersion = 7
SYMMETRY Symmetry
CHECK_DEADLOCK FALSE
INVARIANTS
    TypeOK
    OneLateWrite
PROPERTIES
    SettledStands
