SPECIFICATION Spec
CONSTANTS
    Workers = {w1, w2, w3}
    NoWorker = NoWorker
    Calls = {1, 2}
    RoundOf <- MCRoundOf
    MaxPrompts = 1
SYMMETRY Symmetry
CHECK_DEADLOCK FALSE
INVARIANTS
    RefusalStops
