SPECIFICATION Spec
CONSTANTS
    Workers = {w1, w2, w3}
    NoWorker = NoWorker
    Calls = {1, 2, 3}
    RoundOf <- MCRoundOf
    MaxPrompts = 2
SYMMETRY Symmetry
CHECK_DEADLOCK FALSE
INVARIANTS
    TypeOK
    AnnouncedAnswerable
PROPERTIES
    NothingBeforeAllDecided
    AnswersKept
