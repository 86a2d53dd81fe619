SPECIFICATION Spec
CONSTANTS
    EffectKeys = {}
    ControlKeys = {}
    Values = {}
    DecisionIds = {}
    Owners = {a1, a2}
    Inputs = {p, s}
    Prompts = {p}
    NoInput = NoInput
    NoValue = NoValue
    NoOwner = NoOwner
    NoDecision = NoDecision
    Screens = 1
    MaxRounds = 2
SYMMETRY Symmetry
CHECK_DEADLOCK FALSE
INVARIANTS
    TypeOK
    AdmittedWasCarried
    FinishDrains
    CarriedOnceUnlessTorn
    InSubmissionOrder
