SPECIFICATION Spec
CONSTANTS
    EffectKeys = {}
    ControlKeys = {}
    Values = {}
    DecisionIds = {}
    Owners = {a1, a2, a3}
    Inputs = {p}
    Prompts = {p}
    NoInput = NoInput
    NoValue = NoValue
    NoOwner = NoOwner
    NoDecision = NoDecision
    Screens = 1
    MaxRounds = 2
SYMMETRY Symmetry
CHECK_DEADLOCK FALSE
INVARIANTS
    ShownOnce
