SPECIFICATION Spec
CONSTANTS
    Attempts = {a1, a2}
    ControlChoices = {{a1, a2}, {a1}, {a2}}
    Hosts = {h1, h2}
    Owners = {a1, a2, h1, h2}
    ToolKeys = {c1}
    ModelKeys = {m1}
    EffectKeys = {c1, m1}
    Rounds = {{c1}, {m1}}
    ControlKeys <- MCControlKeys
    AfterKey <- MCAfterKey
    Values = {1, 2, 3, 4}
    DecisionIds = {d1, d2}
    Inputs = {}
    MaxRuns = 2
    MaxToken = 3
    NoValue = NoValue
    NoOwner = NoOwner
    NoDecision = NoDecision
SYMMETRY Symmetry
CHECK_DEADLOCK FALSE
INVARIANTS
    TypeOK
    AtMostOnce
    EffectRemembered
    IntentStands
    PunctualHolderKeepsFence
    ShownResultsAgree
    OneWorker
PROPERTIES
    ToolCallsOnce
    ProjectionReplayed
