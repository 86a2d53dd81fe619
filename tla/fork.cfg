SPECIFICATION ForkFairSpec
CONSTANTS
    a1 = a1
    a2 = a2
    Attempts = {a1, a2}
    ControlChoices = {{a1, a2}}
    Hosts = {}
    Owners = {a1, a2}
    ToolKeys = {c1}
    ModelKeys = {}
    EffectKeys = {c1}
    Rounds = {{c1}}
    ControlKeys <- MCControlKeys
    AfterKey <- MCAfterKey
    Values = {1, 2, 3, 4, 5, 6}
    DecisionIds = {}
    Inputs = {}
    MaxRuns = 3
    MaxToken = 2
    Stages = 2
    NoValue = NoValue
    NoOwner = NoOwner
    NoDecision = NoDecision
ACTION_CONSTRAINT NamedInOrder
CHECK_DEADLOCK FALSE
INVARIANTS
    ForkTypeOK
    InheritedNotRepeated
    UngatedNeverRuns
PROPERTIES
    EveryScopeReturns
    UsesLedger
