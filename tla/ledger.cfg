SPECIFICATION MCSpec
CONSTANTS
    EffectKeys = {e1}
    ControlKeys = {c}
    Values = {v1, v2}
    Owners = {o1, o2}
    Inputs = {i1, i2}
    DecisionIds = {d1, d2}
    NoValue = NoValue
    NoOwner = NoOwner
    NoDecision = NoDecision
    MaxVersion = 4
    MaxToken = 2
SYMMETRY Symmetry
INVARIANTS
    LedgerTypeOK
    OneDecisionPerIntent
    RetryHasDecision
    SubmissionOrder
PROPERTIES
    RecordLifecycle
    LeaseHandOver
    InputsSettle
