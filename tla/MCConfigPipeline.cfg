SPECIFICATION Spec

CONSTANTS
    MaxVersion <- MCMaxVersion
    Kind <- MCKind
    None = None

INVARIANTS
    NoLostNotification
    AppliedTogether
    TargetsMatchConfig

PROPERTY EventuallyApplied

CHECK_DEADLOCK FALSE
