SPECIFICATION Spec

CONSTANTS
    Nil = Nil
    Submissions <- MCSubmissions
    Patches <- MCPatches
    Gates <- MCGates
    MaxOps = 3

INVARIANTS
    TypeOK
    AdmittedIsBuilt
    ReferencesResolve
    ReceiversReachable

PROPERTIES
    CollectorKept
    ChangesTakeEffect

CHECK_DEADLOCK FALSE
