SPECIFICATION Spec

CONSTANTS
    Submissions <- MCSubmissions
    Annotations <- MCAnnotations
    Namespaces <- MCNamespaces
    Clusters <- MCClusters
    MaxChanges = 2

INVARIANTS
    TypeOK
    AcceptedUnlessKnown
    ReferencesComeFirst
    ThirdPartyUntouched
    RefusedOnlyIfChanged

CHECK_DEADLOCK FALSE
