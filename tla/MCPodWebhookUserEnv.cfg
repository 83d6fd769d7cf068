SPECIFICATION Spec

CONSTANTS
    Submissions <- MCSubmissions
    Annotations <- MCAnnotations
    Namespaces <- MCNamespaces
    Clusters <- MCClusters
    MaxChanges = 0

INVARIANT UserEnvKept

CHECK_DEADLOCK FALSE
