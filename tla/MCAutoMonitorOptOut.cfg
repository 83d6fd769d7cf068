SPECIFICATION Spec

CONSTANTS
    w1 = w1
    s1 = s1
    ns = ns
    app = app
    tier = tier
    java = java
    note = note
    Workload <- MCWorkload
    Service <- MCService
    Namespace <- MCNamespace
    Label <- MCLabel
    Language <- MCLanguage
    UserKey <- MCUserKey
    NamespaceOf <- MCNamespaceOf
    LabelsOf <- MCLabelsOf
    MonitorAllServices = TRUE
    Languages <- MCLanguage
    CustomSelector <- NoLanguages
    Exclude <- NoLanguages
    ExcludedNamespaces = {}
    NoService = NoService
    Nil = Nil
    MaxServiceChanges = 2
    MaxEdits = 0
    MaxFailures = 0
    MaxRestarts = 0

PROPERTY OptOutTakesEffect
