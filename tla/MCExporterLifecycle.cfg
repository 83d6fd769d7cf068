SPECIFICATION Spec

CONSTANTS
    Nil = Nil
    ExporterNamespace = "amazon-cloudwatch"
    AgentName = "agent"
    Exporters <- MCExporters
    Specs <- MCSpecs
    Agents <- MCAgents
    MaxOps = 3

INVARIANTS
    TypeOK
    StaleOnlyIfAgentChanged

PROPERTIES
    LostOnlyToNamesake
    EventuallyFollows
    EventuallyStable

CHECK_DEADLOCK FALSE
