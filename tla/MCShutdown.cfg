SPECIFICATION Spec

INVARIANTS
    ReceiverOutlivesSender

PROPERTY ShutdownCompletes

CHECK_DEADLOCK FALSE
