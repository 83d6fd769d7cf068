SPECIFICATION Spec

CONSTANTS
    statefulSet = statefulSet
    daemonSet = daemonSet
    hpa = hpa
    u1 = u1
    u2 = u2
    u3 = u3
    u4 = u4
    u5 = u5
    u6 = u6
    NoObject = NoObject
    Object <- MCObject
    Listed <- MCListed
    Workload <- MCWorkload
    UID <- MCUID
    Specs <- MCSpecs
    Managed <- MCManaged
    Desired <- MCDesired
    StatusOf <- MCStatusOf
    MaxSpecChanges = 2
    MaxMeddling = 1
    MaxFailures = 1

PROPERTIES
    EventuallyReconciled
    KeepsConfirmedObjects

CHECK_DEADLOCK FALSE
