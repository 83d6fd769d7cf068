SPECIFICATION CASpec

CONSTANTS
    MaxVersion = 4
    MaxEvents = 3
    Missing = Missing

INVARIANTS
    StaleOnlyIfMissed

CHECK_DEADLOCK FALSE

PROPERTY EventuallyLoaded
