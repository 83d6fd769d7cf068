SPECIFICATION WatchSpec

CONSTANTS
    c1 = c1
    c2 = c2
    c3 = c3
    i1 = i1
    u1 = u1
    Unassigned = Unassigned
    Collector <- MCCollector
    Item <- MCItem
    URL <- MCURL
    UrlOf <- MCUrlOf
    Locate <- MCLocate
    MaxEvents = 4

INVARIANTS
    LivePodsTracked
    GoneOnlyIfMissed
    AllocatorFollowsMap

PROPERTIES
    EventuallyCollector
    EventuallyDropped
