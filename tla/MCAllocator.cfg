SPECIFICATION ServerSpec

CONSTANTS
    c1 = c1
    c2 = c2
    c3 = c3
    c4 = c4
    i1 = i1
    i2 = i2
    i3 = i3
    u1 = u1
    u2 = u2
    Unassigned = Unassigned
    Collector <- MCCollector
    Item <- MCItem
    URL <- MCURL
    UrlOf <- MCUrlOf
    Locate <- MCLocate

INVARIANTS
    OwnedByLocate
    MappingIsOwnership
    NumTargetsIsServed
    OverviewMisleadsOnlyIfMoved

PROPERTY ImplementsAssignment
