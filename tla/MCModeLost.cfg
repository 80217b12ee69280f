SPECIFICATION SpecDRCluster
CONSTANTS
    c1 = c1
    c2 = c2
    c3 = c3
    none = none
    k1 = k1
    k2 = k2
    b1 = b1
    DRClusters <- ThreeClusters
    NFClasses = {k1, k2}
    Backends = {b1}
    None = none
    Scenes <- AnotherDeleted
INVARIANT ModeHeld
CHECK_DEADLOCK FALSE
