SPECIFICATION FairSpecDRCluster
CONSTANTS
    c1 = c1
    c2 = c2
    c3 = c3
    none = none
    k1 = k1
    k2 = k2
    b1 = b1
    DRClusters <- TwoClusters
    NFClasses = {k1, k2}
    Backends = {b1}
    None = none
    Scenes <- EveryScene
INVARIANTS
    UnfencedIsOpen
PROPERTIES
    
    FailoverProceeds
    ModeReleased
CHECK_DEADLOCK FALSE
