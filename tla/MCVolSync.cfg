SPECIFICATION FairSpecVolSync
CONSTANTS
    VolumeUnprotectionEnabled = TRUE
    c1 = c1
    c2 = c2
    p1 = p1
    p2 = p2
    Clusters <- TwoClusters
    Claims <- TwoClaims
    Scenes <- EveryScene
INVARIANTS
    HandedOverWhole
    RelocatedIsNewest
    NothingLeftBehind
PROPERTIES
    LoopsOnlyPastAFailedDelete
    LoopsAreUndone
    RelocationEnds
CHECK_DEADLOCK FALSE
