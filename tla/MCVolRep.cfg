SPECIFICATION FairSpecVolRep
CONSTANTS
    Stores = 2
    VolumeUnprotectionEnabled = TRUE
    p1 = p1
    p2 = p2
    Volumes <- TwoVolumes
    Scenes <- EveryScene
INVARIANTS
    ArchivedIsStored
    UserPolicyKept
PROPERTIES
    ImplementsContract
    SecondaryReleases
CHECK_DEADLOCK FALSE
