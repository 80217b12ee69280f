SPECIFICATION FairSpecGroup
CONSTANTS
    Stores = 2
    VolumeUnprotectionEnabled = TRUE
    m1 = m1
    m2 = m2
    Members <- TwoMembers
    GroupScenes <- EveryGroup
INVARIANTS
    GroupArchivedIsStored
    NoGroupLeftBehind
PROPERTIES
    GroupDemotedUnused
    GroupReleases
CHECK_DEADLOCK FALSE
