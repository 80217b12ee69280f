SPECIFICATION FairSpecKube
CONSTANTS
    c1 = c1
    c2 = c2
    s1 = s1
    s2 = s2
    Clusters <- TwoClusters
    Profiles = {s1, s2}
    RecipeMaxAttempts = 3
    Scenes <- EveryScene
INVARIANTS
    RecoverableCapture
    RestoredWhole
PROPERTIES
    RecoveryCompletes
CHECK_DEADLOCK FALSE
