SPECIFICATION FairSpecLifecycle
CONSTANTS
  Clusters = {c1, c2}
  NoCluster = NoCluster
  VolSync = FALSE
  Regress = FALSE
  MaxGeneration = 1
  MaxFaults = 1
  UserActions = {"", "Failover", "Relocate"}
  Scenes <- EveryScene
INVARIANTS
    NoVRGLeftBehind
    CleanWhenCompleted
PROPERTIES
    RecoveryResumes
    FailoverRecovers
    RelocateCompletes
    PlacedOnRestored
    SecondaryDeletedFirst
    DRPCDeletionCompletes
CHECK_DEADLOCK FALSE
