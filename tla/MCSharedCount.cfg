SPECIFICATION SpecLifecycle
CONSTANTS
  Clusters = {c1, c2}
  NoCluster = NoCluster
  VolSync = TRUE
  Regress = FALSE
  MaxGeneration = 1
  MaxFaults = 1
  UserActions = {"", "Failover", "Relocate"}
  Scenes <- BesideDown
PROPERTIES
  RelocateLosesNothing
CHECK_DEADLOCK FALSE
