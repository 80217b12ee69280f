SPECIFICATION SpecCourses
CONSTANTS
  Clusters = {c1, c2}
  NoCluster = NoCluster
  VolSync = TRUE
  Regress = FALSE
  MaxGeneration = 2
  MaxFaults = 1
  UserActions = {"", "Failover", "Relocate"}
  Courses <- EveryCourse
SYMMETRY Symmetry
ACTION_CONSTRAINT QuietStepsFirst
INVARIANTS
    TypeOK
    OneActiveDecision
    SwitchNeverPlaces
    RelocatedNotCopied
PROPERTIES
    DemotedBeforePromotionInTurn
    RelocateLosesNothing
    RetainedUntilSecondary
