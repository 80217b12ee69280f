SPECIFICATION SpecCourses
CONSTANTS
  Clusters = {c1, c2}
  NoCluster = NoCluster
  VolSync = TRUE
  Regress = FALSE
  MaxGeneration = 2
  MaxFaults = 0
  UserActions = {"Relocate"}
  Courses <- Hasty
SYMMETRY Symmetry
ACTION_CONSTRAINT QuietStepsFirst
PROPERTIES
  DemotedBeforePromotion
