SPECIFICATION Spec
CONSTANTS
  MaxFiles = 2
  Procs = {"p1", "p2"}
  Sweeps = {"s1"}
  ListLimit = 2
CHECK_DEADLOCK FALSE
INVARIANTS
  FreshFilesSurvive
  MidFlightIsSafe
PROPERTIES
  OrphansGo
