\* One service's containers: cold starts, remediations, idle stops, restarts.
SPECIFICATION RuntimeFairSpec
CONSTANTS
  Services = {"api"}
  Eligible = {"api"}
  MaxContainers = 3
  MaxMishaps = 2
  MaxRestarts = 1
  Limit = 1
  ReusePorts = FALSE
INVARIANTS
  Accounted
PROPERTIES
  StaleRecordHeals
\* The bounds end a behaviour.
CHECK_DEADLOCK FALSE
