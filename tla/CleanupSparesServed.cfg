\* A behaviour the documentation rules out.
SPECIFICATION Spec
CONSTANTS
  w1 = w1
  Workers = {w1}
  MaxDeployments = 2
  MaxBuilds = 1
  MaxFaults = 0
  GatedEnvs = {"production"}
  IsDevCopy = FALSE
  Ops = {"deploy", "auto", "build", "cleanup"}
PROPERTIES
  CleanupSparesServed
\* The bounds end a behaviour, and so does deleting the application.
CHECK_DEADLOCK FALSE
