\* Two requests at once on the deployment pipeline, and an administrator.
SPECIFICATION Spec
CONSTANTS
  w1 = w1
  w2 = w2
  Workers = {w1, w2}
  MaxDeployments = 2
  MaxBuilds = 1
  MaxFaults = 0
  GatedEnvs = {"production"}
  IsDevCopy = FALSE
  Ops = {"deploy", "rollback", "auto", "decide", "build", "adminSuspend"}
SYMMETRY Symmetry
INVARIANTS
  OneInFlight
  ProductionGate
  BuiltFirst
\* The bounds end a behaviour, and so does deleting the application.
CHECK_DEADLOCK FALSE
