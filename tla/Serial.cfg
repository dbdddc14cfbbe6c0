\* One request at a time, every operation, handlers that keep going.
SPECIFICATION FairSpec
CONSTANTS
  w1 = w1
  Workers = {w1}
  MaxDeployments = 2
  MaxBuilds = 2
  MaxFaults = 0
  GatedEnvs = {"production"}
  IsDevCopy = FALSE
  Ops = {"deploy", "rollback", "auto", "decide", "build", "suspend", "adminSuspend", "resume",
         "adminResume", "restart", "archive", "delete", "cleanup"}
INVARIANTS
  NotStranded
  RunningHasVersion
  Settled
PROPERTIES
  DeploymentsEnd
  StatusSettles
\* The bounds end a behaviour, and so does deleting the application.
CHECK_DEADLOCK FALSE
