\* One request at a time, three versions.
SPECIFICATION Spec
CONSTANTS
  w1 = w1
  Workers = {w1}
  MaxDeployments = 3
  MaxBuilds = 1
  MaxFaults = 0
  GatedEnvs = {"production"}
  IsDevCopy = FALSE
  Ops = {"deploy", "rollback", "auto", "decide", "build", "suspend", "adminSuspend", "resume",
         "adminResume", "restart", "archive", "delete", "cleanup"}
INVARIANTS
  AtMostOneRunning
PROPERTIES
  ImplementsRelease
\* The bounds end a behaviour, and so does deleting the application.
CHECK_DEADLOCK FALSE
