\* One request at a time, with a caller that leaves, a failed stop or a restart.
SPECIFICATION Spec
CONSTANTS
  w1 = w1
  Workers = {w1}
  MaxDeployments = 2
  MaxBuilds = 2
  MaxFaults = 1
  GatedEnvs = {"production"}
  IsDevCopy = FALSE
  Ops = {"deploy", "rollback", "auto", "decide", "build", "suspend", "adminSuspend", "resume",
         "adminResume", "restart", "archive", "delete", "cleanup"}
INVARIANTS
  TypeOK
PROPERTIES
  ReplacedFirst
\* The bounds end a behaviour, and so does deleting the application.
CHECK_DEADLOCK FALSE
