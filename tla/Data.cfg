\* An application's data: its database and password, its backups, its dev copy, a delta.
SPECIFICATION MCSpec
CONSTANTS
  Rotators = {"r1"}
  MaxPasswords = 2
  MaxDbFaults = 1
  MySQL = TRUE
  Requests = {"r1"}
  MaxBackups = 3
  MaxDays = 2
  FullDays = {2}
  MaxBkFaults = 1
  BkOps = {"full", "diff", "restore", "copy", "purge"}
  Callers = {"o1"}
  MaxCopies = 2
  MaxProd = 1
  MaxDcFaults = 1
  Lines = {"a", "b"}
  Tails = {"", "t"}
  Nothing = ""
  MaxLines = 3
  MaxCandidates = 1
INVARIANTS
  DeltaRestores
  PasswordKept
  AlwaysOne
  EndedIsDeleted
PROPERTIES
  IdleSleeps
  DailyBackup
  
\* The bounds end a behaviour.
CHECK_DEADLOCK FALSE
