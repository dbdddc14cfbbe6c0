\* A behaviour the documentation rules out.
SPECIFICATION DbSpec
CONSTANTS
  Rotators = {"r1"}
  MaxPasswords = 3
  MaxDbFaults = 0
  MySQL = FALSE
INVARIANTS
  AwakeUnderService
\* The bounds end a behaviour.
CHECK_DEADLOCK FALSE
