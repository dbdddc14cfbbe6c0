\* A behaviour the documentation rules out.
SPECIFICATION DcSpec
CONSTANTS
  Callers = {"o1"}
  MaxCopies = 1
  MaxProd = 2
  MaxDcFaults = 0
PROPERTIES
  RealDataKept
\* The bounds end a behaviour.
CHECK_DEADLOCK FALSE
