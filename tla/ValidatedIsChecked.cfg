\* A behaviour the documentation rules out.
SPECIFICATION ContractSpec
CONSTANTS
  Editors = {"w1", "w2"}
  Askers = {}
  Engines = {"mysql"}
  MaxExceptions = 3
INVARIANTS
  ValidatedIsChecked
\* The bounds end a behaviour.
CHECK_DEADLOCK FALSE
