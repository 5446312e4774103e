SPECIFICATION FairSpec
CONSTANTS
  i1 = i1  i2 = i2
  Imports = {i1, i2}
  ScanEnabled = TRUE
  None = None
  MaxFaults = 3
INVARIANTS VerdictSound AuditAccounted
PROPERTIES FlagsTakenDown
CHECK_DEADLOCK FALSE
