SPECIFICATION Spec
CONSTANTS
  a = a  b = b  c = c  m = m  ra = ra  rc = rc  rm = rm  ta = ta  tm = tm
  None = None
  Jobs = {a, b, m}
  Kind <- Kinds
  Req <- ReqIds
  Task <- TaskIds
  Exports = {x}
  CheckResults = TRUE
  FailClosed = TRUE
  MaxAttempts = 1
  MaxCrashes = 2
  MaxFaults = 2
INVARIANTS OnlyPassedExported IndexSound RecoveryExact
CHECK_DEADLOCK FALSE
