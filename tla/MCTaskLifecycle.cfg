SPECIFICATION FairSpec
CONSTANTS
  m = m  c = c  d1 = d1  d2 = d2  t1 = t1  t2 = t2  t3 = t3  t4 = t4
  None = None
  Jobs = {m, c, d1}
  Kind <- Kinds
  TaskId <- Ids
  Config <- Configs
  Readers = {r1}
  Stops = {s1}
  Phases = {1, 2}
  PanicStages = {"work", "check"}
  MaxSwitches = 1
INVARIANTS SingleTask GateSound StopMeansStopped OutcomesReported ModelSettledForTraining
PROPERTIES SwitchOnlyIdle TasksEnd
CHECK_DEADLOCK FALSE
