SPECIFICATION FairSpec
CONSTANTS
  Deliveries = 2
  Stops = {s1}
  Cases = 2
  MaxFaults = 1
INVARIANTS StopTruthful ResultsBacked
PROPERTIES AttemptEnds
CHECK_DEADLOCK FALSE
