SPECIFICATION Spec
CONSTANTS
    Scenarios <- MCScenarios
    BatchSize = 2
    LogCap = 2
    RingSize = 2
INVARIANTS
    StreamExact
    ReadExact
    HoldsFull
PROPERTIES
    TaaFlows
CHECK_DEADLOCK FALSE
