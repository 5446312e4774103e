\* r3 is refused; the address of r1 never answers; two crashes, one failed seal.
SPECIFICATION FairSpec
CONSTANTS
    r1 = r1  r2 = r2  r3 = r3
    Reports = {r1, r2, r3}
    Valid = {r1, r2}
    Dead = {r1}
    RetryMax = 3
    MaxCrashes = 2
    MaxSealFailures = 1
INVARIANTS Durable WorkerSound
PROPERTIES ReliableSpec EventuallyDelivered
CHECK_DEADLOCK FALSE
