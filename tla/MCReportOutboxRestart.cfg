\* One crash is enough: the queue restored at start-up has no worker.
SPECIFICATION FairSpec
CONSTANTS
    r1 = r1  r2 = r2  r3 = r3
    Reports = {r1, r2}
    Valid = {r1, r2}
    Dead = {}
    RetryMax = 2
    MaxCrashes = 1
    MaxSealFailures = 0
PROPERTIES SealedEventuallyDelivered
CHECK_DEADLOCK FALSE
