SPECIFICATION Spec
CONSTANTS
    Pool <- MCPool
    Executable = {"so"}
    Replies <- MCReplies
    MaxSource = 2
    MaxBinary = 1
    MaxVerified = 3
    MaxRetries = 1
    Threshold = 2
INVARIANTS NoSilentAllow CleanScanSound BreakerSound
CHECK_DEADLOCK FALSE
