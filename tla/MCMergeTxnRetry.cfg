SPECIFICATION Spec
CONSTANTS
    ParityNum = 2
    MaxAttempts = 2
    PatientRetry = FALSE
    r1 = r1
    Readers <- MCNoReaders
INVARIANT
    RetrySound
CHECK_DEADLOCK FALSE
