SPECIFICATION Spec
CONSTANTS
    ParityNum = 2
    MaxAttempts = 1
    PatientRetry = TRUE
    r1 = r1
    Readers <- MCReaders
INVARIANT
    RepairUsesParity
