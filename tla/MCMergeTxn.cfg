SPECIFICATION FairSpec
CONSTANTS
    ParityNum = 2
    MaxAttempts = 2
    PatientRetry = TRUE
    r1 = r1
    Readers <- MCReaders
INVARIANTS
    TypeOK
    SourcesKept
    MergedSound
    BadReadsOvertaken
PROPERTY
    EveryRequestAnswered
    ImplementsAtomicMerge
