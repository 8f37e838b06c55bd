SPECIFICATION FairSpec
CONSTANTS
    c1 = c1
    c2 = c2
    Clients <- OneClient
    GroupNum = 2
    MaxUploads = 2
    MaxFaults = 1
INVARIANTS
    TypeOK
    AckedSlicesOwn
    AckedMetadata
    SlicesConserved
PROPERTIES
    EventuallySaved
CHECK_DEADLOCK FALSE
