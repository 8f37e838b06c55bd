SPECIFICATION Spec
CONSTANTS
    c1 = c1
    c2 = c2
    Clients <- OneClient
    GroupNum = 1
    MaxUploads = 2
    MaxFaults = 0
INVARIANTS
    AckedBlocksOwn
CHECK_DEADLOCK FALSE
