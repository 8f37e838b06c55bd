SPECIFICATION FairSpec
CONSTANTS
    c1 = c1
    c2 = c2
    Clients <- TwoClients
    GroupNum = 1
    MaxUploads = 2
    MaxFaults = 0
PROPERTIES
    SetReturns
CHECK_DEADLOCK FALSE
