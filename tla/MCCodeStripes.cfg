SPECIFICATION Spec
CONSTANTS
    ClusterNum = 17
    DatanodeNumPerCluster = 8
    LevelBound = 4
    MaxIds = 6
    MaxLosses = 2
    MaxFaults = 1
    MaxRepairs = 1
    OA1 <- MCOA1
    OA2 <- MCOA2
    Configs <- MCConfigs
INVARIANTS
    TypeOK
    RsRackTolerance
    RsRacksBounded
    MergesKeepData
    RsParityEncodes
    LrcRackTolerance
    RepairExact
    PlacementEnds
CHECK_DEADLOCK FALSE
