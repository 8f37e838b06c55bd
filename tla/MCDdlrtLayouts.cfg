SPECIFICATION Spec
CONSTANTS
    ClusterNum = 17
    DatanodeNumPerCluster = 8
    LevelBound = 8
    KMax = 10
    RMax = 3
    ZMax = 3
    ExtraStripes = 2
    MaxLosses = 1
    OA1 <- MCOA1
    OA2 <- MCOA2
    Configs <- MCConfigs
INVARIANTS
    TypeOK
    RackTolerance
    MergeNeverRefused
    RacksMinimal
    ParityEncodesData
PROPERTY
    DataStaysPut
CHECK_DEADLOCK FALSE
