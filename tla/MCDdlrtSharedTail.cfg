SPECIFICATION Spec
CONSTANTS
    ClusterNum = 17
    DatanodeNumPerCluster = 8
    LevelBound = 8
    KMax = 10
    RMax = 3
    ZMax = 3
    ExtraStripes = 2
    MaxLosses = 1
    OA1 <- MCOA1
    OA2 <- MCOA2
    Configs <- MCSharedTailOverflow
INVARIANT
    SharedTailCapacity
CHECK_DEADLOCK FALSE
