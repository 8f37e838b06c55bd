SPECIFICATION FairSpec
CONSTANTS
    Modes <- MCModes
    Rounds = 2
    StripeNum = 5
    MaxCalls = 3
    MaxFaults = 1
    MaxDeletes = 1
INVARIANTS
    TypeOK
    StripesConserved
    TableHasBlocks
    RunsOfBatch
PROPERTIES
    FullRound
    RoundReturns
CHECK_DEADLOCK FALSE
