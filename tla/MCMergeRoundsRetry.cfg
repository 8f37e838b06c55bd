SPECIFICATION Spec
CONSTANTS
    Modes <- MCDefault
    Rounds = 2
    StripeNum = 4
    MaxCalls = 2
    MaxFaults = 1
    MaxDeletes = 0
INVARIANTS
    CanRetry
CHECK_DEADLOCK FALSE
