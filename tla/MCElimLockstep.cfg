SPECIFICATION FairSpec
CONSTANTS
    N = 3
    Parallelism = 2
    Concurrent = TRUE
    RefLen = 4
    Lead = 1
    FirstWindow = 1
    Margin = 1
    MaxLockstep = 1
    WindowGrowth = 2
    AgreeLimit = 2
    UntestedLimit = 3
    Cases <- MCLockstepCases
INVARIANTS
    EarliestOfTested
    LockstepBound
    NoMatchAccounts
    NoEngineLeft
PROPERTIES
    Termination
CHECK_DEADLOCK FALSE
