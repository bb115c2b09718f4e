SPECIFICATION Spec
CONSTANTS
    N = 2
    Parallelism = 2
    Concurrent = TRUE
    RefLen = 5
    Lead = 1
    FirstWindow = 1
    Margin = 1
    MaxLockstep = 1
    WindowGrowth = 2
    AgreeLimit = 2
    UntestedLimit = 3
    Cases <- MCSettleCases
INVARIANTS
    SettledHasMatched
CHECK_DEADLOCK FALSE
