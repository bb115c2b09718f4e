SPECIFICATION FairSpec
CONSTANTS
    N = 3
    Parallelism = 2
    Concurrent = TRUE
    RefLen = 2
    Cases <- MCCases
INVARIANTS
    NoMatchIsComplete
PROPERTIES
    Refines
    Termination
CHECK_DEADLOCK FALSE
