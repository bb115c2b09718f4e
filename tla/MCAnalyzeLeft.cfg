SPECIFICATION ASpec
CONSTANTS
    Contents = {0, 1, 2, 3}
    MaxInMemory = 1
INVARIANTS
    FailureLeavesNoOutputFiles
CHECK_DEADLOCK FALSE
