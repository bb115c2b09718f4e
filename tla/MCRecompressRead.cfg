SPECIFICATION Spec
CONSTANTS
    Blocks = 2
INVARIANTS
    MismatchIsConfirmed
CHECK_DEADLOCK FALSE
