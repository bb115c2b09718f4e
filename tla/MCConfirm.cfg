SPECIFICATION Spec
CONSTANTS
    Blocks = 4
    Slots = 1
    RefLen = 3
    Limits = {0, 2}
    Behaviours <- MCBehaviours
INVARIANTS
    OkMeansConfirmed
    ErrorIsACause
PROPERTIES
    Termination
CHECK_DEADLOCK FALSE
