SPECIFICATION MCSpec
CONSTANTS
    Blocks = 8
    Workers = 2
    Chunks = 2
    Block = 5
    DictSize = 3
    Stream = 3
    Longest = 13
    MinGap = 2
    Amounts = {0, 1, 2, 3, 5, 7}
INVARIANTS
    InJobOrder
    CloseIsHonest
    BoundedAhead
    JobsAreInput
    SamePieces
    StreamedAsWhole
PROPERTIES
    Termination
CHECK_DEADLOCK FALSE
