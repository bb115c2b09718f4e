SPECIFICATION MCSpec
CONSTANTS
    Slots = 2
    Pieces = 2
    Writes = 4
    MaxInput = 21
    InCap = 2
    HeadSize = 3
    Chunk = 4
    JobSize = 8
    WSize = 16
    MatchCap = 6
    TooFar = 4
    RsyncWin = 4
    HashBits = 3
    LitBufsize = 12
    TallyPeriod = 8
    InChunk = 12
    OutFlush = 2
    WriteSizes = {1, 7, 20}
    Inputs <- MCInputs
    Blocks <- MCBlocks
    MaxBlocks = 2
    Samples <- MCSamples
INVARIANTS
    ReadsWhatWasWritten
    HangupRefuses
    WrittenInOrder
    SplitFree
    CloseIsHonest
    MemoryHeld
    HeardInTime
    BlocksSplitFree
    BlocksAreContent
    CutsFollowContent
    StreamLossless
    CountsAreBits
    TreesOptimal
PROPERTIES
    Termination
CHECK_DEADLOCK FALSE
