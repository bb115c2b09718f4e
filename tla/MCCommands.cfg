SPECIFICATION MCSpec
CONSTANTS
    Blocks = 3
    Contents = {0, 1, 2, 3}
    MaxInMemory = 1
    GzipSizes = {0, 1, 32767, 32768, 32769, 131071, 131072, 131073, 262144, 524288, 1048575, 1048576, 1048577, 2097152, 4194303, 4194304, 4194305, 8388608}
    ZstdSizes = {1, 131072, 200000, 524289, 2097152, 2097153, 134217729}
INVARIANTS
    VerdictIsRight
    NoEngineLeft
    OutputWholeOrUntouched
    ListFindsProducer
    AnswerFits
    FilesLeft
CHECK_DEADLOCK FALSE
