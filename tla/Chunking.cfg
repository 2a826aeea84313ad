SPECIFICATION ChunkSpec
CONSTANTS
    MaxLines = 5
    Lines <- MCLines
    Documents <- MCDocuments
    DocMax = 6
    CodeMax = 7
    StructMax = 6
    MinContext = 3
INVARIANTS
    WindowsAdvance
    NothingLost
    IdsDistinct
    Traceable
CHECK_DEADLOCK FALSE
