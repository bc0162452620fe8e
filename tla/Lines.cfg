SPECIFICATION Spec
CONSTANTS
    Files <- AllFiles
    BufferSize = 6
    MaxSize = 3
    ShortReads = TRUE
    Includes = TRUE
INVARIANTS
    TypeOK
    LinesAreRight
    ResumesBetweenLines
    TooLongIsNearlyTrue
PROPERTIES
    Ends
