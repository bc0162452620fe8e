SPECIFICATION Spec
CONSTANTS
    Files <- Mixed
    BufferSize = 6
    MaxSize = 3
    ShortReads = FALSE
    Includes = TRUE
INVARIANTS
    NumbersAreRight
