SPECIFICATION Spec
CONSTANTS
    Files <- Plain
    BufferSize = 6
    MaxSize = 3
    ShortReads = FALSE
    Includes = FALSE
INVARIANTS
    LastLineIsFound
