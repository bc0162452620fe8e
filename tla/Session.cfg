SPECIFICATION Spec
CONSTANTS
    StackSize = 32
    EmitSize = 3
    MessageSize = 3
    MaxPass = 3
    Alignments = {1, 4}
    Sessions <- MCSessions
INVARIANTS
    TypeOK
    PassFollowsText
    FilesAreComplete
    ErrorsAreTold
    ArgumentsAreRight
PROPERTIES
    SessionEnds
