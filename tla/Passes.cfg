SPECIFICATION Spec
CONSTANTS
    A = A
    B = B
    Labels = {A, B}
    BlockSize = 2
    Invocations <- AllInvocations
    IOFailures <- FailingPrograms
INVARIANTS
    TypeOK
    OutputResolved
    RangeErrorIsReal
    ExitCodeTellsOutput
    WideRepeats
    ReadsInOrder
PROPERTIES
    ImplementsAssembler
    EveryTurnIsCounted
    Terminates
