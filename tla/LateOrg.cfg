SPECIFICATION Spec
CONSTANTS
    A = A
    B = B
    Labels = {A, B}
    BlockSize = 2
    Invocations <- LateOrgInvocations
    IOFailures = {}
INVARIANTS
    NoBadInstrOrder
