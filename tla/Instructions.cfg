SPECIFICATION Spec
CONSTANTS
    BlockSize = 2
    Programs <- MCPrograms
    Options <- MCOptions
INVARIANTS
    TypeOK
    CodeIsRight
    OperandsDecide
    SizesAgree
    OrderIsKept
