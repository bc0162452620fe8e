SPECIFICATION Spec
CONSTANTS
    Sources <- Texts
    Bits = 8
    ByteBits = 4
    StackDepth = 9
    MaxOpen = 2
    Labels <- MCLabels
    Address = 10
    StartAddress = 7
INVARIANTS
    TypeOK
    ResultIsRight
    LevelsGrow
    LiteralsAreRight
    DefineValuesAreLiterals
