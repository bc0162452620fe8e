SPECIFICATION Spec
CONSTANTS
    Labels = {1, 2, 3, 4, 5, 6, 7, 8, 9, 10}
    MacroLabels = {2, 3}
    Log2MaxNodes = 4
    Uses <- MCUses
INVARIANTS
    TypeOK
    RedBlackTree
    PathFits
    SearchFinds
PROPERTIES
    ImplementsStore
    OperationsEnd
