SPECIFICATION Spec
CONSTANTS
    Identifiers = {"X", "Y"}
    Sources <- MacroPrograms
    Values = {1, 2}
    LabelValue = 50
    LastPass = 3
INVARIANTS
    TypeOK
    PassesAgree
    CommandLineKept
    LaterPassesAccept
