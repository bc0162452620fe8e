SPECIFICATION Spec
CONSTANTS
    Identifiers = {"X"}
    Sources <- OneName
    Values = {1}
    LabelValue = 50
    LastPass = 3
PROPERTIES
    LabelsSurvive
