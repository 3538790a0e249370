SPECIFICATION Spec
CONSTANTS
    Filters = {"a", "b", "fam", "ref", "bad"}
    Default = "a"
    Kind <- MCKind
    Matches <- MCMatches
    Limit = 1
    Boxes = {"trigger", "output"}
    MaxEdits = 3
CHECK_DEADLOCK FALSE
INVARIANTS
    ListIsOfFilters
    OptionsAreOfKey
PROPERTIES
    Settles
