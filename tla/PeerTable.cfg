SPECIFICATION LiveSpec
CONSTANTS
    Ids = {1, 2}
    Self = {}
    Labels <- TwoNames
    Capacity = 1
    ErrorCapacity = 1
    StaleAfter = 2
INVARIANTS
    TableFollowsBrowse
    ListIsCurrent
PROPERTIES
    StaleDisappear
