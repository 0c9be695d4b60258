SPECIFICATION Spec
CONSTANTS
    Process = {p1, p2}
    Windows = {p2}
    Destination = {"d1", "d2"}
    Default <- FirstDestination
    Selectable <- Selections
    Entries <- Offers
    Fold <- Bases
    Unsafe = {}
    MaxName = 2
    Bytes <- OneByte
    MaxPath = 3000
    MaxSuffix = 2
    MaxOffers <- OffersTo
    MaxCrashes = 1
    UserPaths <- Taken
INVARIANTS
    TypeOK
    ReportsAreTrue
    
    OwnLeftoversGone
    
    NoEmptyFolderLeft
PROPERTIES
    NothingOverwritten
CHECK_DEADLOCK FALSE
