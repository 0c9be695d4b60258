SPECIFICATION Spec
CONSTANTS
    Fold <- FoldBase
    Unsafe = {7}
    MaxName = 2
    Bytes <- BytesOf
    Encoded <- EncodedOf
    Size <- SizeOf
    MaxPath = 6
    Overhead = 1
    MaxFrame = 8
    MaxEntries = 4
    MaxOmissions = 2
    MaxTotal = 7
    MaxChanges = 1
    Arguments <- ArgumentLists
    Sources <- SourceTrees
    OtherOffers <- OtherSequences
    Listings <- DestinationListings
INVARIANTS
    TypeOK
    TotalIsTrue
    FinalPathsAreDistinct
    
    EverythingIsDisclosed
    OwnOfferIsReviewed
CHECK_DEADLOCK FALSE
