SPECIFICATION Spec
CONSTANTS
    Owner <- TwoAndOne
    MaxQueued = 1
    Cancellers = {"in", "out"}
INVARIANTS
    TypeOK
    CoordinatorHoldsOneOffer
    
    AnswersFindTheirOffer
    
CHECK_DEADLOCK FALSE
