SPECIFICATION Spec
CONSTANTS
    t1 = t1
    t2 = t2
    t3 = t3
    t4 = t4
    Changes <- FourChanges
    Handler = Handler
    Candidates = {c1, c2}
    Refused = {c2}
    None = None
INVARIANTS
    TypeOK
    OneOfferOutstanding
    OffersFromStable
    NoCandidateIsLost
    NothingIsForgotten
PROPERTIES
    OffersAreSettled
    ImplementsOffers
CHECK_DEADLOCK FALSE
