SPECIFICATION Spec
CONSTANTS
    Joins = {j1, j2}
    Offers = {o1}
    Candidates = {c1, c2}
    Refused = {c2}
    MaxFeedback = 2
    None = None
INVARIANTS
    TypeOK
    EveryCallIsAnswered
    IgnoredOnlyAfterAFailure
    CandidatesReachTheConnection
PROPERTIES
    WriterEnds
CHECK_DEADLOCK FALSE
