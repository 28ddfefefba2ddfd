SPECIFICATION Spec
CONSTANTS
    t1 = t1
    t2 = t2
    t3 = t3
    t4 = t4
    Changes <- TwoChanges
    Handler = Handler
    Candidates = {}
    Refused = {}
    None = None
PROPERTIES
    EveryChangeIsOffered
CHECK_DEADLOCK FALSE
