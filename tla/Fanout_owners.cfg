SPECIFICATION Spec
CONSTANTS
    p1 = p1
    p2 = p2
    p3 = p3
    chat = chat
    Peers <- ThreePeers
    Opens <- TwoOwners
    Early = {p1, p2}
    None = None
INVARIANTS
    TypeOK
    NobodyMissesALabel
    NoEcho
    NobodyIsStuck
PROPERTIES
    LateOpenerIsHeard
SYMMETRY Owners
CHECK_DEADLOCK FALSE
