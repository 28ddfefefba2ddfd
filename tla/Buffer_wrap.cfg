SPECIFICATION Spec
CONSTANTS
    HalfSN = 4
    MaxSteps = 2
    NoPacket = NoPacket
    MaxNackTimes = 3
    BlpBits = 2
    OverflowChecks = TRUE
    Nack = TRUE
    FirstSNs = {5, 6}
    Garbled = {}
    Rocs <- RocsOfThreeCycles
    Cycles32 = 4
    MaxLead = 3
    MaxLag = 5
    MaxBacklog = 1
    MaxPackets = 4
INVARIANTS
    ReaderSurvives
CHECK_DEADLOCK FALSE
