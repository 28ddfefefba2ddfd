SPECIFICATION Spec
CONSTANTS
    HalfSN = 4
    MaxSteps = 3
    NoPacket = NoPacket
    MaxNackTimes = 3
    BlpBits = 2
    OverflowChecks = TRUE
    Nack = TRUE
    FirstSNs = {1}
    Garbled = {}
    Rocs <- RocsOfOneCycle
    Cycles32 = 4
    MaxLead = 3
    MaxLag = 0
    MaxBacklog = 1
    MaxPackets = 5
INVARIANTS
    KeepsTheLastPackets
CHECK_DEADLOCK FALSE
