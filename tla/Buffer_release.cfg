SPECIFICATION Spec
CONSTANTS
    HalfSN = 4
    MaxSteps = 2
    NoPacket = NoPacket
    MaxNackTimes = 3
    BlpBits = 2
    OverflowChecks = FALSE
    Nack = TRUE
    FirstSNs = {3, 6}
    Garbled <- GarbledAtWrap
    Rocs <- RocsOfThreeCycles
    Cycles32 = 4
    MaxLead = 3
    MaxLag = 5
    MaxBacklog = 1
    MaxPackets = 5
INVARIANTS
    ExtendedSNIsRight
PROPERTIES
    ForwardedIsStored
CHECK_DEADLOCK FALSE
