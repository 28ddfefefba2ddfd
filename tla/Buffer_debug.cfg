SPECIFICATION Spec
CONSTANTS
    HalfSN = 8
    MaxSteps = 2
    NoPacket = NoPacket
    MaxNackTimes = 2
    BlpBits = 5
    OverflowChecks = TRUE
    Nack = TRUE
    FirstSNs = {0, 1, 2, 10}
    Garbled <- GarbledInGap
    Rocs <- RocsOfOneCycle
    Cycles32 = 4
    MaxLead = 7
    MaxLag = 3
    MaxBacklog = 2
    MaxPackets = 5
INVARIANTS
    TypeOK
    QueueHoldsTheMissing
    RequestsAreBounded
    PairsNameTheDue
    HeadsAreInOrder
PROPERTIES
    KeyFrameIsJustified
CHECK_DEADLOCK FALSE
