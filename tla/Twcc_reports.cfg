SPECIFICATION Spec
CONSTANTS
    Cycle = 16
    LowMark = 3
    HighMark = 12
    OneBit = 4
    RunField = 16
    SmallDeltas = 2
    CountSize = 3
    LenSize = 4
    Builds = {"debug", "release"}
    First = 13
    Times <- ThreeTimes
    MaxLead = 2
    MaxLag = 1
    MaxPushes = 5
    MaxPending = 3
INVARIANTS
    TypeOK
    CyclesAreOffByTheStraddles
    PayloadSaysTheReports
    NoLossIsHidden
PROPERTIES
    ReportsLeaveNoHole
CHECK_DEADLOCK FALSE
