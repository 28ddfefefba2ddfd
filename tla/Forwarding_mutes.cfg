SPECIFICATION Spec
CONSTANTS
    HalfSN = 8
    Subscribers = {s1, s2}
    Kinds = {"audio", "video"}
    Builds = {"debug", "release"}
    MaxTrack = 4
    FirstExts = {13}
    Time <- FramesOfTwo
    MaxTS = 8
    MaxLead = 2
    MaxLag = 1
    MaxPackets = 3
    MaxMutes = 1
    NoPkt = NoPkt
INVARIANTS
    TypeOK
    KeyFrameFirst
    GapsAreLosses
    SequencerFindsInOrder
    OnlyOverflowStops
SYMMETRY Symmetry
CHECK_DEADLOCK FALSE
