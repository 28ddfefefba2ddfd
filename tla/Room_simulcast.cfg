SPECIFICATION Spec
CONSTANTS
    p1 = p1
    p2 = p2
    p3 = p3
    audio = audio
    video = video
    screen = screen
    Peers <- ThreePeers
    Tracks <- ThreeTracks
    Owner <- TwoPublishers
    Stream <- TwoStreams
    Simulcast = {screen}
    None = None
PROPERTIES
    EveryoneJoins
CHECK_DEADLOCK FALSE
