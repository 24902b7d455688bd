\* Three pieces from each side through channels of one.
SPECIFICATION FairSpec
CONSTANTS
    Idle = 2
    Drain = 1
    ChannelCap = 1
    BatchMax = 2
    PongCap = 1
    Pieces = 3
INVARIANTS
    TypeOK
    DownTailArrives
PROPERTIES
    ImplementsStreams
    SilentSessionEnds
    PacketsArrive
