CONSTANTS
    NumSockets = 2
    NumCores = 2
    Ports = {1}
    Kinds <- TypeKinds
    SocketMax = 2
    RingMax = 1
    QueueMax = 2
    CarNum = 2
    MaxFrames = 3
SPECIFICATION FairSpec
INVARIANT TypeOK
INVARIANT OneFramePerPort
INVARIANT WireInOrder
INVARIANT NothingLost
INVARIANT AllAccountedFor
PROPERTY Drains
