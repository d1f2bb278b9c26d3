CONSTANTS
    udp = udp
    Sockets = {udp}
    Types = {"ip"}
    Accepts <- MCAccepts
    RingNum = 7
    ReadMax = 3
    QueueMax = 2
    TrainNum = 2
    TrainMax = 2
    MaxFrames = 9
SPECIFICATION Spec
INVARIANT TypeOK
INVARIANT DeliveredWhole
INVARIANT NoneMissed
PROPERTY SocketsAreLossyChannels
