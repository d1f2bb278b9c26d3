CONSTANTS
    CntMax = 63
    Half = 32
    Window = 8
    FrameNum = 2
    Receiver = "inet"
    Paced = FALSE
    SinkFills = FALSE
    MaxAhead = 5
    StartCnt = 0
    MaxSent = 10
SPECIFICATION Spec
PROPERTY RingIsLossyChannel
