CONSTANTS
    CntMax = 63
    Half = 32
    Window = 8
    FrameNum = 2
    Receiver = "inet"
    Paced = TRUE
    SinkFills = FALSE
    MaxAhead = 2
    StartCnt = 58
    MaxSent = 72
SPECIFICATION Spec
PROPERTY PacedMissesNothing
