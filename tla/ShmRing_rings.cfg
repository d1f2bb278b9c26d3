\* From a cleared memory through the wrap of the counter; overruns by up to
\* two slots, a full queue behind the ring.
CONSTANTS
    CntMax = 47
    Half = 23
    Window = 11
    FrameNum = 4
    Receiver = "core0"
    Paced = FALSE
    SinkFills = TRUE
    MaxAhead = 3
    StartCnt = 0
    MaxSent = 53
SPECIFICATION FairSpec
INVARIANT TypeOK
INVARIANT IInv
PROPERTY RingIsLossyChannel
PROPERTY LossOnlyByOverrun
PROPERTY NewestDelivered
