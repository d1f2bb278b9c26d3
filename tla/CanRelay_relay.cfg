CONSTANTS
    AppSlots = 3
    FrameSlots = 3
    RecSlots = 2
    b1 = b1
    b2 = b2
    Boards <- MCBoards
    Dest <- MCDest
    Strangers = {p1}
    Lengths = {2, 3}
    Replies = {3}
    MaxRequests = 3
    MaxStrange = 1
SPECIFICATION FairSpec
INVARIANTS TypeOK QueuesInStep DeliveredWhole
PROPERTIES IsRequestStream AllSent RequestsAnswered
CHECK_DEADLOCK FALSE
