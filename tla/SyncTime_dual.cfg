CONSTANTS
    SyncMode = "dual"
    Frames = {{}, {"steady"}, {"ontime"}, {"steady", "ontime", "next"}}
    PerSecond = 2
    StableNeeded = 2
    ContinueMin = 1
    UtcStable = 1
    LostAfter = 1
    NeverWait = 2
    KeepMax = 1
    ErrMax = 2
    Poll = 2
    SntpStable = 2
SPECIFICATION FairSpec
INVARIANT TypeOK
INVARIANT ValidNotWhenLost
INVARIANT FollowClaimed
PROPERTY ReturnsToIrigb
PROPERTY AsksOn
PROPERTY TakesOver
