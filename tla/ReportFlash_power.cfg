\* One type, power failures between the saves and inside them, flash errors, and
\* what they leave half done; the index wraps at the 32nd save, and the ring comes
\* round after.
CONSTANTS
    CntMax = 31
    Half = 16
    Window = 2
    Types = {alarm}
    Sectors = 4
    PerSector = 2
    PowerFails = {"between", "within"}
    Faults = TRUE
    Torn = TRUE
    MaxSaves = 44
    MaxMishaps = 2
SPECIFICATION Spec
INVARIANT TypeOK
INVARIANT NewestReadable
INVARIANT SavedReportsKept
CHECK_DEADLOCK FALSE
