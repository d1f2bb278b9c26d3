CONSTANTS
    CntMax = 31
    Half = 16
    Window = 4
    Types = {alarm, soe}
    Sectors = 2
    PerSector = 2
    PowerFails = {"between", "within"}
    Faults = FALSE
    Torn = FALSE
    MaxSaves = 6
    MaxMishaps = 2
SPECIFICATION Spec
INVARIANT SavedReportsKeptAlways
CHECK_DEADLOCK FALSE
