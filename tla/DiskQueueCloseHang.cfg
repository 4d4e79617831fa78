\* A crash, a restart from the persisted metadata, then Close(): does Close
\* return?  Close waits for the ioLoop to reach its select.
CONSTANTS
    MaxBytesPerFile = 8
    SyncEvery <- MCSyncEvery
    DataLens <- MCDataLens
    MaxPuts <- MCMaxPuts
    MaxEmpties = 0
    MaxCloses = 1
    MaxCrashes = 1
    SyncCanFail = FALSE
    NoMeta = NoMeta
    NoData = NoData
SPECIFICATION Spec
PROPERTY CloseCompletes
CHECK_DEADLOCK FALSE
