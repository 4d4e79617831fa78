\* Durable FIFO without crashes or I/O failures: Put, delivery, Empty,
\* Close and reopen.
CONSTANTS
    MaxBytesPerFile <- MCMaxBytesPerFile
    SyncEvery <- MCSyncEvery
    DataLens <- MCDataLens
    MaxPuts <- MCMaxPuts
    MaxEmpties = 1
    MaxCloses = 1
    MaxCrashes = 0
    SyncCanFail = FALSE
    NoMeta = NoMeta
    NoData = NoData
SPECIFICATION Spec
INVARIANT TypeOK
INVARIANT QueueMatchesHistory
INVARIANT DepthIsPending
INVARIANT DeliveredInOrder
INVARIANT MetaRecoverable
PROPERTY WrittenEventuallyDelivered
PROPERTY ImplementsDurableQueue
CHECK_DEADLOCK FALSE
