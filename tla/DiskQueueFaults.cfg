\* Every sync() may fail, and the process may crash once and restart, with
\* Put, delivery and Empty around it.  8-byte segments let O_APPEND misalign
\* the reader after the restart so that readOne fails.  Up to the crash the
\* queue must stay right and the persisted metadata usable.  Close is left to
\* dq_main: a failed sync in Close loses records the way a crash does.
CONSTANTS
    MaxBytesPerFile = 8
    SyncEvery <- MCSyncEvery
    DataLens <- MCDataLens
    MaxPuts <- MCMaxPuts
    MaxEmpties = 1
    MaxCloses = 0
    MaxCrashes = 1
    SyncCanFail = TRUE
    NoMeta = NoMeta
    NoData = NoData
SPECIFICATION Spec
INVARIANT QueueMatchesHistory
INVARIANT MetaRecoverable
CHECK_DEADLOCK FALSE
