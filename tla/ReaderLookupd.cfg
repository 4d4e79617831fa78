\* Discovery through one lookupd: a producer that may fail to answer, a
\* socket that may break or fail to dial, two nsqConn objects per address so
\* a lost connection can be replaced, and Stop() at any time, also during a
\* query.  No heartbeats (see rd_heartbeat_leak for the NOP path) and no
\* messages (rd_faulty checks message handling under the same faults).
CONSTANTS
    Addrs = {a1}
    Handlers = {h1}
    AsyncHandlers = {}
    Routers = {}
    NoConn = NoConn
    NoAddr = NoAddr
    MaxDials = 2
    Lookupds = {l1}
    MaxInFlight = 1
    MaxMsgs = 0
    MaxHeartbeats = 0
    MaxAttemptCount <- MCMaxAttemptCount
    Attempts <- MCAttempts
    FaultyNet = TRUE
    UserStops = TRUE
SPECIFICATION Spec
PROPERTIES ReconnectsAfterLoss StopReturns
CHECK_DEADLOCK FALSE
