\* Stop() on a single connection while a message is on the wire.
CONSTANTS
    Addrs = {a1}
    Handlers = {h1}
    AsyncHandlers = {}
    Routers = {}
    NoConn = NoConn
    NoAddr = NoAddr
    MaxDials = 1
    Lookupds = {}
    MaxInFlight = 1
    MaxMsgs = 2
    MaxHeartbeats = 0
    MaxAttemptCount <- MCMaxAttemptCount
    Attempts <- MCAttempts
    FaultyNet = FALSE
    UserStops = TRUE
SPECIFICATION DirectSpec
INVARIANT NoSendOnClosed
CHECK_DEADLOCK FALSE
