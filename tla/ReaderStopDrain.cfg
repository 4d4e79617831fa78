\* Stop() while messages are still on the wire, on a healthy network.
CONSTANTS
    Addrs = {a1, a2}
    Handlers = {h1}
    AsyncHandlers = {}
    Routers = {}
    NoConn = NoConn
    NoAddr = NoAddr
    MaxDials = 1
    Lookupds = {}
    MaxInFlight <- MCMaxInFlight
    MaxMsgs <- MCMaxMsgs
    MaxHeartbeats = 0
    MaxAttemptCount <- MCMaxAttemptCount
    Attempts <- MCAttempts
    FaultyNet = FALSE
    UserStops = TRUE
SPECIFICATION DirectSpec
INVARIANT HandlerNotOrphaned
CHECK_DEADLOCK FALSE
