\* A single connection whose socket breaks after a heartbeat arrived.
CONSTANTS
    Addrs = {a1}
    Handlers = {h1}
    AsyncHandlers = {}
    Routers = {}
    NoConn = NoConn
    NoAddr = NoAddr
    MaxDials = 1
    Lookupds = {}
    MaxInFlight = 1
    MaxMsgs = 0
    MaxHeartbeats = 1
    MaxAttemptCount <- MCMaxAttemptCount
    Attempts <- MCAttempts
    FaultyNet = TRUE
    UserStops = FALSE
SPECIFICATION DirectSpec
PROPERTY StopCompletes
CHECK_DEADLOCK FALSE
