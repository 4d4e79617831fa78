\* A Reader on a healthy network that is never stopped.
CONSTANTS
    Addrs = {a1, a2}
    Handlers = {h1}
    AsyncHandlers = {}
    Routers = {}
    NoConn = NoConn
    NoAddr = NoAddr
    MaxDials = 1
    Lookupds = {}
    MaxInFlight <- MCMaxInFlight
    MaxMsgs <- MCMaxMsgs
    MaxHeartbeats = 0
    MaxAttemptCount <- MCMaxAttemptCount
    Attempts <- MCAttempts
    FaultyNet = FALSE
    UserStops = FALSE
SPECIFICATION HealthySpec
PROPERTY NoStall
CHECK_DEADLOCK FALSE
