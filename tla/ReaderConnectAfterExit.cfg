\* One lookupd, one producer, a healthy network, and Stop() at any time.
\* Does the Reader open a connection after ExitChan has fired?
CONSTANTS
    Addrs = {a1}
    Handlers = {h1}
    AsyncHandlers = {}
    Routers = {}
    NoConn = NoConn
    NoAddr = NoAddr
    MaxDials = 1
    Lookupds = {l1}
    MaxInFlight = 1
    MaxMsgs = 0
    MaxHeartbeats = 0
    MaxAttemptCount <- MCMaxAttemptCount
    Attempts <- MCAttempts
    FaultyNet = FALSE
    UserStops = TRUE
SPECIFICATION Spec
PROPERTY NoConnectAfterExit
CHECK_DEADLOCK FALSE
