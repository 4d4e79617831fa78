\* nsq_to_file (src/test/maint.go): one AddAsyncHandler goroutine whose
\* HandleMessage hands each message to the router over logChan, and the
\* router that writes and FINs it and calls Stop() on a signal.  One
\* connection on a network that may break the socket at any point, with
\* heartbeats between messages.
CONSTANTS
    Addrs = {a1}
    Handlers = {h1}
    AsyncHandlers = {h1}
    Routers = {rt}
    NoConn = NoConn
    NoAddr = NoAddr
    MaxDials = 1
    Lookupds = {}
    MaxInFlight = 2
    MaxMsgs = 2
    MaxHeartbeats = 1
    MaxAttemptCount <- MCMaxAttemptCount
    Attempts <- MCAttempts
    FaultyNet = TRUE
    UserStops = TRUE
SPECIFICATION DirectSpec
INVARIANTS TypeOK CreditNotOverestimated InFlightAccounted
CHECK_DEADLOCK FALSE
