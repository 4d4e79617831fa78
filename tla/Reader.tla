------------------------------- MODULE Reader -------------------------------
(***************************************************************************)
(* The consumer side, src/nsq/reader.go: one Reader, its nsqConn per       *)
(* nsqd address, the handler goroutines, and (as environment) the nsqd at  *)
(* the other end of each connection.                                       *)
(*                                                                         *)
(* Goroutines and their program counters:                                  *)
(*   rl[c]    readLoop(c)    "init" "initsend" "check" "read" "push"      *)
(*                           "rdy" "send" "done"                           *)
(*   fl[c]    finishLoop(c)  "select" "check" "done"                       *)
(*   drain[c] the goroutine stopFinishLoop spawns to drain                 *)
(*            finishedMessages: "none" "wait" "dec" "recv" "done"          *)
(*   hs[h]    a handler from AddHandler: "idle" "busy" "resp" "exited";    *)
(*            one from AddAsyncHandler also "log" (blocked in the         *)
(*            FileLogger's HandleMessage, src/test/maint.go)               *)
(*   hs[r]    the maint.go router goroutine r: "idle" (in its select),    *)
(*            "resp" (sending the FIN of the message it wrote)             *)
(* Channel operations on the unbuffered channels incomingMessages and      *)
(* c.finishedMessages are rendezvous actions of the two goroutines.        *)
(*                                                                         *)
(* nsqd is modelled from the protocol description (it is not under src/): *)
(* it sends a message while its RDY credit is positive, answers CLS with   *)
(* CLOSE_WAIT and sends heartbeats.  Frames it sent are queued in          *)
(* toClient[c] and may still be read after the socket is closed (they sit  *)
(* in the bufio.Reader).  The network may break a socket (FaultyNet).      *)
(*                                                                         *)
(* A connection is an nsqConn object <<addr, k>>: the k-th dial of nsqd    *)
(* addr.  The map is keyed by address, so at most one object per address   *)
(* is in it, but a reconnect creates a new object while goroutines of the  *)
(* old one (its drain goroutine, handlers answering it) may still run.     *)
(*   lk       lookupdLoop (with the first queryLookupd, which runs on the  *)
(*            ConnectToLookupd caller): "none" "query" "connect" "select"  *)
(*            "exited"                                                     *)
(*   stopPc   the goroutine that called Stop(): "none", "exit" (blocked    *)
(*            sending on lookupdExitChan), "done" (Stop returned)          *)
(***************************************************************************)
EXTENDS Integers, Sequences, SequencesExt, FiniteSets

CONSTANTS
    Addrs,            \* nsqd addresses (given directly, or found by lookupd)
    MaxDials,         \* bound: nsqConn objects created per address
    Lookupds,         \* lookupd addresses given to ConnectToLookupd ({}: none)
    Handlers,         \* handler goroutines (AddHandler or AddAsyncHandler)
    AsyncHandlers,    \* those started with AddAsyncHandler (maint.go: one)
    Routers,          \* maint.go's router goroutine ({}: no async program)
    MaxInFlight,      \* Reader.maxInFlight (SetMaxInFlight before connecting)
    MaxMsgs,          \* bound: messages nsqd sends per connection
    MaxHeartbeats,    \* bound: heartbeats nsqd sends per connection
    FaultyNet,        \* whether sockets may break (read/write errors)
    UserStops,        \* whether the program calls Reader.Stop()
    MaxAttemptCount,  \* Reader.MaxAttemptCount
    Attempts,         \* attempt counts a delivered message may carry
    NoConn,           \* model value: a handler holds no message
    NoAddr            \* model value: ConnectToNSQ is dialing no address

Conns == Addrs \X (1..MaxDials)

ASSUME /\ Addrs # {} /\ Handlers # {} /\ MaxDials \in Nat \ {0}
       /\ AsyncHandlers \subseteq Handlers /\ Routers \cap Handlers = {}
       /\ (Routers = {}) = (AsyncHandlers = {}) /\ Cardinality(Routers) <= 1
       /\ NoConn \notin Conns /\ NoAddr \notin Addrs /\ MaxInFlight > 0
       /\ {MaxInFlight, MaxMsgs, MaxHeartbeats, MaxAttemptCount} \subseteq Nat
       /\ Attempts \subseteq Nat \ {0} /\ {FaultyNet, UserStops} \subseteq BOOLEAN

VARIABLES
    \* Reader
    qStop,            \* q.stopFlag
    conns,            \* keys of q.nsqConnections
    incomingClosed,   \* close(q.incomingMessages) has happened
    timer,            \* Stop's 30 s goroutine: "off" | "armed" | "fired"
    exited,           \* q.ExitChan <- 1 has happened
    running,          \* q.runningHandlers
    qReceived, qFinished, qRequeued, qInFlight,
    \* nsqConn
    sock,             \* "none" | "open" | "closed" (c.Close) | "broken"
    cStop,            \* c.stopFlag
    rdy, inflight, received, finished, requeued,
    rl, fl, drain,
    dying,            \* a value is buffered in c.dying
    stopped,          \* c.stopper has run
    \* nsqd
    toClient,         \* frames sent by nsqd, not yet read
    srvRdy,           \* nsqd's remaining RDY credit
    sent, hbSent,
    cls,              \* nsqd has received CLS
    \* handlers
    hs, hconn, hsucc,
    logChan,          \* FileLogger.logChan (capacity 1): the message's conn
    \* lookupd discovery
    lookupds,         \* q.lookupdHTTPAddrs
    lk,
    todo,             \* producers queryLookupd has still to ConnectToNSQ
    dialing,          \* address ConnectToNSQ dials after passing its checks
    recheck,          \* a value is buffered in q.lookupdRecheckChan
    stopPc,
    rdyOut            \* readLoop's updateReady: the RDY count it will write

reader  == <<qStop, conns, incomingClosed, timer, exited, running,
             qReceived, qFinished, qRequeued, qInFlight, recheck, stopPc>>
conn    == <<sock, cStop, rdy, inflight, received, finished, requeued,
             rl, fl, drain, dying, stopped>>
nsqd    == <<toClient, srvRdy, sent, hbSent, cls>>
handler == <<hs, hconn, hsucc, logChan>>
lookup  == <<lookupds, lk, todo, dialing>>
vars    == <<reader, conn, nsqd, handler, lookup, rdyOut>>

Frames == {"msg", "close_wait", "heartbeat"}

\* the goroutines that send a FinishedMessage on c.finishedMessages
Senders == Handlers \cup Routers

-----------------------------------------------------------------------------
(* ConnectionMaxInFlight: int(math.Min(math.Max(1, b/n), b)) in float64.   *)
(* With no connection left b/n is +Inf and the result is b (b = 0 would    *)
(* give NaN, excluded by MaxInFlight > 0).                                 *)
ConnectionMaxInFlight(b, n) ==
    IF n = 0 THEN b
    ELSE IF b = 0 THEN 0 ELSE IF b < n THEN 1 ELSE b \div n

\* sendCommand succeeds exactly when the socket is usable
Writable(c) == sock[c] = "open"

(* handleError: mark the connection stopped; with no lookupd, the last     *)
(* connection failing stops the Reader.  Used inside actions: it yields    *)
(* cStop' and qStop'.                                                      *)
HandleError(c) ==
    /\ cStop' = [cStop EXCEPT ![c] = TRUE]
    /\ qStop' = (qStop \/ (Cardinality(conns) = 1 /\ lookupds = {}))

\* q.nsqConnections has an entry for address a
Connected(a) == \E d \in conns : d[1] = a

\* the nsqConn object the next dial of a creates, if the bound allows one
CanDial(a) == \E k \in 1..MaxDials : sock[<<a, k>>] = "none"
NextConn(a) == <<a, CHOOSE k \in 1..MaxDials :
                        sock[<<a, k>>] = "none"
                        /\ \A j \in 1..(k - 1) : sock[<<a, j>>] # "none">>

\* ConnectionMaxInFlight() with the current map size
Mif == ConnectionMaxInFlight(MaxInFlight, Cardinality(conns))

(* updateReady(c): refill when remain <= 1 or remain < mif/4.  It stores   *)
(* rdyCount = mif and then writes RDY mif: two steps, between which other *)
(* goroutines run.  A failed write runs handleError.                      *)
\* mutant: refill only below a quarter of mif (the "<= 1" floor dropped)
RdyNeededNoFloor(c) == ~cStop[c] /\ rdy[c] < Mif \div 4

RdyNeeded(c) == ~cStop[c] /\ (rdy[c] <= 1 \/ rdy[c] < Mif \div 4)

\* the second half: c.sendCommand(Ready(n)); nsqd's credit becomes n
SendReady(c, n) ==
    IF Writable(c)
    THEN srvRdy' = [srvRdy EXCEPT ![c] = n] /\ UNCHANGED <<cStop, qStop>>
    ELSE HandleError(c) /\ UNCHANGED srvRdy

\* mutant of StopFinishLoop: the map entry is not deleted
StopFinishLoopKeepsEntry(c, qs) ==
    IF stopped[c]
    THEN UNCHANGED <<stopped, dying, drain, sock, conns, incomingClosed,
                     recheck>>
    ELSE /\ stopped' = [stopped EXCEPT ![c] = TRUE]
         /\ dying' = [dying EXCEPT ![c] = TRUE]
         /\ drain' = [drain EXCEPT ![c] = "wait"]
         /\ sock' = [sock EXCEPT ![c] = IF @ = "open" THEN "closed" ELSE @]
         /\ UNCHANGED conns
         /\ incomingClosed' = (incomingClosed \/ (conns = {} /\ qs))
         /\ recheck' = (recheck \/ (lookupds # {} /\ ~qs))

(* stopFinishLoop(c), run at most once per connection (c.stopper): signal  *)
(* dying, start the drain goroutine, close the socket, delete c's address  *)
(* from the map; close incomingMessages when the map is now empty and the  *)
(* Reader is stopping; with lookupd and no stop, poke lookupdLoop through  *)
(* the 1-buffered recheck channel (dropped when full).  qs is the value    *)
(* q.stopFlag has at that point of the calling step.                       *)
StopFinishLoop(c, qs) ==
    IF stopped[c]
    THEN UNCHANGED <<stopped, dying, drain, sock, conns, incomingClosed,
                     recheck>>
    ELSE /\ stopped' = [stopped EXCEPT ![c] = TRUE]
         /\ dying' = [dying EXCEPT ![c] = TRUE]
         /\ drain' = [drain EXCEPT ![c] = "wait"]
         /\ sock' = [sock EXCEPT ![c] = IF @ = "open" THEN "closed" ELSE @]
         /\ conns' = {d \in conns : d[1] # c[1]}
         /\ incomingClosed' = (incomingClosed \/ (conns' = {} /\ qs))
         /\ recheck' = (recheck \/ (lookupds # {} /\ ~qs))

NoStopFinish == UNCHANGED <<stopped, dying, drain, sock, conns, incomingClosed,
                            recheck>>

-----------------------------------------------------------------------------
Init ==
    /\ qStop = FALSE /\ conns = {} /\ incomingClosed = FALSE
    /\ timer = "off" /\ exited = FALSE /\ running = Cardinality(Handlers)
    /\ qReceived = 0 /\ qFinished = 0 /\ qRequeued = 0 /\ qInFlight = 0
    /\ sock = [c \in Conns |-> "none"] /\ cStop = [c \in Conns |-> FALSE]
    /\ rdy = [c \in Conns |-> 0] /\ inflight = [c \in Conns |-> 0]
    /\ received = [c \in Conns |-> 0] /\ finished = [c \in Conns |-> 0]
    /\ requeued = [c \in Conns |-> 0]
    /\ rl = [c \in Conns |-> "none"] /\ fl = [c \in Conns |-> "none"]
    /\ drain = [c \in Conns |-> "none"] /\ dying = [c \in Conns |-> FALSE]
    /\ stopped = [c \in Conns |-> FALSE]
    /\ toClient = [c \in Conns |-> <<>>] /\ srvRdy = [c \in Conns |-> 0]
    /\ sent = [c \in Conns |-> 0] /\ hbSent = [c \in Conns |-> 0]
    /\ cls = [c \in Conns |-> "none"]
    /\ hs = [h \in Senders |-> "idle"] /\ hconn = [h \in Senders |-> NoConn]
    /\ hsucc = [h \in Senders |-> FALSE] /\ logChan = <<>>
    /\ lookupds = {} /\ lk = "none" /\ todo = {} /\ dialing = NoAddr
    /\ recheck = FALSE /\ stopPc = "none"
    /\ rdyOut = [c \in Conns |-> 0]

(* ConnectToNSQ(addr) called by the program for a configured address     *)
(* (direct mode: the program is configured without lookupd).  Refused when stopping, without handlers or  *)
(* when the address is in the map; dial, magic and SUB may fail; on        *)
(* success the connection joins the map and its readLoop and finishLoop   *)
(* start.                                                                  *)
ConnectToNSQ(c) ==
    /\ Lookupds = {} /\ c[2] = 1 /\ sock[c] = "none"
    /\ ~qStop /\ running > 0 /\ ~Connected(c[1])
    /\ \/ /\ sock' = [sock EXCEPT ![c] = "open"]
          /\ conns' = conns \cup {c}
          /\ rl' = [rl EXCEPT ![c] = "init"]
          /\ fl' = [fl EXCEPT ![c] = "select"]
       \/ /\ FaultyNet
          /\ sock' = [sock EXCEPT ![c] = "closed"]
          /\ UNCHANGED <<conns, rl, fl>>
    /\ UNCHANGED <<qStop, incomingClosed, timer, exited, running, qReceived,
                   qFinished, qRequeued, qInFlight, cStop, rdy, inflight,
                   received, finished, requeued, drain, dying, stopped>>
    /\ UNCHANGED <<nsqd, handler, lookup, recheck, stopPc>>
    /\ UNCHANGED rdyOut

(* updateReady's test and store, by readLoop: go on to write the RDY      *)
(* (pc to) or skip it (pc skip).                                           *)
RLStoreReady(c, to, skip) ==
    IF RdyNeeded(c)
    THEN /\ rdy' = [rdy EXCEPT ![c] = Mif]
         /\ rdyOut' = [rdyOut EXCEPT ![c] = Mif]
         /\ rl' = [rl EXCEPT ![c] = to]
    ELSE UNCHANGED <<rdy, rdyOut>> /\ rl' = [rl EXCEPT ![c] = skip]

\* readLoop: prime the ready state
RLInit(c) ==
    /\ rl[c] = "init"
    /\ RLStoreReady(c, "initsend", "check")
    /\ UNCHANGED <<reader, sock, cStop, inflight, received, finished,
                   requeued, fl, drain, dying, stopped, nsqd, handler, lookup>>

\* the initial RDY write; on failure handleError and stopFinishLoop, return
RLInitSend(c) ==
    /\ rl[c] = "initsend"
    /\ SendReady(c, rdyOut[c])
    /\ IF Writable(c)
       THEN NoStopFinish /\ rl' = [rl EXCEPT ![c] = "check"]
       ELSE StopFinishLoop(c, qStop') /\ rl' = [rl EXCEPT ![c] = "done"]
    /\ UNCHANGED <<timer, exited, running, qReceived, qFinished, qRequeued,
                   qInFlight, rdy, inflight, received, finished, requeued, fl>>
    /\ UNCHANGED <<toClient, sent, hbSent, cls, handler>>
    /\ UNCHANGED <<lookup, stopPc, rdyOut>>

\* top of the read loop when a stop flag is set: break, closing if idle
RLBreak(c) ==
    /\ rl[c] = "check" /\ (cStop[c] \/ qStop)
    /\ IF inflight[c] = 0 THEN StopFinishLoop(c, qStop) ELSE NoStopFinish
    /\ rl' = [rl EXCEPT ![c] = "done"]
    /\ UNCHANGED <<qStop, timer, exited, running, qReceived, qFinished,
                   qRequeued, qInFlight, cStop, rdy, inflight, received,
                   finished, requeued, fl>>
    /\ UNCHANGED <<nsqd, handler>>
    /\ UNCHANGED <<lookup, stopPc>>
    /\ UNCHANGED rdyOut

RLGo(c) ==
    /\ rl[c] = "check" /\ ~cStop[c] /\ ~qStop
    /\ rl' = [rl EXCEPT ![c] = "read"]
    /\ UNCHANGED <<reader, sock, cStop, rdy, inflight, received, finished,
                   requeued, fl, drain, dying, stopped, nsqd, handler>>
    /\ UNCHANGED lookup
    /\ UNCHANGED rdyOut

\* ReadResponse fails once the socket is closed or broken
RLReadError(c) ==
    /\ rl[c] = "read" /\ sock[c] \in {"closed", "broken"}
    /\ HandleError(c)
    /\ rl' = [rl EXCEPT ![c] = "check"]
    /\ UNCHANGED <<conns, incomingClosed, timer, exited, running, qReceived,
                   qFinished, qRequeued, qInFlight, sock, rdy, inflight,
                   received, finished, requeued, fl, drain, dying, stopped>>
    /\ UNCHANGED <<nsqd, handler>>
    /\ UNCHANGED <<lookup, recheck, stopPc>>
    /\ UNCHANGED rdyOut

\* mutant: the frame is counted without consuming RDY credit
RLReadMsgNoRdy(c) ==
    /\ rl[c] = "read" /\ toClient[c] # <<>> /\ Head(toClient[c]) = "msg"
    /\ toClient' = [toClient EXCEPT ![c] = Tail(@)]
    /\ received' = [received EXCEPT ![c] = @ + 1]
    /\ inflight' = [inflight EXCEPT ![c] = @ + 1]
    /\ qReceived' = qReceived + 1
    /\ qInFlight' = qInFlight + 1
    /\ rl' = [rl EXCEPT ![c] = "push"]
    /\ UNCHANGED <<qStop, conns, incomingClosed, timer, exited, running,
                   qFinished, qRequeued, sock, cStop, rdy, finished, requeued,
                   fl, drain, dying, stopped, srvRdy, sent, hbSent, cls,
                   handler>>
    /\ UNCHANGED <<lookup, recheck, stopPc>>
    /\ UNCHANGED rdyOut

(* A message frame: rdyCount--, received++, in-flight++ (connection and    *)
(* Reader), then block sending on incomingMessages.                        *)
RLReadMsg(c) ==
    /\ rl[c] = "read" /\ toClient[c] # <<>> /\ Head(toClient[c]) = "msg"
    /\ toClient' = [toClient EXCEPT ![c] = Tail(@)]
    /\ rdy' = [rdy EXCEPT ![c] = @ - 1]
    /\ received' = [received EXCEPT ![c] = @ + 1]
    /\ inflight' = [inflight EXCEPT ![c] = @ + 1]
    /\ qReceived' = qReceived + 1
    /\ qInFlight' = qInFlight + 1
    /\ rl' = [rl EXCEPT ![c] = "push"]
    /\ UNCHANGED <<qStop, conns, incomingClosed, timer, exited, running,
                   qFinished, qRequeued, sock, cStop, finished, requeued, fl,
                   drain, dying, stopped, srvRdy, sent, hbSent, cls, handler>>
    /\ UNCHANGED <<lookup, recheck, stopPc>>
    /\ UNCHANGED rdyOut

\* CLOSE_WAIT: nsqd acknowledged CLS; no more messages on this connection
RLReadCloseWait(c) ==
    /\ rl[c] = "read" /\ toClient[c] # <<>> /\ Head(toClient[c]) = "close_wait"
    /\ toClient' = [toClient EXCEPT ![c] = Tail(@)]
    /\ cStop' = [cStop EXCEPT ![c] = TRUE]
    /\ rl' = [rl EXCEPT ![c] = "rdy"]
    /\ UNCHANGED <<reader, sock, rdy, inflight, received, finished, requeued,
                   fl, drain, dying, stopped, srvRdy, sent, hbSent, cls,
                   handler>>
    /\ UNCHANGED lookup
    /\ UNCHANGED rdyOut

(* _heartbeat_: answer with NOP; when the NOP write fails, handleError and *)
(* return from readLoop without stopFinishLoop.                            *)
RLReadHeartbeat(c) ==
    /\ rl[c] = "read" /\ toClient[c] # <<>> /\ Head(toClient[c]) = "heartbeat"
    /\ toClient' = [toClient EXCEPT ![c] = Tail(@)]
    /\ IF Writable(c)
       THEN rl' = [rl EXCEPT ![c] = "rdy"] /\ UNCHANGED <<cStop, qStop>>
       ELSE rl' = [rl EXCEPT ![c] = "done"] /\ HandleError(c)
    /\ UNCHANGED <<conns, incomingClosed, timer, exited, running, qReceived,
                   qFinished, qRequeued, qInFlight, sock, rdy, inflight,
                   received, finished, requeued, fl, drain, dying, stopped,
                   srvRdy, sent, hbSent, cls, handler>>
    /\ UNCHANGED <<lookup, recheck, stopPc>>
    /\ UNCHANGED rdyOut

\* the q.updateReady(c) that ends every handled frame: test and store
RLReady(c) ==
    /\ rl[c] = "rdy"
    /\ RLStoreReady(c, "send", "check")
    /\ UNCHANGED <<reader, sock, cStop, inflight, received, finished,
                   requeued, fl, drain, dying, stopped, nsqd, handler, lookup>>

\* ... and the RDY write; an error is handled by handleError only
RLSend(c) ==
    /\ rl[c] = "send"
    /\ SendReady(c, rdyOut[c])
    /\ rl' = [rl EXCEPT ![c] = "check"]
    /\ UNCHANGED <<conns, incomingClosed, timer, exited, running, qReceived,
                   qFinished, qRequeued, qInFlight, sock, rdy, inflight,
                   received, finished, requeued, fl, drain, dying, stopped,
                   toClient, sent, hbSent, cls, handler>>
    /\ UNCHANGED <<lookup, recheck, stopPc, rdyOut>>

(* incomingMessages <- msg meets a handler's receive.                      *)
Dispatch(c, h) ==
    /\ rl[c] = "push" /\ hs[h] = "idle" /\ ~incomingClosed
    /\ hs' = [hs EXCEPT ![h] = "busy"]
    /\ hconn' = [hconn EXCEPT ![h] = c]
    /\ rl' = [rl EXCEPT ![c] = "rdy"]
    /\ UNCHANGED <<reader, sock, cStop, rdy, inflight, received, finished,
                   requeued, fl, drain, dying, stopped, hsucc, logChan, nsqd>>
    /\ UNCHANGED lookup
    /\ UNCHANGED rdyOut

(* HandleMessage returns (any outcome, any attempt count); past            *)
(* MaxAttemptCount a failed message is given up, i.e. answered as success. *)
(* The handler then blocks sending its FinishedMessage on the connection's *)
(* finishedMessages channel.                                               *)
HandlerDone(h) ==
    /\ h \notin AsyncHandlers /\ hs[h] = "busy"
    /\ \E ok \in BOOLEAN, a \in Attempts :
          hsucc' = [hsucc EXCEPT ![h] =
                      ok \/ (MaxAttemptCount > 0 /\ a > MaxAttemptCount)]
    /\ hs' = [hs EXCEPT ![h] = "resp"]
    /\ UNCHANGED <<reader, conn, nsqd, hconn, logChan>>
    /\ UNCHANGED lookup
    /\ UNCHANGED rdyOut

(* AddAsyncHandler's goroutine after its receive: past MaxAttemptCount it  *)
(* sends FinishedMessage{Id, 0, true} itself (a rendezvous with finishLoop *)
(* or the drain goroutine, as for AddHandler); otherwise it calls         *)
(* HandleMessage, which for maint.go's FileLogger sends the message on     *)
(* logChan.                                                                *)
AsyncCheck(h) ==
    /\ h \in AsyncHandlers /\ hs[h] = "busy"
    /\ \E a \in Attempts :
          IF MaxAttemptCount > 0 /\ a > MaxAttemptCount
          THEN /\ hs' = [hs EXCEPT ![h] = "resp"]
               /\ hsucc' = [hsucc EXCEPT ![h] = TRUE]
          ELSE /\ hs' = [hs EXCEPT ![h] = "log"]
               /\ UNCHANGED hsucc
    /\ UNCHANGED <<reader, conn, nsqd, hconn, logChan>>
    /\ UNCHANGED lookup
    /\ UNCHANGED rdyOut

\* mutant: HandleMessage drops the message when logChan is full (select with default)
HandlerLogDropsWhenFull(h) ==
    /\ hs[h] = "log"
    /\ logChan' = IF Len(logChan) < 1 THEN Append(logChan, hconn[h]) ELSE logChan
    /\ hs' = [hs EXCEPT ![h] = "idle"]
    /\ hconn' = [hconn EXCEPT ![h] = NoConn]
    /\ UNCHANGED <<reader, conn, nsqd, hsucc>>
    /\ UNCHANGED lookup
    /\ UNCHANGED rdyOut

(* FileLogger.HandleMessage: l.logChan <- &Message{m, responseChannel}     *)
(* blocks while the one-slot buffer is full; then the handler goes back to *)
(* receiving from incomingMessages, the message still unanswered.         *)
HandlerLog(h) ==
    /\ hs[h] = "log" /\ Len(logChan) < 1
    /\ logChan' = Append(logChan, hconn[h])
    /\ hs' = [hs EXCEPT ![h] = "idle"]
    /\ hconn' = [hconn EXCEPT ![h] = NoConn]
    /\ UNCHANGED <<reader, conn, nsqd, hsucc>>
    /\ UNCHANGED lookup
    /\ UNCHANGED rdyOut

(* router, case m := <-f.logChan: updateFile() returns true in this build, *)
(* so sync is set; the record is written, f.Sync() returns nil, and the    *)
(* loop sends FinishedMessage{m.Id, 0, true} on m.returnChannel.  While    *)
(* the router is blocked in r.Stop() (stopPc = "exit") it does not select. *)
RouterRecv(r) ==
    /\ hs[r] = "idle" /\ logChan # <<>> /\ stopPc # "exit"
    /\ hs' = [hs EXCEPT ![r] = "resp"]
    /\ hconn' = [hconn EXCEPT ![r] = Head(logChan)]
    /\ hsucc' = [hsucc EXCEPT ![r] = TRUE]
    /\ logChan' = Tail(logChan)
    /\ UNCHANGED <<reader, conn, nsqd>>
    /\ UNCHANGED lookup
    /\ UNCHANGED rdyOut

(* finishLoop, case <-c.dying: hand over to the drain goroutine            *)
(* (c.drainReady is unbuffered) and return.                                *)
FLDying(c) ==
    /\ fl[c] = "select" /\ dying[c] /\ drain[c] = "wait"
    /\ dying' = [dying EXCEPT ![c] = FALSE]
    /\ drain' = [drain EXCEPT ![c] = "dec"]
    /\ fl' = [fl EXCEPT ![c] = "done"]
    /\ UNCHANGED <<reader, sock, cStop, rdy, inflight, received, finished,
                   requeued, rl, stopped, nsqd, handler>>
    /\ UNCHANGED lookup
    /\ UNCHANGED rdyOut

(* finishLoop, case msg := <-c.finishedMessages: decrement both in-flight  *)
(* counters first, then write FIN or REQ; on a write error stopFinishLoop  *)
(* and continue, else count the FIN/REQ and go on to the idle check.       *)
FLRecv(c, h) ==
    /\ fl[c] = "select" /\ hs[h] = "resp" /\ hconn[h] = c
    /\ hs' = [hs EXCEPT ![h] = "idle"]
    /\ hconn' = [hconn EXCEPT ![h] = NoConn]
    /\ qInFlight' = qInFlight - 1
    /\ inflight' = [inflight EXCEPT ![c] = @ - 1]
    /\ IF Writable(c)
       THEN /\ IF hsucc[h]
               THEN /\ finished' = [finished EXCEPT ![c] = @ + 1]
                    /\ qFinished' = qFinished + 1
                    /\ UNCHANGED <<requeued, qRequeued>>
               ELSE /\ requeued' = [requeued EXCEPT ![c] = @ + 1]
                    /\ qRequeued' = qRequeued + 1
                    /\ UNCHANGED <<finished, qFinished>>
            /\ fl' = [fl EXCEPT ![c] = "check"]
            /\ NoStopFinish
       ELSE /\ StopFinishLoop(c, qStop)
            /\ UNCHANGED <<finished, qFinished, requeued, qRequeued, fl>>
    /\ UNCHANGED <<qStop, timer, exited, running, qReceived, cStop, rdy,
                   received, rl, hsucc, logChan, nsqd>>
    /\ UNCHANGED <<lookup, stopPc>>
    /\ UNCHANGED rdyOut

\* after a FIN/REQ: close the connection once idle and stopping
FLCheck(c) ==
    /\ fl[c] = "check"
    /\ IF inflight[c] = 0 /\ (cStop[c] \/ qStop)
       THEN StopFinishLoop(c, qStop) ELSE NoStopFinish
    /\ fl' = [fl EXCEPT ![c] = "select"]
    /\ UNCHANGED <<qStop, timer, exited, running, qReceived, qFinished,
                   qRequeued, qInFlight, cStop, rdy, inflight, received,
                   finished, requeued, rl, nsqd, handler>>
    /\ UNCHANGED <<lookup, stopPc>>
    /\ UNCHANGED rdyOut

(* the drain goroutine: for AddInt64(&c.messagesInFlight, -1) >= 0 {       *)
(* <-c.finishedMessages }                                                  *)
DrainDec(c) ==
    /\ drain[c] = "dec"
    /\ inflight' = [inflight EXCEPT ![c] = @ - 1]
    /\ drain' = [drain EXCEPT ![c] = IF inflight[c] - 1 >= 0 THEN "recv"
                                                           ELSE "done"]
    /\ UNCHANGED <<reader, sock, cStop, rdy, received, finished, requeued,
                   rl, fl, dying, stopped, nsqd, handler>>
    /\ UNCHANGED lookup
    /\ UNCHANGED rdyOut

DrainRecv(c, h) ==
    /\ drain[c] = "recv" /\ hs[h] = "resp" /\ hconn[h] = c
    /\ hs' = [hs EXCEPT ![h] = "idle"]
    /\ hconn' = [hconn EXCEPT ![h] = NoConn]
    /\ drain' = [drain EXCEPT ![c] = "dec"]
    /\ UNCHANGED <<reader, sock, cStop, rdy, inflight, received, finished,
                   requeued, rl, fl, dying, stopped, hsucc, logChan, nsqd>>
    /\ UNCHANGED lookup
    /\ UNCHANGED rdyOut

\* mutant: the exit path does not require the handler to be waiting
HandlerExitAnyState(h) ==
    /\ incomingClosed
    /\ hs' = [hs EXCEPT ![h] = "exited"]
    /\ running' = running - 1
    /\ exited' = (exited \/ running - 1 = 0)
    /\ UNCHANGED <<qStop, conns, incomingClosed, timer, qReceived, qFinished,
                   qRequeued, qInFlight, conn, nsqd, hconn, hsucc, logChan>>
    /\ UNCHANGED <<lookup, recheck, stopPc>>
    /\ UNCHANGED rdyOut

(* a handler finds incomingMessages closed and exits; the last one to      *)
(* exit sends on ExitChan (received by the program's main goroutine).     *)
HandlerExit(h) ==
    /\ hs[h] = "idle" /\ incomingClosed
    /\ hs' = [hs EXCEPT ![h] = "exited"]
    /\ running' = running - 1
    /\ exited' = (exited \/ running - 1 = 0)
    /\ UNCHANGED <<qStop, conns, incomingClosed, timer, qReceived, qFinished,
                   qRequeued, qInFlight, conn, nsqd, hconn, hsucc, logChan>>
    /\ UNCHANGED <<lookup, recheck, stopPc>>
    /\ UNCHANGED rdyOut

(* Stop(): CAS the stop flag; with no connection close incomingMessages    *)
(* at once, else write CLS on every connection (errors only logged) and    *)
(* arm the 30 s timer that closes incomingMessages; then, with lookupd,    *)
(* block sending on the unbuffered lookupdExitChan (LKExit).  In maint.go *)
(* the router calls Stop from its select on termChan, then sets closing,   *)
(* which changes nothing further (every select case already syncs).  A     *)
(* second signal finds the stop flag set and returns at once.             *)
Stop ==
    /\ UserStops /\ ~qStop /\ \A r \in Routers : hs[r] = "idle"
    /\ qStop' = TRUE
    /\ stopPc' = IF lookupds # {} THEN "exit" ELSE "done"
    /\ IF conns = {}
       THEN incomingClosed' = TRUE /\ UNCHANGED <<timer, cls>>
       ELSE /\ cls' = [c \in Conns |->
                         IF c \in conns /\ Writable(c) /\ cls[c] = "none"
                         THEN "received" ELSE cls[c]]
            /\ timer' = "armed"
            /\ UNCHANGED incomingClosed
    /\ UNCHANGED <<conns, exited, running, qReceived, qFinished, qRequeued,
                   qInFlight, conn, toClient, srvRdy, sent, hbSent, handler>>
    /\ UNCHANGED <<lookup, recheck>>
    /\ UNCHANGED rdyOut

-----------------------------------------------------------------------------
(* Lookupd discovery.  The program calls ConnectToLookupd while setting    *)
(* up, before it may call Stop (as the examples do).                       *)

\* mutant of ConnectToLookupd: the "first address" test made before the append
ConnectToLookupdCountBeforeAppend(l) ==
    /\ stopPc = "none" /\ l \notin lookupds
    /\ lookupds' = lookupds \cup {l}
    /\ lk' = IF Cardinality(lookupds) = 1 THEN "query" ELSE lk
    /\ UNCHANGED <<reader, conn, nsqd, handler, todo, dialing>>
    /\ UNCHANGED rdyOut

(* ConnectToLookupd(addr): refuse a duplicate, append, and for the first   *)
(* address run queryLookupd on the caller and then start lookupdLoop.      *)
ConnectToLookupd(l) ==
    /\ stopPc = "none" /\ l \notin lookupds
    /\ lookupds' = lookupds \cup {l}
    /\ lk' = IF lookupds = {} THEN "query" ELSE lk
    /\ UNCHANGED <<reader, conn, nsqd, handler, todo, dialing>>
    /\ UNCHANGED rdyOut

(* queryLookupd: GET /lookup on each lookupd; an HTTP error is logged and  *)
(* that lookupd skipped.  Every lookupd knows every producer, so the       *)
(* addresses to connect to are all of Addrs when any lookupd answered.     *)
LKQuery(answered) ==
    /\ lk = "query" /\ (answered \/ FaultyNet)
    /\ todo' = IF answered THEN Addrs ELSE {}
    /\ lk' = "connect"
    /\ UNCHANGED <<reader, conn, nsqd, handler, lookupds, dialing>>
    /\ UNCHANGED rdyOut

(* ConnectToNSQ(producer) from queryLookupd, up to the dial: the stop      *)
(* flag, handler count and map lookup are checked here; a refusal          *)
(* (ErrAlreadyConnected included) moves on to the next producer.           *)
LKConnect(a) ==
    /\ lk = "connect" /\ dialing = NoAddr /\ a \in todo
    /\ todo' = todo \ {a}
    /\ dialing' = IF ~qStop /\ running > 0 /\ ~Connected(a) /\ CanDial(a)
                  THEN a ELSE NoAddr
    /\ UNCHANGED <<reader, conn, nsqd, handler, lookupds, lk>>
    /\ UNCHANGED rdyOut

(* The rest of that ConnectToNSQ: newNSQConn, magic, SUB, then the map     *)
(* insert and the two goroutines, with no second look at the stop flag.    *)
LKDial ==
    /\ dialing # NoAddr
    /\ LET c == NextConn(dialing)
       IN \/ /\ sock' = [sock EXCEPT ![c] = "open"]
             /\ conns' = conns \cup {c}
             /\ rl' = [rl EXCEPT ![c] = "init"]
             /\ fl' = [fl EXCEPT ![c] = "select"]
          \/ /\ FaultyNet
             /\ sock' = [sock EXCEPT ![c] = "closed"]
             /\ UNCHANGED <<conns, rl, fl>>
    /\ dialing' = NoAddr
    /\ UNCHANGED <<qStop, incomingClosed, timer, exited, running, qReceived,
                   qFinished, qRequeued, qInFlight, recheck, stopPc, cStop,
                   rdy, inflight, received, finished, requeued, drain, dying,
                   stopped, nsqd, handler, lookupds, lk, todo>>
    /\ UNCHANGED rdyOut

\* queryLookupd returns; lookupdLoop (after its jitter sleep) selects
LKQueryDone ==
    /\ lk = "connect" /\ todo = {} /\ dialing = NoAddr
    /\ lk' = "select"
    /\ UNCHANGED <<reader, conn, nsqd, handler, lookupds, todo, dialing>>
    /\ UNCHANGED rdyOut

\* case <-ticker: poll again (every LookupdPollInterval)
LKTick ==
    /\ lk = "select"
    /\ lk' = "query"
    /\ UNCHANGED <<reader, conn, nsqd, handler, lookupds, todo, dialing>>
    /\ UNCHANGED rdyOut

\* case <-q.lookupdRecheckChan: poll now
LKRecheck ==
    /\ lk = "select" /\ recheck
    /\ recheck' = FALSE
    /\ lk' = "query"
    /\ UNCHANGED <<qStop, conns, incomingClosed, timer, exited, running,
                   qReceived, qFinished, qRequeued, qInFlight, stopPc>>
    /\ UNCHANGED <<conn, nsqd, handler, lookupds, todo, dialing>>
    /\ UNCHANGED rdyOut

(* case <-q.lookupdExitChan meets Stop's send: lookupdLoop returns and     *)
(* Stop() returns.                                                         *)
LKExit ==
    /\ lk = "select" /\ stopPc = "exit"
    /\ lk' = "exited"
    /\ stopPc' = "done"
    /\ UNCHANGED <<qStop, conns, incomingClosed, timer, exited, running,
                   qReceived, qFinished, qRequeued, qInFlight, recheck>>
    /\ UNCHANGED <<conn, nsqd, handler, lookupds, todo, dialing>>
    /\ UNCHANGED rdyOut

-----------------------------------------------------------------------------
(* nsqd, modelled from the protocol description: a message per unit of     *)
(* RDY credit, CLOSE_WAIT once in answer to CLS (after which no message),  *)
(* heartbeats; it stops writing once the socket is closed or broken.       *)
NsqdSendMsg(c) ==
    /\ sock[c] = "open" /\ cls[c] = "none" /\ srvRdy[c] > 0
    /\ sent[c] < MaxMsgs
    /\ toClient' = [toClient EXCEPT ![c] = Append(@, "msg")]
    /\ srvRdy' = [srvRdy EXCEPT ![c] = @ - 1]
    /\ sent' = [sent EXCEPT ![c] = @ + 1]
    /\ UNCHANGED <<reader, conn, hbSent, cls, handler>>
    /\ UNCHANGED lookup
    /\ UNCHANGED rdyOut

NsqdCloseWait(c) ==
    /\ sock[c] = "open" /\ cls[c] = "received"
    /\ toClient' = [toClient EXCEPT ![c] = Append(@, "close_wait")]
    /\ cls' = [cls EXCEPT ![c] = "answered"]
    /\ UNCHANGED <<reader, conn, srvRdy, sent, hbSent, handler>>
    /\ UNCHANGED lookup
    /\ UNCHANGED rdyOut

NsqdHeartbeat(c) ==
    /\ sock[c] = "open" /\ hbSent[c] < MaxHeartbeats
    /\ toClient' = [toClient EXCEPT ![c] = Append(@, "heartbeat")]
    /\ hbSent' = [hbSent EXCEPT ![c] = @ + 1]
    /\ UNCHANGED <<reader, conn, srvRdy, sent, cls, handler>>
    /\ UNCHANGED lookup
    /\ UNCHANGED rdyOut

\* the network breaks the socket: later reads and writes fail
NetBreak(c) ==
    /\ FaultyNet /\ sock[c] = "open"
    /\ sock' = [sock EXCEPT ![c] = "broken"]
    /\ UNCHANGED <<reader, cStop, rdy, inflight, received, finished, requeued,
                   rl, fl, drain, dying, stopped, nsqd, handler>>
    /\ UNCHANGED lookup
    /\ UNCHANGED rdyOut

-----------------------------------------------------------------------------
ReadLoop(c) ==
    \/ RLInit(c) \/ RLBreak(c) \/ RLGo(c) \/ RLReadError(c) \/ RLReadMsg(c)
    \/ RLReadCloseWait(c) \/ RLReadHeartbeat(c) \/ RLReady(c)
    \/ RLInitSend(c) \/ RLSend(c)

FinishLoop(c) ==
    \/ FLDying(c) \/ FLCheck(c) \/ \E h \in Senders : FLRecv(c, h)

Drain(c) == DrainDec(c) \/ \E h \in Senders : DrainRecv(c, h)

\* the async handler and router steps that wait on nothing external
AsyncStep ==
    \/ \E h \in AsyncHandlers : AsyncCheck(h) \/ HandlerLog(h)
    \/ \E r \in Routers : RouterRecv(r)

\* lookupdLoop's steps other than waiting for its ticker
Lookupd ==
    \/ (\E ok \in BOOLEAN : LKQuery(ok)) \/ (\E a \in Addrs : LKConnect(a)) \/ LKDial \/ LKQueryDone
    \/ LKRecheck \/ LKExit

\* a step of a client goroutine that waits on nothing external
ClientStep ==
    \/ \E c \in Conns : \/ ReadLoop(c) \/ FinishLoop(c) \/ Drain(c)
                      \/ \E h \in Handlers : Dispatch(c, h)
    \/ \E h \in Handlers : HandlerExit(h)
    \/ AsyncStep
    \/ Lookupd

(* The timer fires 30 s after Stop.  The client's own goroutines run in    *)
(* far less, so it fires only once none of them can step: what it overtakes *)
(* is a slow HandleMessage or a silent nsqd.                               *)
TimerFire ==
    /\ timer = "armed"
    /\ ~ENABLED ClientStep
    /\ timer' = "fired"
    /\ incomingClosed' = TRUE
    /\ UNCHANGED <<qStop, conns, exited, running, qReceived, qFinished,
                   qRequeued, qInFlight, conn, nsqd, handler>>
    /\ UNCHANGED <<lookup, recheck, stopPc>>
    /\ UNCHANGED rdyOut


Nsqd(c) == NsqdSendMsg(c) \/ NsqdCloseWait(c) \/ NsqdHeartbeat(c)
           \/ NetBreak(c)

Next ==
    \/ \E c \in Conns :
          \/ ConnectToNSQ(c) \/ ReadLoop(c) \/ FinishLoop(c) \/ Drain(c)
          \/ Nsqd(c) \/ \E h \in Handlers : Dispatch(c, h)
    \/ \E h \in Handlers : HandlerDone(h) \/ HandlerExit(h)
    \/ AsyncStep
    \/ Stop \/ TimerFire
    \/ (\E l \in Lookupds : ConnectToLookupd(l)) \/ Lookupd \/ LKTick

(* Every goroutine step is weakly fair.  Channel rendezvous are strongly   *)
(* fair: Go queues blocked senders in FIFO order and picks select cases at *)
(* random, so a sender that stays ready is eventually served.  nsqd sends  *)
(* while it has credit and answers CLS; the 30 s timer eventually fires.   *)
(* lookupdLoop runs and its ticker keeps firing; the program calls         *)
(* ConnectToLookupd when it is configured with lookupds.  A lookupd is not *)
(* down for ever: a query that keeps being made is eventually answered.    *)
(* Stop, heartbeats and network faults are not forced.                     *)
ServingFairness ==
    /\ \A c \in Conns :
          /\ WF_vars(ConnectToNSQ(c))
          /\ WF_vars(RLInit(c) \/ RLBreak(c) \/ RLGo(c) \/ RLReadError(c)
                     \/ RLReadMsg(c) \/ RLReadCloseWait(c)
                     \/ RLReadHeartbeat(c) \/ RLReady(c)
                     \/ RLInitSend(c) \/ RLSend(c))
          /\ SF_vars(\E h \in Handlers : Dispatch(c, h))
          /\ WF_vars(FLCheck(c))
          /\ WF_vars(NsqdSendMsg(c))
    /\ \A h \in Senders : SF_vars(\E c \in Conns : FLRecv(c, h))
    /\ \A h \in Handlers : WF_vars(HandlerDone(h))
    /\ \A h \in AsyncHandlers : WF_vars(AsyncCheck(h)) /\ SF_vars(HandlerLog(h))
    /\ \A r \in Routers : SF_vars(RouterRecv(r))

\* the steps that only a stopping connection or Reader takes
StoppingFairness ==
    /\ \A c \in Conns :
          /\ SF_vars(FLDying(c))
          /\ WF_vars(DrainDec(c))
          /\ SF_vars(\E h \in Senders : DrainRecv(c, h))
          /\ WF_vars(NsqdCloseWait(c))
    /\ \A h \in Handlers : WF_vars(HandlerExit(h))
    /\ WF_vars(TimerFire)

Fairness == ServingFairness /\ StoppingFairness

LookupdFairness ==
    /\ WF_vars(\E l \in Lookupds : ConnectToLookupd(l))
    /\ WF_vars(\E ok \in BOOLEAN : LKQuery(ok)) /\ SF_vars(LKQuery(TRUE))
    /\ WF_vars(\E a \in Addrs : LKConnect(a))
    /\ WF_vars(LKDial) /\ WF_vars(LKQueryDone) /\ WF_vars(LKTick)
    /\ SF_vars(LKRecheck) /\ SF_vars(LKExit)

Spec == Init /\ [][Next]_vars /\ Fairness /\ LookupdFairness

\* With no lookupd address configured (Lookupds = {}) no lookupd step is ever
\* enabled, so LookupdFairness holds of every behaviour and is left out.
DirectSpec == Init /\ [][Next]_vars /\ Fairness

\* Without Stop (UserStops = FALSE) and without faults (FaultyNet = FALSE) no
\* stop flag is ever set: no connection or Reader stops, and the steps of
\* StoppingFairness are never enabled, so it is left out too.
HealthySpec == Init /\ [][Next]_vars /\ ServingFairness

-----------------------------------------------------------------------------
MsgsInTransit(c) == Len(SelectSeq(toClient[c], LAMBDA f : f = "msg"))

\* an updateReady on c has stored rdyCount and not yet written its RDY
RdyWriting(c) == rl[c] \in {"initsend", "send"}

TypeOK ==
    /\ qStop \in BOOLEAN /\ conns \subseteq Conns
    /\ incomingClosed \in BOOLEAN /\ exited \in BOOLEAN
    /\ timer \in {"off", "armed", "fired"}
    /\ running \in 0..Cardinality(Handlers)
    /\ {qReceived, qFinished, qRequeued} \subseteq Nat /\ qInFlight \in Int
    /\ sock \in [Conns -> {"none", "open", "closed", "broken"}]
    /\ cStop \in [Conns -> BOOLEAN] /\ stopped \in [Conns -> BOOLEAN]
    /\ dying \in [Conns -> BOOLEAN]
    /\ rdy \in [Conns -> Int] /\ inflight \in [Conns -> Int]
    /\ \A c \in Conns : {received[c], finished[c], requeued[c]} \subseteq Nat
    /\ rl \in [Conns -> {"none", "init", "initsend", "check", "read", "push",
                         "rdy", "send", "done"}]
    /\ fl \in [Conns -> {"none", "select", "check", "done"}]
    /\ drain \in [Conns -> {"none", "wait", "dec", "recv", "done"}]
    /\ toClient \in [Conns -> Seq(Frames)]
    /\ cls \in [Conns -> {"none", "received", "answered"}]
    /\ hs \in [Senders -> {"idle", "busy", "log", "resp", "exited"}]
    /\ hconn \in [Senders -> Conns \cup {NoConn}]
    /\ hsucc \in [Senders -> BOOLEAN]
    /\ logChan \in Seq(Conns) /\ Len(logChan) <= 1
    /\ lookupds \subseteq Lookupds /\ todo \subseteq Addrs
    /\ lk \in {"none", "query", "connect", "select", "exited"}
    /\ dialing \in Addrs \cup {NoAddr} /\ recheck \in BOOLEAN
    /\ stopPc \in {"none", "exit", "done"}
    /\ rdyOut \in [Conns -> Nat]

\* messages of c held by a goroutine: readLoop pushing, a handler or the
\* router, or the FileLogger's logChan buffer
Holding(c) ==
    (IF rl[c] = "push" THEN 1 ELSE 0)
    + Cardinality({h \in Senders : hs[h] \in {"busy", "log", "resp"}
                                  /\ hconn[h] = c})
    + Len(SelectSeq(logChan, LAMBDA d : d = c))

(* Every message counted in flight on a connection whose finishLoop still *)
(* runs is held by exactly one goroutine that will answer it: readLoop,   *)
(* a handler, logChan or the router.  A message lost between AddAsync-    *)
(* Handler, HandleMessage and the router would leave messagesInFlight     *)
(* above zero for ever, so the connection never closes on Stop.           *)
InFlightAccounted ==
    \A c \in conns : fl[c] # "done" => inflight[c] = Holding(c)

(* The client never believes it holds more RDY credit than nsqd will still *)
(* honour (credit left plus messages already on the wire); otherwise       *)
(* updateReady would wait for messages that never come and never refill.   *)
(* Stated outside the window between an updateReady's store of rdyCount   *)
(* and its RDY write.                                                      *)
CreditNotOverestimated ==
    \A c \in conns :
        /\ sock[c] = "open" /\ ~cStop[c]
        /\ ~RdyWriting(c)
        => rdy[c] <= srvRdy[c] + MsgsInTransit(c)

(* readLoop never blocks sending on incomingMessages once it is closed: in *)
(* Go that send panics and kills the process.                              *)
NoSendOnClosed ==
    \A c \in Conns : ~(rl[c] = "push" /\ incomingClosed)

(* A connection is never starved: while its socket stays open, nsqd        *)
(* eventually delivers everything it has.                                  *)
NoStall ==
    \A c \in Conns :
        sock[c] = "open" ~> (sent[c] = MaxMsgs \/ sock[c] # "open")

(* No handler is left sending its FinishedMessage to a connection whose    *)
(* finishLoop has returned and whose drain goroutine has finished: nothing *)
(* will ever receive it, so the handler, and with it ExitChan, hangs.      *)
HandlerNotOrphaned ==
    \A h \in Senders :
        hs[h] = "resp" => ~(fl[hconn[h]] = "done" /\ drain[hconn[h]] = "done")

(* Once the Reader is stopping (Stop, or the last connection failing), the *)
(* handlers all exit and ExitChan fires.                                   *)
StopCompletes == qStop ~> exited

\* some live connection to nsqd a is in the map
Serving(a) == \E c \in conns : c[1] = a /\ sock[c] = "open" /\ ~cStop[c]

(* An nsqd connection that is lost while the Reader runs is replaced:      *)
(* stopFinishLoop removes it from the map and pokes lookupdLoop, whose     *)
(* query then dials the producer again, unless dials run out (the bound).  *)
ReconnectsAfterLoss ==
    \A a \in Addrs :
        (lk \in {"select", "query", "connect"} /\ ~Serving(a) /\ ~qStop)
            ~> (Serving(a) \/ qStop \/ ~CanDial(a))

(* Stop() returns: its send on lookupdExitChan is eventually received by   *)
(* lookupdLoop, even when Stop comes in the middle of a query.             *)
StopReturns == stopPc = "exit" ~> stopPc = "done"

(* The spec: ExitChan is signalled once all handlers and connections have  *)
(* exited.  So no nsqd connection is opened after ExitChan has fired.      *)
NoConnectAfterExit ==
    [][exited => \A c \in Conns : ~(sock[c] = "none" /\ sock'[c] = "open")]_vars

=============================================================================
