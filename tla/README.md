# TLA+ models of nsq 0.2.16

This directory holds TLA+ specifications of the concurrent core of this
repository and the TLC configurations that check them. They cover the broker's
durable queue (`src/nsqd/diskqueue.go`), the consumer library's Reader
(`src/nsq/reader.go`), and nsqadmin's parallel queries of lookupd and nsqd
(`src/nsqadmin/lookupd_utils.go`). `PROJECT.json` is the machine-readable index. It lists
the components, each run with its properties, the mutants that show every
checked property can fail, the map from each TLA+ definition to the Go lines it
models, the findings, and the hazards of the code.

Run a check from this directory with

    tlc -workers 2 -config <Run>.cfg MC<Module>

## The system and its parts

| Part | Source | Concurrency | Model |
|---|---|---|---|
| DiskQueue | src/nsqd/diskqueue.go | one `ioLoop` goroutine owns all positions. `Put`, `Empty`, `Close` and the consumer reach it over unbuffered channels. Segments and a metadata file are on disk | `DiskQueue`, `MCDiskQueue` |
| Reader connection lifecycle | src/nsq/reader.go | per connection: `readLoop` and `finishLoop` goroutines, plus a drain goroutine started at close. Shared: handler goroutines fed by `incomingMessages`, and `Stop` with its 30 s timer | `Reader`, `MCReader` |
| Reader lookupd discovery | src/nsq/reader.go | `lookupdLoop` polls and reconnects. `stopFinishLoop` pokes it through `lookupdRecheckChan`. `Stop` waits for it on `lookupdExitChan` | `Reader`, `MCReader` |
| Flow-control API | src/nsq/reader.go | `SetMaxInFlight` runs `updateReady` on the caller's goroutine, concurrently with `readLoop`. `IsStarved` reads the counters | `ConnectionMaxInFlight`, and `updateReady` as two steps; `SetMaxInFlight` and `IsStarved` not modelled (see below) |
| AddAsyncHandler and the nsq_to_file router | src/nsq/reader.go, src/test/maint.go | the async handler goroutine passes each message to `FileLogger.logChan` (buffer 1); the router goroutine writes it, sends its FIN on the connection's `finishedMessages`, and calls `Stop` on a signal | `Reader` (`AsyncCheck`, `HandlerLog`, `RouterRecv`), run rd_faulty |
| nsqadmin fan-out | src/nsqadmin/lookupd_utils.go | one goroutine per address, each making an HTTP request and merging its reply under a mutex; the caller joins them with a WaitGroup | `AdminQuery`, `MCAdminQuery` |
| Examples and process mains | src/test/main.go, src/examples/nsq_to_http, src/nsqd/main.go, tcp.go, src/nsqlookupd | clients of Reader; flag parsing and listeners | not modelled |

The three modelled parts do not share state in this code base. The DiskQueue
backs a broker channel. The Reader consumes from brokers over TCP. nsqadmin
talks to lookupd and nsqd over HTTP only. The broker
that serves the Reader (protocol V2: RDY credit, FIN/REQ, CLS → CLOSE_WAIT,
heartbeats) is not under `src/`. `Reader` therefore models it as the
environment, from the protocol description in the spec.

## Module `DiskQueue`

State: the variables map one to one onto the struct fields and the locals of
`ioLoop`.

| Variables | Go |
|---|---|
| `readPos`, `readFileNum`, `writePos`, `writeFileNum`, `depth`, `nextReadPos`, `nextReadFileNum` | the struct fields |
| `dataRead`, `count` | the locals of `ioLoop` |
| `ioLoop` | the loop's program counter: top of the loop, blocked in the select, or exited |
| `status` | the `exitFlag`, plus whether the process crashed |
| `files` | the segment files, each a sequence of records `[id, len]` of `4 + len` bytes |
| `meta` | the metadata file (or `NoMeta`) |

History variables (`written`, `delivered`, `discarded`) record what the
clients saw. The properties use them.

Actions, one per step of the single goroutine:

* `LoopCount`: the `count == syncEvery` sync at the top of the loop. It is
  part of each `LoopTop*` action.
* `LoopTopRead`, `LoopTopReadError`, `LoopTopNoRead`: the read-ahead
  through `readOne`. That covers a read that rolls into the next segment,
  and a read that fails (`continue`, line 433).
* `Deliver`: the `r <- dataRead` case. It commits the read-ahead. When a
  segment is crossed it syncs and removes the old file, but only if the
  sync succeeded.
* `DoEmpty`: `Empty` / `doEmpty`.
* `Put(len)`: `Put` / `writeOne`. The file is opened `O_APPEND`, so the
  record lands at the end of the file whatever `writePos` says.
* `Accepting` is the guard that `Put` and `Empty` share: the queue is open
  and `ioLoop` waits in its `select`. The channels are unbuffered, so the
  call completes only in that select.
* `CloseBegin`, `Exit`: `Close` sets `exitFlag` and closes `exitChan`. The
  loop exits, and `Close` syncs (`CloseSync`, which may fail like any
  sync).
* `Crash`: the process dies. Memory is lost; files and metadata survive.
* `Restart`: `NewDiskQueue` / `retrieveMetaData`.

`Sync(ok, m)` models `sync()` and `persistMetaData()`. The five integers
are written to a temporary file and renamed over the metadata, or, when
`SyncCanFail`, the old metadata is left in place.

`Walk` recursively follows the records from a read cursor to a write cursor,
the way `readOne` does. `Pending` is what a reader would find on disk.

Abstractions: file handles and the `bufio.Reader` are left out. The read
stream is always at `readPos` when `readOne` runs, and the `O_APPEND` write
handle has no position of its own. Payloads are ids with a length.

### Refinement: `DurableQueue`

`DurableQueue` is what a `BackendQueue` promises its users: `Put` appends to
a FIFO, the consumer takes the oldest message, `Empty` drops everything
pending, and `Close` stops `Put` and `Empty` until the queue is reopened.
`DiskQueue` ends with

    Abstract == INSTANCE DurableQueue WITH Msgs <- Ids, queue <- Pending,
                out <- delivered, accepting <- (status = "open")

so the abstract queue is what a reader would find on disk (`Pending`).
dq_main checks `ImplementsDurableQueue == Abstract!Spec` as a property:
without crashes and sync failures, every `DiskQueue` step is a
`DurableQueue` step or a stutter, and a pending message is eventually
delivered. A read-ahead into the next record is a stutter, and so is a
segment rollover. `Deliver` is the abstract `Get`. With a crash the
refinement fails by design: a crash before the next periodic sync loses a
message whose `Put` returned. dq_main with `MaxCrashes = 1` finds this as a
violation of `WrittenEventuallyDelivered`; it is kept as an observation
below, not as a run.

## Module `Reader`

State:

| Variables | Go |
|---|---|
| `qStop`, `conns`, `incomingClosed`, `timer`, `running`, `exited`, `q*` counters | Reader fields: `stopFlag`, the keys of `nsqConnections`, `close(incomingMessages)`, Stop's timer goroutine, `runningHandlers`, `ExitChan`, the aggregate counters |
| `sock`, `cStop`, `rdy`, `inflight`, `received`, `finished`, `requeued`, `dying`, `stopped` | the nsqConn fields (`stopped` is `c.stopper`) |
| `rl[c]`, `fl[c]`, `drain[c]`, `hs[h]` | program counters of `readLoop`, `finishLoop`, the drain goroutine and each `AddHandler` worker |
| `toClient`, `srvRdy`, `sent`, `hbSent`, `cls` | nsqd: frames on the wire, its RDY credit, messages and heartbeats sent, whether CLS arrived |
| `lookupds`, `lk`, `todo`, `dialing` | `lookupdAddresses`; the program counter of `lookupdLoop`; the producers left in the current `queryLookupd`; the address `ConnectToNSQ` is dialing (past its checks, before the dial returns) |
| `logChan`, `hs[r]` for `r \in Routers` | maint.go: `FileLogger.logChan` (the connections of the buffered messages, at most one), and the router goroutine: `"idle"` in its select, `"resp"` sending a FIN |
| `recheck`, `stopPc` | `lookupdRecheckChan` (buffer 1); where `Stop` is: not called, blocked sending on `lookupdExitChan`, or returned |

A connection is an `nsqConn` object: the pair `<<addr, k>>`, the `k`-th dial
of that address (`Conns == Addrs \X (1..MaxDials)`). `nsqConnections` is
keyed by address, so `StopFinishLoop` deletes every entry of the address,
and a later query can dial the same address again as a fresh object.
`MaxDials` bounds the reconnections.

Every blocking point of a goroutine is a program-counter value. Each step
between two blocking points is one action.

* `ConnectToNSQ(c)`: `ConnectToNSQ` called directly, including its
  refusals and a failed dial or SUB. It is enabled only when no lookupd is
  configured (`Lookupds = {}`); the apps of this repository use one mode or
  the other.
* Lookupd discovery:
  * `ConnectToLookupd(l)`: appends the address; the first one starts
    `lookupdLoop` (`lk` becomes `"query"`).
  * `LKQuery(answered)`: the HTTP query. A failed query (only when
    `FaultyNet`) yields no producers.
  * `LKConnect(a)`: the next producer: `ConnectToNSQ`'s checks (stop flag,
    handlers, already connected). If they pass, `dialing` holds the address.
  * `LKDial`: the dial, SUB, map insert and goroutine start, or a failed
    dial. The stop flag is not checked again, as in the code.
  * `LKQueryDone`, `LKTick`, `LKRecheck`, `LKExit`: the end of a query and
    the three cases of the loop's `select`.
  * `Lookupd` groups every lookupd step except `LKTick`; it is part of
    `ClientStep`.
* The read loop:
  * `RLInit`, `RLInitSend`: the initial `updateReady`, as its two steps.
  * `RLBreak` / `RLGo`: the stop-flag test at the top of the loop.
  * `RLReadError`: a failed `ReadResponse`, followed by `handleError`.
  * `RLReadMsg`: a message frame and the five counter updates.
  * `RLReadCloseWait`: a CLOSE_WAIT frame.
  * `RLReadHeartbeat`: the NOP reply, including the early `return`.
  * `RLReady`, `RLSend`: the `updateReady` after each frame. The first
    step stores `rdyCount` (`RLStoreReady`); the second writes RDY
    (`SendReady`). nsqd can send on the old credit in between. `rdyOut`
    holds the count between the two steps.
* The handoffs on the unbuffered channels are actions of both goroutines:
  * `Dispatch(c, h)`: `incomingMessages`, from the read loop to a handler.
  * `FLRecv(c, h)`: `finishedMessages`, from a handler to `finishLoop`.
  * `DrainRecv(c, h)`: `finishedMessages`, from a handler to the drain
    goroutine.
  * `FLDying`: `drainReady`, from `finishLoop` to the drain goroutine.
* `HandlerDone(h)`: `HandleMessage` returns, with any outcome. The attempt
  count decides the give-up path.
* The async path (`AsyncHandlers`, a subset of `Handlers`, and `Routers`,
  empty or maint.go's one router; `Senders` is both):
  * `AsyncCheck(h)`: the `AddAsyncHandler` goroutine after its receive.
    Past `MaxAttemptCount` it sends the give-up FIN itself (state `"resp"`,
    answered by `FLRecv` or `DrainRecv`); otherwise it calls
    `HandleMessage`. Its exit path is `HandlerExit`, as for `AddHandler`.
  * `HandlerLog(h)`: maint.go's `HandleMessage`, the send on `logChan`; it
    blocks while the buffer is full.
  * `RouterRecv(r)`: the router's `logChan` case. `updateFile` returns
    true in this build, so `sync` is set after every select case: the
    record is written, `Sync` returns nil, and the router sends the FIN at
    once. The router therefore holds at most one message, and `IsStarved`,
    evaluated after `closing || sync`, is never called. The hup and ticker
    cases change no state the model keeps.
  * The router's termChan case is `Stop`: with a router, `Stop` requires it
    to be in its select, and while `Stop` blocks on `lookupdExitChan`
    (`stopPc = "exit"`) the router receives nothing.
* `FLCheck`: the idle check after a FIN or REQ. `DrainDec`: the drain loop's
  `AddInt64(..., -1) >= 0`.
* `HandlerExit`, `Stop`, `TimerFire`: the handler exit path, `Stop()`, and
  the 30 s timer's `stopHandlers`.
* `RLStoreReady`, `SendReady`, `StopFinishLoop` and `HandleError` model the Go functions.
  They are used inside the actions that call them.
* nsqd: `NsqdSendMsg` sends a message when it has credit and no CLS.
  `NsqdCloseWait` answers CLS. `NsqdHeartbeat` sends a heartbeat.
  `NetBreak` breaks the socket. Frames already on the wire can still be read
  after the socket is closed: they may sit in the `bufio.Reader`, or a read
  may have returned just before the close.

`TimerFire` is enabled only when no client goroutine can take a step
(`ClientStep`). Thirty seconds is far longer than any handoff between the
Reader's own goroutines. So what the timer overtakes is a slow `HandleMessage`
or a silent nsqd, never runnable Go code.

## Module `AdminQuery`

Every `get*` function of `lookupd_utils.go` has the same shape. For each
address it calls `wg.Add(1)` and starts a goroutine. The goroutine makes the
HTTP request, takes the mutex, and merges its reply into a shared result
(or returns on an error) under `lock.Lock(); defer lock.Unlock(); defer
wg.Done()`, so `wg.Done` runs before `Unlock`. The caller waits on the
WaitGroup, post-processes, and fails only when no request succeeded. One
call is modelled; `fn` is the function called, one of the seven `get*`
functions.

| Variables | Go |
|---|---|
| `caller`, `next` | the caller: range loop (and its index), `wg.Wait`, returned |
| `g[e]`, `gok[e]` | the goroutine of the e-th address, and whether its request succeeded |
| `wg`, `owner` | the WaitGroup counter and the mutex holder |
| `success`, `acc`, `pver`, `maxV` | the shared result: the success flag, the list (a bag), and `getLookupdProducers`' producers and max version |
| `outdated`, `err` | what the call returns |
| `reply`, `ver`, `sel` | what each endpoint answers, chosen in `Init` |

Actions: `Spawn` (`wg.Add(1)` and `go`), `LoopEnd`, `Request(e, ok)`,
`Merge(e)` (the function's merge, dispatched by `MergeReply`: a
`StringUnion`, `AddProducer`, or an append), `Unlock(e)` and `Wait` (which
includes the `OutOfDate` marking). Replies are abstracted to sets of items.
JSON decoding, key formatting and sorting are left out. The closure reads
the range variable through `AddrRead`. The constant `SharedLoopVar` selects
the Go semantics the binary is built with: before Go 1.22 all goroutines
share one `addr`.

## Runs

| Run | Cfg | Expect | What it shows |
|---|---|---|---|
| dq_main | DiskQueue.cfg | pass | Without crashes or I/O errors the segments hold exactly the undelivered messages, in order. Depth is right, the metadata is always usable, and `DiskQueue` implements `DurableQueue` (FIFO delivery and eventual delivery included), across Empty, Close and reopen |
| dq_faults | DiskQueueFaults.cfg | pass | Every sync may fail and the process may crash once and restart. Up to the crash the queue serves the right records, no segment the on-disk metadata still points into is deleted, and every recovery path (including the failing `readOne` after a restart) is reached |
| dq_close_hang | DiskQueueCloseHang.cfg | violation | After a restart misaligns the reader, the reader deletes the writer's live segment and then spins on the read error; Close never returns |
| rd_nostop | ReaderNoStop.cfg | pass | Two connections on a healthy network, no Stop. RDY refills never stall a connection: nsqd eventually sends everything it has |
| rd_faulty | ReaderFaulty.cfg | pass | nsq_to_file as `src/test/maint.go` wires it: one async handler, `logChan` and the router, on a socket that may break at any point, with heartbeats and a Stop from the router. Every message counted in flight is held by exactly one goroutine that will answer it (readLoop, the handler, `logChan` or the router); and the client never believes it has more RDY credit than nsqd will honour |
| rd_stop_drain | ReaderStopDrain.cfg | violation | Stop while nsqd has a message on the wire: the drain goroutine exits before readLoop counts that message, and the handler blocks forever on `finishedMessages` |
| rd_stop_panic | ReaderStopPanic.cfg | violation | Stop with a slow handler: the 30 s timer closes `incomingMessages` while readLoop is blocked sending on it, which is a panic |
| rd_heartbeat_leak | ReaderHeartbeatLeak.cfg | violation | A failed NOP reply returns from readLoop without `stopFinishLoop`. The Reader is flagged stopped, but the connection is never removed and ExitChan never fires |
| rd_lookupd | ReaderLookupd.cfg | pass | Lookupd discovery with a failing lookupd, failing dials and breaking sockets: a lost nsqd connection is always replaced while dials remain, and `Stop()` always returns, even in the middle of a query |
| rd_connect_after_exit | ReaderConnectAfterExit.cfg | violation | `Stop()` during a query: the handlers exit and ExitChan fires, then the dial that had passed its stop-flag check completes, and a new connection starts its goroutines and sends RDY |
| admin_query | AdminQuery.cfg | pass | For each of the seven `get*` functions, over two endpoints that may fail, overlap or be empty: the call returns, fails exactly when no endpoint answered, and returns exactly the merge of the answers (each list item once; `OutOfDate` marks exactly the producers older than the newest parsable version) |
| admin_loop_var | AdminLoopVar.cfg | violation | Built with a shared range variable, `getNSQDTopicProducers` appends `addr` as it is when the goroutine runs. The result can name an nsqd that lacks the topic and omit one that has it |

`PROJECT.json` `findings` explains each violation against the code line,
and against the spec statement it contradicts.

Further observations come from the same analysis but have no run of
their own:
* A message whose `Put` returned is lost when the process crashes before
  the next periodic sync. dq_main with `MaxCrashes = 1` shows it as a
  violation of `WrittenEventuallyDelivered`.
* A crash redelivers every message consumed since the last sync, up to
  `syncEvery - 1` of them. The spec allows one.
* With a failed FIN, the Reader-wide counters stay short by one. `finishLoop`
  decrements in-flight before the write, on purpose. The model makes the
  decrement, the write and the count one step of `FLRecv`, so no property
  states the counter balances: they would hold by the shape of that step.
* After a restart, `O_APPEND` writes land past the restored `writePos`. The
  reader then returns a stale record and never reaches the new message.
  dq_close_hang shows the worst consequence of the same misalignment.
* RDY is refilled as soon as a message reaches a handler. In-flight can
  therefore exceed the connection's max-in-flight, which the spec says it
  never does. `CreditNotOverestimated` checks what the code does ensure.
* Under lookupd, a connection lost to the heartbeat leak of
  rd_heartbeat_leak keeps its map entry, so `queryLookupd` answers
  `ErrAlreadyConnected` and the address is never dialed again.

## Bounds and why they suffice

* DiskQueue: `MaxBytesPerFile = 4` with record lengths `{0, 1}` gives records
  of 4 or 5 bytes. A segment rolls after one or two records, which exercises
  both the `>` boundary and multi-segment reads. `SyncEvery = 2` puts the
  periodic sync between two consecutive operations. Three puts allow a
  message in flight, a message in the read-ahead, and one still on disk at
  the same time. One Empty, one Close and one crash reach every recovery
  path. Larger bounds were measured and are out of reach: dq_main with
  `MaxPuts = 4` takes about 370 s, and about 730 s with two Closes.
* The dq_faults and dq_close_hang runs use `MaxBytesPerFile = 8`. With 4, a segment holds at
  most one record, so after a crash the reader cannot overtake the writer
  inside one segment.
* Reader: two connections make map removal, the last-connection rules and
  the per-connection share of max-in-flight matter. Two messages per
  connection let one be on the wire while another is handled. In rd_faulty
  the async handler, `logChan` and the router hold up to three messages
  of the connection at once (two with `MaxInFlight = 2` plus one on the
  wire), so `logChan` fills and `HandleMessage` blocks.
  One heartbeat reaches the NOP path. Larger bounds add states but no new
  orderings of these steps.
* AdminQuery: two addresses make the shared merge, the mutex and the
  WaitGroup matter, and let one request fail while the other succeeds. Two
  items let replies overlap, and two versions plus `Unparsable` reach every
  `OutOfDate` case.
* Lookupd runs: one address, one lookupd, two dials of that address and no
  messages. Two dials are enough for a loss followed by a reconnection.
  Messages add nothing to discovery: the steps they add are already checked
  in rd_faulty. They also make the liveness check of rd_lookupd too slow.

## Fairness

* DiskQueue: the loop-top steps are weakly fair. `Deliver` and `Exit` are
  strongly fair, because Go's `select` chooses uniformly among ready cases,
  and the consumer is always ready to receive. `Restart` is weakly fair: a
  stopped queue is reopened. Puts, Empties, Closes and crashes are never
  forced.
* Reader: every goroutine step is weakly fair. A handoff on a channel is
  strongly fair, because blocked senders are served in FIFO order and select
  cases are chosen at random. Two environment steps are weakly fair as well:
  nsqd sends while it has credit and answers CLS, and the 30 s timer
  eventually fires. Stop, heartbeats and socket failures are never forced.
  The conditions on stopping (`StoppingFairness`) only concern steps after
  a Stop or a socket error. rd_nostop has neither (`UserStops = FALSE`,
  `FaultyNet = FALSE`), so it uses `HealthySpec`, which keeps
  `ServingFairness` only. The stopping steps are never enabled there, so
  their fairness holds trivially. The async handler's `HandlerLog` and the
  router's `RouterRecv` are strongly fair: the first is a channel send
  served in FIFO order, the second a select case chosen at random.
* Lookupd: every `lookupdLoop` step and `ConnectToLookupd` are weakly fair.
  The ticker fires periodically (weak fairness on `LKTick`). A query that
  succeeds is strongly fair: a lookupd may fail, but not forever. `LKRecheck`
  and `LKExit` are strongly fair, because they are `select` cases chosen at
  random. These conditions form `LookupdFairness`. Runs with no lookupd
  configured use `DirectSpec`, which leaves them out: no lookupd step is ever
  enabled there, so the conditions hold trivially. Leaving them out only
  shortens the liveness check.
* AdminQuery: every goroutine step and every caller step is weakly fair.
  The HTTP client's timeout makes the request return. A goroutine takes the
  mutex once, so a waiting goroutine gets it once the others are through.

## Not modelled, and why

* DiskQueue:
  * Failed or short segment writes, and failed open or seek calls. A short
    write followed by O_APPEND misaligns every later record. Its
    consequence, a reader that fails or overtakes the writer, is the same
    misalignment that dq_close_hang reaches through a crash. A run of its
    own would need a violation slot, and the project keeps one run per
    question.
  * A second `Close`, which panics on `close(exitChan)`.
  * `syncEvery = 0`, which never syncs. The model assumes a positive value.
* Reader:
  * `SetMaxInFlight`. It calls `updateReady` for every connection from the
    caller's goroutine while `readLoop` calls it too. Each stores
    `rdyCount` and then writes RDY. If `readLoop` stores the old value,
    `SetMaxInFlight` stores and writes the new one, and `readLoop` then
    writes the old one, nsqd keeps the old credit while the client counts
    the new one. With a credit of 3 or more the connection stalls. Smaller
    values recover through the `<= 1` refill threshold. The model has both
    steps of `updateReady`, but adding the caller's loop as an action grew
    rd_lookupd from about 11 000 to more than 350 000 states, and every run
    past 900 s. Every program under `src/` calls `SetMaxInFlight` before it
    connects, where the race cannot occur.
  * `IsStarved`. It only reads counters, and its one caller, the maint.go
    router, evaluates it after `closing || sync`, which is always true in
    this build, so it is never called.
  * `--max-in-flight=0` in maint.go and nsq_to_http (only `< 0` is fatal).
    The model assumes `MaxInFlight > 0`; with 0 nothing is ever consumed.
  * Liveness of handler answers. `HandlerNotOrphaned` ranges over the
    router, but every configuration with Stop or faults reaches the
    orphaned send of rd_stop_drain, and without them finishLoop never
    leaves its loop, so "every answer is received" would hold by fairness
    alone. A healthy run with the router and two connections also exceeds
    the time budget.
  * The lookupd HTTP answer is abstracted: a lookupd that answers returns
    every nsqd address. Queries of several lookupds run one after another,
    as in the code.
  * Map accesses are atomic in the model. In Go, the unlocked map is a data
    race, listed as a hazard.
* nsqadmin: HTTP handlers, templates and JSON decoding. Only the
  concurrent query fan-out is modelled.
* The examples and the process mains are HTTP/CLI I/O with no shared state
  of their own. `nsq_to_http` is a synchronous handler (an HTTP POST with
  any outcome, which `HandlerDone` covers) and a main that returns right
  after `r.Stop()` on a signal without waiting for ExitChan; its
  `percentile` is a statistic printed at exit. nsqd's and nsqlookupd's mains
  and `tcp.go` parse flags and start listeners. nsqd accepts
  `--sync-every=0`, which never syncs the DiskQueue (see the hazards).

## Plan for the remaining work

1. `SetMaxInFlight` in a run of its own, with one connection and no
   lookupd, if TLC's budget allows it.
2. Split `FLRecv` at the code's gap between the in-flight decrement
   (489) and the FIN/REQ count (502), so that a counter balance becomes a
   property about that window rather than about one step.
