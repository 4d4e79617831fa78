----------------------------- MODULE AdminQuery -----------------------------
(***************************************************************************)
(* nsqadmin's queries of lookupd and nsqd, src/nsqadmin/lookupd_utils.go.  *)
(* Every get* function has the same shape: for each address it does        *)
(* wg.Add(1) and starts a goroutine; the goroutine makes the HTTP request,  *)
(* takes the mutex, and with                                                *)
(*     lock.Lock(); defer lock.Unlock(); defer wg.Done()                    *)
(* merges the reply into the shared result (or returns on an error), so    *)
(* wg.Done runs before lock.Unlock.  The caller waits on the WaitGroup,     *)
(* post-processes, and fails only when no request succeeded.                *)
(*                                                                         *)
(* One call is modelled; fn is the function called.  Replies are           *)
(* abstracted to the set of items (topics, producers) an endpoint reports; *)
(* JSON decoding, formatting of keys and sorting are left out.  The        *)
(* result is a bag: StringUnion and StringAdd add an item only once,       *)
(* append adds it again.                                                   *)
(*   caller   "loop" (the range loop), "wait" (wg.Wait), "done" (returned) *)
(*   g[e]     the goroutine for the e-th address: "none" "req" "lock"      *)
(*            (request returned, waiting for the mutex) "unlock" (Done     *)
(*            has run, Unlock not yet) "exit"                              *)
(***************************************************************************)
EXTENDS Naturals, FiniteSets, Bags, SequencesExt, TLC

CONSTANTS
    Funcs,          \* functions a call may be made to (names below)
    N,              \* number of addresses passed in
    Items,          \* topics / producers an endpoint may report
    Versions,       \* parsable producer versions (numbers above 0.0.0)
    Unparsable,     \* model value: a version semver.Parse rejects
    Topic,          \* the topic argument, one of Items
    AllTopics,      \* model value: getNSQDStats with selectedTopic ""
    NoOwner,        \* model value: the mutex is free
    SharedLoopVar   \* the closure shares the range variable (Go before 1.22)

Idx == 1..N

ASSUME /\ N \in Nat \ {0} /\ Topic \in Items
       /\ Versions \subseteq Nat \ {0} /\ SharedLoopVar \in BOOLEAN
       /\ Funcs \subseteq {"lookupdTopics", "lookupdTopicChannels",
                           "lookupdTopicProducers", "nsqdTopics",
                           "lookupdProducers", "nsqdTopicProducers",
                           "nsqdStats"}

VARIABLES
    fn,         \* the function called
    reply,      \* reply[e]: the items the e-th endpoint reports
    ver,        \* ver[p]: the version string producer p reports
    sel,        \* getNSQDStats' selectedTopic (Topic or AllTopics)
    caller,
    next,       \* index of the next loop iteration; addr is next - 1
    wg,         \* the WaitGroup counter
    g,
    gok,        \* gok[e]: ApiRequest returned no error
    owner,      \* goroutine holding the mutex, or NoOwner
    success,    \* the shared success flag
    acc,        \* the shared result (bag), for every function but producers
    pver,       \* getLookupdProducers: allProducers, key -> VersionObj
    maxV,       \* getLookupdProducers: maxVersion (0 is "0.0.0")
    outdated,   \* producers marked OutOfDate after the Wait
    err         \* the call returned an error

vars == <<fn, reply, ver, sel, caller, next, wg, g, gok, owner, success, acc,
          pver, maxV, outdated, err>>
shared == <<success, acc, pver, maxV>>

-----------------------------------------------------------------------------
(* The value the goroutine of the e-th address reads for addr: its own     *)
(* when the range variable is per iteration, else the variable's current  *)
(* value, the latest iteration's (a racy read).                            *)
AddrRead(e) == IF SharedLoopVar THEN next - 1 ELSE e

\* util.StringUnion / util.StringAdd: add the items not in the list yet
StringUnionMerge(b, items) == b (+) SetToBag(items \ BagToSet(b))

(* The four list queries differ only in the endpoint and in what an item  *)
(* is: a topic, a channel of Topic, a producer's "address:http_port" key, *)
(* a topic an nsqd reports in its stats.                                   *)
LookupdTopicsMerge(e) == acc' = StringUnionMerge(acc, reply[e])
LookupdTopicChannelsMerge(e) == acc' = StringUnionMerge(acc, reply[e])
LookupdTopicProducersMerge(e) == acc' = StringUnionMerge(acc, reply[e])
NSQDTopicsMerge(e) == acc' = StringUnionMerge(acc, reply[e])

\* mutant of AddProducer: maxVersion is not raised
AddProducerKeepsMax(st, p) ==
    IF p \in DOMAIN st.pver THEN st
    ELSE LET v == IF ver[p] = Unparsable THEN st.maxV ELSE ver[p]
         IN [pver |-> st.pver @@ (p :> v), maxV |-> st.maxV]

(* getLookupdProducers' loop over one /nodes reply: a producer whose key   *)
(* is new is recorded; an unparsable version takes the maxVersion of the   *)
(* moment; maxVersion grows.  The reply's order is the lookupd's.          *)
AddProducer(st, p) ==
    IF p \in DOMAIN st.pver THEN st
    ELSE LET v == IF ver[p] = Unparsable THEN st.maxV ELSE ver[p]
         IN [pver |-> st.pver @@ (p :> v),
             maxV |-> IF st.maxV < v THEN v ELSE st.maxV]

ProducersMerge(e) ==
    \E order \in SetToSeqs(reply[e]) :
        LET st == FoldLeft(AddProducer, [pver |-> pver, maxV |-> maxV], order)
        IN pver' = st.pver /\ maxV' = st.maxV

(* getNSQDTopicProducers: when the nsqd lists the topic, append addr (the  *)
(* closure's variable, not the endpoint parameter).                        *)
NSQDTopicProducersMerge(e) ==
    acc' = IF Topic \in reply[e] THEN acc (+) SetToBag({AddrRead(e)}) ELSE acc

(* getNSQDStats: a TopicHostStats per listed topic (all topics, or only    *)
(* the selected one), tagged with the addr passed as a parameter; the      *)
(* channel and client statistics are abstracted.                           *)
NSQDStatsMerge(e) ==
    acc' = acc (+) SetToBag({<<e, t>> : t \in {u \in reply[e] :
                                                sel \in {AllTopics, u}}})

MergeReply(e) ==
    CASE fn = "lookupdProducers" ->
            ProducersMerge(e) /\ UNCHANGED acc
      [] fn = "lookupdTopics" ->
            LookupdTopicsMerge(e) /\ UNCHANGED <<pver, maxV>>
      [] fn = "lookupdTopicChannels" ->
            LookupdTopicChannelsMerge(e) /\ UNCHANGED <<pver, maxV>>
      [] fn = "lookupdTopicProducers" ->
            LookupdTopicProducersMerge(e) /\ UNCHANGED <<pver, maxV>>
      [] fn = "nsqdTopics" ->
            NSQDTopicsMerge(e) /\ UNCHANGED <<pver, maxV>>
      [] fn = "nsqdTopicProducers" ->
            NSQDTopicProducersMerge(e) /\ UNCHANGED <<pver, maxV>>
      [] fn = "nsqdStats" ->
            NSQDStatsMerge(e) /\ UNCHANGED <<pver, maxV>>

-----------------------------------------------------------------------------
Init ==
    /\ fn \in Funcs
    /\ reply \in [Idx -> SUBSET Items]
    /\ ver \in IF fn = "lookupdProducers"
               THEN [Items -> Versions \cup {Unparsable}]
               ELSE {[p \in Items |-> Unparsable]}
    /\ sel \in IF fn = "nsqdStats" THEN {Topic, AllTopics} ELSE {AllTopics}
    /\ caller = "loop" /\ next = 1 /\ wg = 0
    /\ g = [e \in Idx |-> "none"] /\ gok = [e \in Idx |-> FALSE]
    /\ owner = NoOwner /\ success = FALSE /\ acc = EmptyBag
    /\ pver = <<>> /\ maxV = 0 /\ outdated = {} /\ err = FALSE

\* mutant of Spawn: wg.Add(1) made by the goroutine once it runs
SpawnAddInGoroutine ==
    /\ caller = "loop" /\ next <= N
    /\ g' = [g EXCEPT ![next] = "req"]
    /\ next' = next + 1
    /\ UNCHANGED <<fn, reply, ver, sel, caller, wg, gok, owner, outdated, err>>
    /\ UNCHANGED shared

(* One iteration of the range loop: addr is assigned, wg.Add(1), and the   *)
(* goroutine is started with its endpoint.                                 *)
Spawn ==
    /\ caller = "loop" /\ next <= N
    /\ wg' = wg + 1
    /\ g' = [g EXCEPT ![next] = "req"]
    /\ next' = next + 1
    /\ UNCHANGED <<fn, reply, ver, sel, caller, gok, owner, outdated, err>>
    /\ UNCHANGED shared

LoopEnd ==
    /\ caller = "loop" /\ next = N + 1
    /\ caller' = "wait"
    /\ UNCHANGED <<fn, reply, ver, sel, next, wg, g, gok, owner, outdated, err>>
    /\ UNCHANGED shared

\* nsq.ApiRequest returns, with data or with an error
Request(e, ok) ==
    /\ g[e] = "req"
    /\ gok' = [gok EXCEPT ![e] = ok]
    /\ g' = [g EXCEPT ![e] = "lock"]
    /\ UNCHANGED <<fn, reply, ver, sel, caller, next, wg, owner, outdated,
                   err>>
    /\ UNCHANGED shared

(* lock.Lock(), then the body under the mutex: on an error just return,    *)
(* else set success and merge the reply; the deferred wg.Done() runs       *)
(* first on the way out.                                                   *)
Merge(e) ==
    /\ g[e] = "lock" /\ owner = NoOwner
    /\ owner' = e
    /\ IF gok[e]
       THEN success' = TRUE /\ MergeReply(e)
       ELSE UNCHANGED shared
    /\ wg' = wg - 1
    /\ g' = [g EXCEPT ![e] = "unlock"]
    /\ UNCHANGED <<fn, reply, ver, sel, caller, next, gok, outdated, err>>

\* mutant of Unlock: the deferred lock.Unlock() is missing
UnlockMissing(e) ==
    /\ g[e] = "unlock"
    /\ g' = [g EXCEPT ![e] = "exit"]
    /\ UNCHANGED <<fn, reply, ver, sel, caller, next, wg, gok, owner,
                   outdated, err>>
    /\ UNCHANGED shared

\* the deferred lock.Unlock()
Unlock(e) ==
    /\ g[e] = "unlock"
    /\ owner' = NoOwner
    /\ g' = [g EXCEPT ![e] = "exit"]
    /\ UNCHANGED <<fn, reply, ver, sel, caller, next, wg, gok, outdated, err>>
    /\ UNCHANGED shared

\* getLookupdProducers after the Wait: producers older than maxVersion
MarkOutOfDate == {p \in DOMAIN pver : pver[p] < maxV}

(* wg.Wait() returns; getLookupdProducers marks every producer older than  *)
(* maxVersion OutOfDate; the call fails when no request succeeded.         *)
Wait ==
    /\ caller = "wait" /\ wg = 0
    /\ caller' = "done"
    /\ outdated' = IF fn = "lookupdProducers" THEN MarkOutOfDate ELSE {}
    /\ err' = ~success
    /\ UNCHANGED <<fn, reply, ver, sel, next, wg, g, gok, owner>>
    /\ UNCHANGED shared

Next ==
    \/ Spawn \/ LoopEnd \/ Wait
    \/ \E e \in Idx : \/ \E ok \in BOOLEAN : Request(e, ok)
                      \/ Merge(e) \/ Unlock(e)

(* Every goroutine step is weakly fair: the HTTP client's timeout makes    *)
(* ApiRequest return; a goroutine takes the mutex once, so a waiting one   *)
(* gets it once the finitely many others are through.                      *)
Spec ==
    /\ Init /\ [][Next]_vars
    /\ WF_vars(Spawn) /\ WF_vars(LoopEnd) /\ WF_vars(Wait)
    /\ \A e \in Idx : /\ WF_vars(\E ok \in BOOLEAN : Request(e, ok))
                      /\ WF_vars(Merge(e)) /\ WF_vars(Unlock(e))

-----------------------------------------------------------------------------
TypeOK ==
    /\ fn \in Funcs /\ reply \in [Idx -> SUBSET Items]
    /\ caller \in {"loop", "wait", "done"} /\ next \in 1..(N + 1)
    /\ wg \in 0..N /\ g \in [Idx -> {"none", "req", "lock", "unlock", "exit"}]
    /\ gok \in [Idx -> BOOLEAN] /\ owner \in Idx \cup {NoOwner}
    /\ {success, err} \subseteq BOOLEAN /\ IsABag(acc)
    /\ DOMAIN pver \subseteq Items /\ maxV \in {0} \cup Versions
    /\ outdated \subseteq Items

\* the endpoints whose request succeeded and whose reply was merged
Answered == {e \in Idx : g[e] \in {"unlock", "exit"} /\ gok[e]}

\* what the reply of a succeeded request contributes, by definition
Contribution(e) ==
    CASE fn \in {"lookupdTopics", "lookupdTopicChannels",
                  "lookupdTopicProducers", "nsqdTopics",
                  "lookupdProducers"} -> reply[e]
      [] fn = "nsqdTopicProducers" -> IF Topic \in reply[e] THEN {e} ELSE {}
      [] fn = "nsqdStats" -> {<<e, t>> : t \in {u \in reply[e] :
                                                sel \in {AllTopics, u}}}

Expected == UNION {Contribution(e) : e \in Answered}

(* The largest parsable version among the producers in the result; a       *)
(* producer with a parsable version is out of date exactly when it is       *)
(* older (unparsable ones take whatever maxVersion was when they came).     *)
NewestReported == Max({0} \cup {ver[p] : p \in {q \in DOMAIN pver : ver[q] # Unparsable}})

(* When a get* call returns, its result is exactly what the endpoints that *)
(* answered reported, each item once (twice or never is a wrong result),   *)
(* and it fails exactly when none answered: the WaitGroup made the caller  *)
(* wait for every goroutine's merge, and each merge saw the right reply.   *)
ResultIsMergeOfAnswers ==
    caller = "done" =>
        /\ err = (Answered = {})
        /\ fn # "lookupdProducers" => acc = SetToBag(Expected)
        /\ fn = "lookupdProducers" =>
              /\ DOMAIN pver = Expected
              /\ \A p \in DOMAIN pver :
                    ver[p] # Unparsable =>
                        (p \in outdated <=> ver[p] < NewestReported)

(* The call returns: no goroutine is left waiting for the mutex and the     *)
(* WaitGroup reaches zero, whatever the requests return.                    *)
Returns == <>(caller = "done")

=============================================================================
