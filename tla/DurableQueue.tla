---------------------------- MODULE DurableQueue ----------------------------
(***************************************************************************)
(* What a BackendQueue promises its users (src/nsqd/diskqueue.go seen from *)
(* outside): Put appends to a FIFO, the consumer of ReadChan() takes the   *)
(* oldest message, Empty() drops everything pending, Close() stops         *)
(* accepting Put and Empty until the queue is opened again.  Closing does  *)
(* not drop anything: a reopened queue still holds what was pending.       *)
(***************************************************************************)
EXTENDS Sequences

CONSTANT Msgs          \* the messages a Put may carry

VARIABLES
    queue,             \* pending messages, oldest first
    out,               \* messages handed to the consumer, in order
    accepting          \* Put and Empty are accepted (exitFlag = 0)

vars == <<queue, out, accepting>>

Init == queue = <<>> /\ out = <<>> /\ accepting = TRUE

Put(m) ==
    /\ accepting
    /\ queue' = Append(queue, m)
    /\ UNCHANGED <<out, accepting>>

\* the consumer receives the oldest pending message
Get ==
    /\ queue # <<>>
    /\ out' = Append(out, Head(queue))
    /\ queue' = Tail(queue)
    /\ UNCHANGED accepting

Empty ==
    /\ accepting
    /\ queue' = <<>>
    /\ UNCHANGED <<out, accepting>>

Close ==
    /\ accepting
    /\ accepting' = FALSE
    /\ UNCHANGED <<queue, out>>

Open ==
    /\ ~accepting
    /\ accepting' = TRUE
    /\ UNCHANGED <<queue, out>>

Next == (\E m \in Msgs : Put(m)) \/ Get \/ Empty \/ Close \/ Open

(* A pending message is eventually handed out: the consumer keeps reading. *)
Spec == Init /\ [][Next]_vars /\ WF_vars(Get)

=============================================================================
