------------------------------ MODULE MCReader ------------------------------
(* Instantiates Reader for TLC: two nsqd connections so that map removal,  *)
(* the "last connection" rules and per-connection shares of max-in-flight  *)
(* all matter; in rd_faulty an async handler, logChan and the router hold *)
(* messages at once; two messages per connection so that a second message *)
(* can be on the wire while the first is handled; one heartbeat.           *)
EXTENDS Reader

MCMaxInFlight == 2
MCMaxMsgs == 2
MCMaxHeartbeats == 1
MCMaxAttemptCount == 2
\* a first delivery, and one past MaxAttemptCount (given up on failure)
MCAttempts == {1, 3}
=============================================================================
