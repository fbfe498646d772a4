----------------------------- MODULE MCWSClient -----------------------------
(* Instances of WSClient: the constants of the code in ticks of 10 seconds. A pong may *)
(* take a whole pingPeriod, so that two Sends before a ping are enough to make Delayed *)
(* true.                                                                               *)
EXTENDS WSClient

CONSTANTS f1, f2
=============================================================================
