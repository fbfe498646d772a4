---------------------------- MODULE MCLogShipper ----------------------------
(* Model checking of LogShipper with two scanners and short batches.       *)
EXTENDS LogShipper

CONSTANTS out, err
=============================================================================
