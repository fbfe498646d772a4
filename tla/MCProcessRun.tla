---------------------------- MODULE MCProcessRun ----------------------------
(* Instances of ProcessRun: the ways to run a process, pipes of two lines.  *)
EXTENDS ProcessRun
=============================================================================
