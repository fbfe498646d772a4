------------------------- MODULE MCCommandDispatch -------------------------
(* Model checking of CommandDispatch: the constants are in the cfg files.  *)
EXTENDS CommandDispatch
============================================================================
