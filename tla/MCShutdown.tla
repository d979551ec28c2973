---------------------------- MODULE MCShutdown ----------------------------
(* One device that goes and comes back, and the threads spawned for it.      *)
EXTENDS Shutdown
=============================================================================
