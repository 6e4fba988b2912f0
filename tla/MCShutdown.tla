---------------------------- MODULE MCShutdown ----------------------------
(* An instance of Shutdown for TLC: two runs that share em->events and two *)
(* requests, while the machine is destroyed.                               *)
EXTENDS Shutdown

CONSTANTS r1, r2, t1, t2

=============================================================================
