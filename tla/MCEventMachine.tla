--------------------------- MODULE MCEventMachine ---------------------------
(* Instances of EventMachine for TLC: two file descriptors, the first with *)
(* two descriptor structures to be exchanged for one another.              *)
EXTENDS EventMachine, TLC

CONSTANTS f1, f2, a1, a2, b1

MCEdFd == a1 :> f1 @@ a2 :> f1 @@ b1 :> f2

=============================================================================
