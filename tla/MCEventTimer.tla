---------------------------- MODULE MCEventTimer ----------------------------
(* Instances of EventTimer for TLC.  Timers are interchangeable.           *)
EXTENDS EventTimer, TLC

CONSTANTS t1, t2, t3

TimerSymmetry == Permutations(Timers)

=============================================================================
