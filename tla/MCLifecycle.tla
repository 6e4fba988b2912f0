---------------------------- MODULE MCLifecycle ----------------------------
(* Instances of Lifecycle for TLC: two machines, so that the descriptors   *)
(* one loses can be the ones the other is given.                           *)
EXTENDS Lifecycle

CONSTANTS m1, m2

=============================================================================
