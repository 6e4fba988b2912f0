---------------------------- MODULE LoopContract ----------------------------
(***************************************************************************)
(* What event_machine_run and event_machine_terminate promise to each      *)
(* other, without pipe, queue or batch: a run ends well only against a     *)
(* request to terminate, each request ends at most one run, a request that *)
(* nobody has honoured yet is kept across runs that fail, and a run that   *)
(* is asked to terminate does not go on for ever.                          *)
(***************************************************************************)
EXTENDS Naturals

VARIABLES
  status,   \* of the latest run: "ready" before the first
  requests  \* requests to terminate that have not ended a run yet

vars == <<status, requests>>

Init == status = "ready" /\ requests = 0

Begin == status # "running" /\ status' = "running" /\ UNCHANGED requests

Request == requests' = requests + 1 /\ UNCHANGED status

\* The run returns EM_SUCCESS.
Finish ==
  /\ status = "running" /\ requests > 0
  /\ status' = "finished"
  /\ requests' = requests - 1

\* The run returns an error.
Fail == status = "running" /\ status' = "failed" /\ UNCHANGED requests

Next == Begin \/ Request \/ Finish \/ Fail

SafeSpec == Init /\ [][Next]_vars

Spec == SafeSpec /\ WF_vars(Finish)

=============================================================================
