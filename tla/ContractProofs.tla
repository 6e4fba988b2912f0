---------------------------- MODULE ContractProofs ----------------------------
(***************************************************************************)
(* Proof that the machine implements the safety part of LoopContract,      *)
(* whatever the application and the descriptor storage do.                 *)
(***************************************************************************)
EXTENDS EventMachineProofs

\* A batch has at most one entry of the break loop pipe, and break_loop is set
\* only behind that entry, by the run the batch belongs to.
BreakInv ==
  /\ \A i, j \in 1..Len(events) :
       events[i] = BreakEd /\ events[j] = BreakEd => i = j
  /\ breakLoop =>
       /\ loop \in {"dispatch", "handler", "undefined"}
       /\ \E j \in 1..Len(events) : j < next /\ events[j] = BreakEd

\* Initially break_loop is not set.
LEMMA BreakInit == Init => BreakInv
<1> SUFFICES ASSUME Init PROVE BreakInv
  OBVIOUS
<1>1. Len(events) = 0 /\ ~breakLoop
  BY EmptyBatch DEF Init
<1>2. 1..Len(events) = {}
  BY <1>1
<1>3. QED
  BY <1>1, <1>2 DEF BreakInv

\* A step that goes on in the same batch preserves the invariant.
LEMMA BreakGoesOn ==
  ASSUME LoopType, BreakInv, UNCHANGED <<breakLoop, events>>,
         next' \in {next, next + 1},
         loop' = loop \/ ~breakLoop \/ loop' \in {"dispatch", "handler", "undefined"}
  PROVE  BreakInv'
BY DEF BreakInv, LoopType

\* A step that ends the batch does too.
LEMMA BreakEnds ==
  ASSUME ForgetBatch, breakLoop' = FALSE
  PROVE  BreakInv'
<1>1. Len(events') = 0
  BY EmptyBatch DEF ForgetBatch
<1>2. 1..Len(events') = {}
  BY <1>1
<1>3. QED
  BY <1>2 DEF BreakInv

\* Every step preserves the invariant.
LEMMA BreakStep ==
  ASSUME AppType, LoopType, BreakInv, [Next]_vars
  PROVE  BreakInv'
<1> USE EventMachineAssumption DEF EventMachineAssumption
<1>1. CASE UNCHANGED loopVars
  BY <1>1, BreakGoesOn DEF loopVars
<1>2. CASE WaitReturns
  <2>1. PICK n \in 1..MaxEvents :
          /\ events' \in [1..n -> Ready]
          /\ \A i, j \in 1..n : events'[i] = events'[j] => i = j
    BY <1>2 DEF WaitReturns
  <2>2. Len(events') = n
    BY <2>1, BatchType
  <2>3. ~breakLoop'
    BY <1>2 DEF WaitReturns, BreakInv
  <2>4. QED
    BY <2>1, <2>2, <2>3 DEF BreakInv
<1>3. CASE HandleBreak
  <2>1. next \in 1..Len(events) /\ events[next] = BreakEd
    BY <1>3 DEF HandleBreak, AtEntry, LoopType
  <2>2. events' = events /\ loop' = "dispatch" /\ next < next'
    BY <1>3 DEF HandleBreak, AtEntry, LoopType
  <2>3. QED
    BY <2>1, <2>2 DEF BreakInv
<1>4. CASE HandleBreakFails \/ BatchDone
  BY <1>4, BreakEnds DEF HandleBreakFails, BatchDone, EndBatch
<1>5. CASE WaitFails \/ Start
  BY <1>5, BreakGoesOn DEF WaitFails, Start, Returned, BreakInv
<1>6. ASSUME NEW ed \in Eds, CallHandler(ed) \/ UseFreed(ed) PROVE BreakInv'
  BY <1>6, BreakGoesOn DEF CallHandler, UseFreed
<1>7. CASE HandlerReturns
  BY <1>7, BreakGoesOn DEF HandlerReturns
<1>8. CASE ReadInput \/ Terminate \/ UNCHANGED vars
  BY <1>1, <1>8 DEF ReadInput, Terminate, vars, loopVars
<1>9. ASSUME NEW fd \in Fds,
             OpenFd(fd) \/ CloseFd(fd) \/ Delete(fd) \/ Arrive(fd)
      PROVE  BreakInv'
  BY <1>1, <1>9 DEF OpenFd, CloseFd, Close, Delete, Arrive, loopVars
<1>10. ASSUME NEW ed \in Eds, Add(ed) \/ Modify(ed) \/ FreeEd(ed) PROVE BreakInv'
  BY <1>1, <1>10 DEF Add, Modify, FreeEd, loopVars
<1>11. QED
  BY <1>2, <1>3, <1>4, <1>5, <1>6, <1>7, <1>8, <1>9, <1>10
     DEF Next, LoopStep, AppStep

\* What the contract sees of a state.
Status == IF loop \in Running THEN "running"
          ELSE IF loop = "undefined" THEN "failed" ELSE loop
Requests == pipe + (IF breakLoop THEN 1 ELSE 0)

\* A step that changes nothing the contract sees.
LEMMA Stutters ==
  ASSUME pipe' = pipe, breakLoop' = breakLoop, Status' = Status
  PROVE  [Contract!Next]_(Contract!vars)
BY DEF Status, Contract!vars

\* Every step of the machine is one of the contract, or shows nothing.
LEMMA StepRefines ==
  ASSUME LoopType, BreakInv, [Next]_vars
  PROVE  [Contract!Next]_(Contract!vars)
<1> USE DEF Status
<1>0. pipe \in Nat
  BY EventMachineAssumption DEF EventMachineAssumption, LoopType
<1>1. CASE UNCHANGED <<pipe, loopVars>>
  BY <1>1, Stutters DEF loopVars
<1>2. CASE WaitReturns
  BY <1>2, Stutters DEF WaitReturns, Running
<1>3. CASE WaitFails
  <2>1. Status = "running" /\ Status' = "failed"
    BY <1>3 DEF WaitFails, Running
  <2>2. pipe' = pipe /\ breakLoop' = breakLoop
    BY <1>3 DEF WaitFails
  <2>3. QED
    BY <2>1, <2>2 DEF Contract!Next, Contract!Fail
<1>4. CASE HandleBreak
  <2>1. ~breakLoop
    BY <1>4 DEF HandleBreak, AtEntry, LoopType, BreakInv
  <2>2. pipe' = pipe - 1 /\ breakLoop' /\ Status' = Status
    BY <1>4 DEF HandleBreak, AtEntry
  <2>3. pipe' + (IF breakLoop' THEN 1 ELSE 0) = pipe + (IF breakLoop THEN 1 ELSE 0)
    BY <1>0, <2>1, <2>2
  <2>4. QED
    BY <2>2, <2>3 DEF Contract!vars
<1>5. CASE HandleBreakFails
  <2>1. ~breakLoop /\ ~breakLoop'
    BY <1>5 DEF HandleBreakFails, AtEntry, LoopType, BreakInv
  <2>2. Status = "running" /\ Status' = "failed" /\ pipe' = pipe
    BY <1>5 DEF HandleBreakFails, AtEntry, Running
  <2>3. QED
    BY <2>1, <2>2 DEF Contract!Next, Contract!Fail
<1>6. ASSUME NEW ed \in Eds, CallHandler(ed) PROVE [Contract!Next]_(Contract!vars)
  BY <1>6, Stutters DEF CallHandler, AtEntry, Running
<1>7. ASSUME NEW ed \in Eds, UseFreed(ed) PROVE [Contract!Next]_(Contract!vars)
  <2>1. Status = "running" /\ Status' = "failed"
    BY <1>7 DEF UseFreed, AtEntry, Running
  <2>2. pipe' = pipe /\ breakLoop' = breakLoop
    BY <1>7 DEF UseFreed
  <2>3. QED
    BY <2>1, <2>2 DEF Contract!Next, Contract!Fail
<1>8. CASE BatchDone /\ breakLoop
  <2>1. Status = "running" /\ Status' = "finished" /\ pipe' = pipe
    BY <1>8 DEF BatchDone, EndBatch, Running
  <2>2. breakLoop /\ ~breakLoop'
    BY <1>8 DEF BatchDone, EndBatch
  <2>3. Requests > 0 /\ Requests' = Requests - 1
    BY <1>0, <2>1, <2>2 DEF Requests
  <2>4. QED
    BY <2>1, <2>3 DEF Contract!Next, Contract!Finish, Requests
<1>9. CASE BatchDone /\ ~breakLoop
  <2>1. Status' = Status /\ pipe' = pipe
    BY <1>9 DEF BatchDone, EndBatch, Running
  <2>2. Requests' = Requests
    BY <1>9, <2>1 DEF BatchDone, EndBatch, Requests
  <2>3. QED
    BY <2>1, <2>2 DEF Contract!vars, Requests
<1>10. CASE Start
  <2>1. Status # "running" /\ Status' = "running"
    BY <1>10 DEF Start, Returned, Running
  <2>2. pipe' = pipe /\ breakLoop' = breakLoop
    BY <1>10 DEF Start
  <2>3. QED
    BY <2>1, <2>2 DEF Contract!Next, Contract!Begin
<1>11. CASE HandlerReturns
  BY <1>11, Stutters DEF HandlerReturns, Running
<1>12. CASE Terminate
  <2>1. Status' = Status /\ breakLoop' = breakLoop
    BY <1>12 DEF Terminate, loopVars
  <2>2. CASE pipe' = pipe
    BY <2>1, <2>2, Stutters
  <2>3. CASE pipe' = pipe + 1
    <3>1. Requests' = Requests + 1
      BY <1>0, <2>1, <2>3 DEF Requests
    <3>2. QED
      BY <2>1, <3>1 DEF Contract!Next, Contract!Request, Requests
  <2>4. QED
    BY <1>12, <2>2, <2>3 DEF Terminate
<1>13. CASE ReadInput \/ UNCHANGED vars
  BY <1>1, <1>13 DEF ReadInput, vars, loopVars
<1>14. ASSUME NEW fd \in Fds,
              OpenFd(fd) \/ CloseFd(fd) \/ Delete(fd) \/ Arrive(fd)
       PROVE  [Contract!Next]_(Contract!vars)
  BY <1>1, <1>14 DEF OpenFd, CloseFd, Close, Delete, Arrive, loopVars
<1>15. ASSUME NEW ed \in Eds, Add(ed) \/ Modify(ed) \/ FreeEd(ed)
       PROVE  [Contract!Next]_(Contract!vars)
  BY <1>1, <1>15 DEF Add, Modify, FreeEd, kernelVars, loopVars
<1>16. QED
  BY <1>2, <1>3, <1>4, <1>5, <1>6, <1>7, <1>8, <1>9, <1>10, <1>11, <1>12, <1>13,
     <1>14, <1>15 DEF Next, LoopStep, AppStep

\* No request is pending before the first call.
LEMMA InitRefines == Init => Contract!Init
BY DEF Init, Contract!Init, Running

\* A run ends with EM_SUCCESS only against a byte of event_machine_terminate,
\* every byte ends at most one run, and a run that fails consumes none.
THEOREM ContractIsKept == Spec => KeepsContract
<1>1. Spec => []BreakInv
  <2>1. TypeOK /\ BreakInv /\ [Next]_vars => BreakInv'
    BY BreakStep, TypeHalves
  <2>2. QED
    BY <2>1, BreakInit, TypeCorrect, PTL DEF Spec
<1>2. TypeOK /\ BreakInv /\ [Next]_vars => [Contract!Next]_(Contract!vars)
  BY StepRefines, TypeHalves
<1>3. QED
  BY <1>1, <1>2, InitRefines, TypeCorrect, PTL
     DEF Spec, KeepsContract, Contract!SafeSpec

=============================================================================
