-------------------------- MODULE EventMachineProofs --------------------------
(***************************************************************************)
(* Proofs about EventMachine, for any number of file descriptors,          *)
(* descriptors and events, any pipe capacity and any descriptor storage.   *)
(***************************************************************************)
EXTENDS EventMachine, SequenceTheorems, TLAPS

-----------------------------------------------------------------------------
(* What the helpers of the registration actions return.                    *)

Storage == [Fds -> Eds \cup {NULL}]
Owners  == [Eds -> {"nobody", "app", "em"}]

\* Inserting into the descriptor storage leaves a descriptor storage.
LEMMA InsertedType ==
  ASSUME NEW st \in Storage, NEW fd \in Fds, NEW ed \in Eds
  PROVE  Inserted(st, fd, ed) \in Storage
BY DEF Storage, Inserted

\* So does removing from it.
LEMMA RemovedType ==
  ASSUME stored \in Storage, NEW fd \in Fds
  PROVE  Removed(fd) \in Storage
BY DEF Storage, Removed

\* Taking descriptors back leaves every descriptor with an owner.
LEMMA OwnersType ==
  ASSUME owner \in Owners, NEW fd \in Fds
  PROVE  /\ Reclaim(fd) \in Owners
         /\ TakeBack(fd) \in Owners
         /\ \A ed \in Eds : Keep(ed) \in Owners
<1>1. Reclaim(fd) \in Owners
  BY DEF Owners, Reclaim
<1>2. TakeBack(fd) \in Owners
  BY <1>1 DEF Owners, TakeBack
<1>3. \A ed \in Eds : Keep(ed) \in Owners
  BY DEF Owners, Keep
<1>4. QED
  BY <1>1, <1>2, <1>3

-----------------------------------------------------------------------------
(* Type correctness, in two halves: what the application and the kernel    *)
(* work on, and what the loop works on.                                    *)

AppType ==
  /\ open \subseteq Fds
  /\ input \subseteq open
  /\ interest \in Storage
  /\ stored \in Storage
  /\ owner \in Owners

LoopType ==
  /\ pipe \in 0..PipeCapacity
  /\ loop \in Returned \cup Running \cup {"undefined"}
  /\ breakLoop \in BOOLEAN
  /\ events \in Seq(Eds \cup {BreakEd})
  /\ next \in Nat \ {0}
  /\ loop = "handler" => next <= Len(events) /\ events[next] \in Eds

\* The two halves make up the type invariant.
LEMMA TypeHalves == TypeOK <=> AppType /\ LoopType
BY DEF TypeOK, AppType, LoopType, Storage, Owners

\* A step that leaves the variables of one half alone preserves that half.
LEMMA AppTypeUnchanged == AppType /\ UNCHANGED appVars => AppType'
BY DEF AppType, appVars

LEMMA LoopTypeUnchanged == LoopType /\ UNCHANGED <<pipe, loopVars>> => LoopType'
BY DEF LoopType, loopVars

\* Add preserves the types.
LEMMA AddType ==
  ASSUME AppType, NEW ed \in Eds, Add(ed)
  PROVE  AppType'
<1> USE EventMachineAssumption DEF EventMachineAssumption
<1>1. EdFd[ed] \in Fds
  OBVIOUS
<1>2. open' = open /\ input' = input
  BY DEF Add
<1>3. interest' \in Storage
  BY <1>1 DEF Add, AppType, Storage
<1>4. stored' \in Storage
  BY <1>1, InsertedType DEF Add, AppType
<1>5. owner' \in Owners
  BY DEF Add, AppType, Keep, Owners
<1>6. QED
  BY <1>2, <1>3, <1>4, <1>5 DEF AppType

\* Delete preserves the types.
LEMMA DeleteType ==
  ASSUME AppType, NEW fd \in Fds, Delete(fd)
  PROVE  AppType'
<1>1. open' = open /\ input' = input
  BY DEF Delete
<1>2. interest' \in Storage
  BY DEF Delete, AppType, Storage
<1>3. stored' \in Storage
  BY RemovedType DEF Delete, AppType
<1>4. owner' \in Owners
  BY OwnersType DEF Delete, AppType
<1>5. QED
  BY <1>1, <1>2, <1>3, <1>4 DEF AppType

\* Modify preserves the types.
LEMMA ModifyType ==
  ASSUME AppType, NEW ed \in Eds, Modify(ed)
  PROVE  AppType'
<1> USE EventMachineAssumption DEF EventMachineAssumption
<1>1. EdFd[ed] \in Fds
  OBVIOUS
<1>2. open' = open /\ input' = input
  BY DEF Modify
<1>3. interest' \in Storage
  BY <1>1 DEF Modify, AppType, Storage
<1>4. stored' \in Storage
  <2>1. Removed(EdFd[ed]) \in Storage
    BY <1>1, RemovedType DEF AppType
  <2>2. Inserted(Removed(EdFd[ed]), EdFd[ed], ed) \in Storage
    BY <1>1, <2>1, InsertedType
  <2>3. QED
    BY <2>1, <2>2 DEF Modify, AppType
<1>5. owner' \in Owners
  <2>1. TakeBack(EdFd[ed]) \in Owners /\ Keep(ed) \in Owners
    BY <1>1, OwnersType DEF AppType
  <2>2. /\ [TakeBack(EdFd[ed]) EXCEPT ![ed] = "em"] \in Owners
        /\ [TakeBack(EdFd[ed]) EXCEPT ![ed] = "app"] \in Owners
    BY <2>1 DEF Owners
  <2>3. QED
    BY <2>1, <2>2 DEF Modify
<1>6. QED
  BY <1>2, <1>3, <1>4, <1>5 DEF AppType

\* A batch that event_wait returns is a sequence of descriptors.
LEMMA BatchType ==
  ASSUME AppType, NEW n \in 1..MaxEvents, NEW batch \in [1..n -> Ready]
  PROVE  batch \in Seq(Eds \cup {BreakEd}) /\ Len(batch) = n
<1> USE EventMachineAssumption DEF EventMachineAssumption
<1>1. Ready \subseteq Eds \cup {BreakEd}
  BY DEF Ready, BreakReady, AppType, Storage
<1>2. batch \in [1..n -> Eds \cup {BreakEd}]
  BY <1>1
<1>3. QED
  BY <1>2

\* The empty batch is one too.
LEMMA EmptyBatch ==
  /\ <<>> \in Seq(Eds \cup {BreakEd})
  /\ Len(<<>>) = 0
BY EmptySeq

\* Initially everything is well typed.
LEMMA InitTypeOK == Init => TypeOK
<1> USE EventMachineAssumption DEF EventMachineAssumption, Returned, Running
<1> SUFFICES ASSUME Init PROVE AppType /\ LoopType
  BY TypeHalves
<1>1. AppType
  BY DEF Init, AppType, Storage, Owners
<1>2. LoopType
  <2>1. events \in Seq(Eds \cup {BreakEd})
    BY EmptyBatch DEF Init
  <2>2. pipe = 0 /\ loop = "ready" /\ breakLoop \in BOOLEAN /\ next = 1
    BY DEF Init
  <2>3. QED
    BY <2>1, <2>2 DEF LoopType
<1>3. QED
  BY <1>1, <1>2

\* Every step preserves the types.
LEMMA NextTypeOK == TypeOK /\ [Next]_vars => TypeOK'
<1> USE EventMachineAssumption DEF EventMachineAssumption, Returned, Running
<1> SUFFICES ASSUME AppType, LoopType, [Next]_vars PROVE AppType' /\ LoopType'
  BY DEF TypeOK, AppType, LoopType, Storage, Owners
<1>1. CASE WaitReturns
  <2>1. PICK n \in 1..MaxEvents : events' \in [1..n -> Ready]
    BY <1>1 DEF WaitReturns
  <2>2. events' \in Seq(Eds \cup {BreakEd})
    BY <2>1, BatchType
  <2>3. LoopType'
    BY <1>1, <2>2 DEF WaitReturns, LoopType
  <2>4. AppType'
    BY <1>1 DEF WaitReturns, AppType
  <2>5. QED
    BY <2>3, <2>4
<1>2. CASE WaitFails
  BY <1>2, AppTypeUnchanged DEF WaitFails, LoopType
<1>3. CASE HandleBreak
  BY <1>3, AppTypeUnchanged DEF HandleBreak, AtEntry, LoopType
<1>4. CASE HandleBreakFails
  <2>1. events' \in Seq(Eds \cup {BreakEd})
    BY <1>4, EmptyBatch DEF HandleBreakFails, ForgetBatch
  <2>2. pipe' = pipe /\ loop' = "failed" /\ breakLoop' \in BOOLEAN /\ next' = 1
    BY <1>4 DEF HandleBreakFails, ForgetBatch
  <2>3. AppType'
    BY <1>4, AppTypeUnchanged DEF HandleBreakFails
  <2>4. QED
    BY <2>1, <2>2, <2>3 DEF LoopType
<1>5. ASSUME NEW ed \in Eds, CallHandler(ed) PROVE AppType' /\ LoopType'
  BY <1>5, AppTypeUnchanged DEF CallHandler, AtEntry, LoopType
<1>6. ASSUME NEW ed \in Eds, UseFreed(ed) PROVE AppType' /\ LoopType'
  BY <1>6, AppTypeUnchanged DEF UseFreed, LoopType
<1>7. CASE BatchDone
  <2>1. events' \in Seq(Eds \cup {BreakEd})
    BY <1>7, EmptyBatch DEF BatchDone, EndBatch, ForgetBatch
  <2>2. /\ pipe' = pipe /\ breakLoop' \in BOOLEAN /\ next' = 1
        /\ loop' \in {"finished", "wait"}
    BY <1>7 DEF BatchDone, EndBatch, ForgetBatch
  <2>3. AppType'
    BY <1>7, AppTypeUnchanged DEF BatchDone, EndBatch
  <2>4. QED
    BY <2>1, <2>2, <2>3 DEF LoopType
<1>8. CASE Start
  BY <1>8, AppTypeUnchanged DEF Start, LoopType
<1>9. CASE HandlerReturns
  BY <1>9, AppTypeUnchanged DEF HandlerReturns, LoopType
<1>10. CASE ReadInput
  BY <1>10, LoopTypeUnchanged DEF ReadInput, AppType
<1>11. ASSUME NEW fd \in Fds, OpenFd(fd) PROVE AppType' /\ LoopType'
  BY <1>11, LoopTypeUnchanged DEF OpenFd, AppType
<1>12. ASSUME NEW fd \in Fds, CloseFd(fd) PROVE AppType' /\ LoopType'
  <2>1. interest' \in Storage
    BY <1>12 DEF CloseFd, Close, AppType, Storage
  <2>2. QED
    BY <1>12, <2>1, OwnersType, LoopTypeUnchanged DEF CloseFd, Close, AppType
<1>13. ASSUME NEW fd \in Fds, Delete(fd) PROVE AppType' /\ LoopType'
  BY <1>13, DeleteType, LoopTypeUnchanged DEF Delete
<1>14. ASSUME NEW ed \in Eds, Add(ed) PROVE AppType' /\ LoopType'
  BY <1>14, AddType, LoopTypeUnchanged DEF Add
<1>15. ASSUME NEW ed \in Eds, Modify(ed) PROVE AppType' /\ LoopType'
  BY <1>15, ModifyType, LoopTypeUnchanged DEF Modify
<1>16. ASSUME NEW ed \in Eds, FreeEd(ed) PROVE AppType' /\ LoopType'
  BY <1>16, LoopTypeUnchanged DEF FreeEd, AppType, Owners, kernelVars
<1>17. CASE Terminate
  BY <1>17, AppTypeUnchanged DEF Terminate, LoopType, loopVars
<1>18. ASSUME NEW fd \in Fds, Arrive(fd) PROVE AppType' /\ LoopType'
  BY <1>18, LoopTypeUnchanged DEF Arrive, AppType
<1>19. CASE UNCHANGED vars
  BY <1>19, AppTypeUnchanged, LoopTypeUnchanged DEF vars, appVars, loopVars
<1>20. QED
  BY <1>1, <1>2, <1>3, <1>4, <1>5, <1>6, <1>7, <1>8, <1>9, <1>10, <1>11, <1>12,
     <1>13, <1>14, <1>15, <1>16, <1>17, <1>18, <1>19
     DEF Next, LoopStep, AppStep

\* Every reachable state of the machine is well typed.
THEOREM TypeCorrect == Spec => []TypeOK
BY InitTypeOK, NextTypeOK, PTL DEF Spec

-----------------------------------------------------------------------------
(* The two books, however the descriptor storage fails.                    *)

\* What is registered or owned stays so, and so does its entry.
LEMMA StaysStored ==
  ASSUME HandedOverIsStored, UNCHANGED stored,
         \A ed \in Eds : owner'[ed] = "em" => owner[ed] = "em",
         \A fd \in Fds : interest'[fd] = interest[fd] \/ interest'[fd] = NULL
  PROVE  HandedOverIsStored'
BY EventMachineAssumption DEF EventMachineAssumption, HandedOverIsStored

\* Taking descriptors back hands none over.
LEMMA TakingBack ==
  ASSUME NEW fd \in Fds, NEW ed \in Eds
  PROVE  /\ Reclaim(fd)[ed] = "em" => owner[ed] = "em"
         /\ TakeBack(fd)[ed] = "em" => owner[ed] = "em"
BY DEF Reclaim, TakeBack

\* event_machine_add.
LEMMA AddIsStored ==
  ASSUME TypeOK, HandedOverIsStored, NEW ed \in Eds, Add(ed)
  PROVE  HandedOverIsStored'
<1> USE EventMachineAssumption DEF EventMachineAssumption
<1>1. CASE owner' = Keep(ed) /\ UNCHANGED stored
  <2>1. \A k \in Eds : owner'[k] = "em" => owner[k] = "em" /\ k # ed
    BY <1>1 DEF Keep, TypeOK
  <2>2. \A fd \in Fds : interest'[fd] = interest[fd] \/ interest'[fd] = ed
    BY DEF Add, TypeOK
  <2>3. QED
    BY <1>1, <2>1, <2>2 DEF HandedOverIsStored
<1>2. CASE /\ owner' = [owner EXCEPT ![ed] = "em"]
           /\ interest' = [interest EXCEPT ![EdFd[ed]] = ed]
           /\ stored' = Inserted(stored, EdFd[ed], ed)
  BY <1>2 DEF HandedOverIsStored, Inserted, TypeOK
<1>3. QED
  BY <1>1, <1>2 DEF Add

\* event_machine_delete: what was registered for fd is registered no more.
LEMMA DeleteIsStored ==
  ASSUME TypeOK, HandedOverIsStored, NEW fd \in Fds, Delete(fd)
  PROVE  HandedOverIsStored'
<1> USE EventMachineAssumption DEF EventMachineAssumption
<1>1. \A ed \in Eds : owner'[ed] = "em" => owner[ed] = "em"
  BY TakingBack DEF Delete
<1>2. \A k \in Fds \ {fd} : interest'[k] = interest[k] /\ stored'[k] = stored[k]
  BY DEF Delete, Removed, TypeOK
<1>3. interest'[fd] = NULL
  BY DEF Delete, TypeOK
<1>4. QED
  BY <1>1, <1>2, <1>3 DEF HandedOverIsStored

\* event_machine_modify: what was registered for fd is registered no more, and
\* only a call that ends well hands ed over.
LEMMA ModifyIsStored ==
  ASSUME TypeOK, HandedOverIsStored, NEW ed \in Eds, Modify(ed)
  PROVE  HandedOverIsStored'
<1> USE EventMachineAssumption DEF EventMachineAssumption
<1> DEFINE fd == EdFd[ed]
           KeepBoth == [TakeBack(fd) EXCEPT ![ed] = "app"]
<1>0. TakeBack(fd) \in Owners /\ DOMAIN owner = Eds
  BY OwnersType DEF TypeOK, Owners
<1>1. CASE owner' = Keep(ed) /\ UNCHANGED <<interest, stored>>
  <2>1. \A k \in Eds : owner'[k] = "em" => owner[k] = "em"
    BY <1>1 DEF Keep, TypeOK
  <2>2. QED
    BY <1>1, <2>1, StaysStored
<1>2. CASE interest' = [interest EXCEPT ![fd] = ed] /\ owner' \in {Keep(ed), KeepBoth}
  <2>1. \A k \in Eds : owner'[k] = "em" => owner[k] = "em" /\ k # ed
    BY <1>0, <1>2, TakingBack DEF Keep, Owners
  <2>2. \A k \in Fds \ {fd} : interest'[k] = interest[k] /\ stored'[k] = stored[k]
    BY <1>2 DEF Modify, Inserted, Removed, TypeOK
  <2>3. interest'[fd] = ed
    BY <1>2 DEF TypeOK
  <2>4. QED
    BY <2>1, <2>2, <2>3 DEF HandedOverIsStored
<1>3. CASE /\ interest' = [interest EXCEPT ![fd] = ed]
           /\ stored' = Inserted(Removed(fd), fd, ed)
           /\ owner' = [TakeBack(fd) EXCEPT ![ed] = "em"]
  <2>1. \A k \in Eds \ {ed} : owner'[k] = "em" => owner[k] = "em"
    BY <1>0, <1>3, TakingBack DEF Owners
  <2>2. \A k \in Fds \ {fd} : interest'[k] = interest[k] /\ stored'[k] = stored[k]
    BY <1>3 DEF Inserted, Removed, TypeOK
  <2>3. interest'[fd] = ed /\ (HasInsert => stored'[fd] = ed)
    BY <1>3 DEF Inserted, Removed, TypeOK
  <2>4. QED
    BY <2>1, <2>2, <2>3 DEF HandedOverIsStored
<1>4. QED
  BY <1>1, <1>2, <1>3 DEF Modify

\* What event_machine_add or _modify has reported as a success is in the storage
\* as well as in the queue, for epoll and kqueue, whatever the application does
\* and however the storage fails.
THEOREM SuccessIsStored == Spec => []HandedOverIsStored
<1>1. Init => HandedOverIsStored
  BY DEF Init, HandedOverIsStored
<1>2. TypeOK /\ HandedOverIsStored /\ [Next]_vars => HandedOverIsStored'
  <2> SUFFICES ASSUME TypeOK, HandedOverIsStored, [Next]_vars PROVE HandedOverIsStored'
    OBVIOUS
  <2>1. ASSUME UNCHANGED <<interest, stored, owner>> PROVE HandedOverIsStored'
    BY <2>1 DEF HandedOverIsStored
  <2>2. CASE LoopStep \/ Terminate \/ (\E fd \in Fds : Arrive(fd)) \/ UNCHANGED vars
    BY <2>1, <2>2 DEF LoopStep, WaitReturns, WaitFails, HandleBreak, HandleBreakFails,
       CallHandler, UseFreed, BatchDone, EndBatch, Terminate, Arrive, vars, appVars
  <2>3. CASE Start \/ HandlerReturns \/ ReadInput \/ (\E fd \in Fds : OpenFd(fd))
    BY <2>1, <2>3 DEF Start, HandlerReturns, ReadInput, OpenFd, appVars
  <2>4. ASSUME NEW fd \in Fds, CloseFd(fd) PROVE HandedOverIsStored'
    <3>1. \A ed \in Eds : owner'[ed] = "em" => owner[ed] = "em"
      BY <2>4, TakingBack DEF CloseFd, Close
    <3>2. \A k \in Fds : interest'[k] = interest[k] \/ interest'[k] = NULL
      BY <2>4 DEF CloseFd, Close, TypeOK
    <3>3. UNCHANGED stored
      BY <2>4 DEF CloseFd, Close
    <3>4. QED
      BY <3>1, <3>2, <3>3, StaysStored
  <2>5. ASSUME NEW ed \in Eds, FreeEd(ed) PROVE HandedOverIsStored'
    BY <2>5 DEF FreeEd, kernelVars, HandedOverIsStored, TypeOK
  <2>6. QED
    BY <2>2, <2>3, <2>4, <2>5, AddIsStored, DeleteIsStored, ModifyIsStored
       DEF Next, AppStep
<1>3. QED
  BY <1>1, <1>2, TypeCorrect, PTL DEF Spec

=============================================================================
