---------------------------- MODULE DispatchProofs ----------------------------
(***************************************************************************)
(* Proofs that event_machine_add, _delete and _modify keep application,    *)
(* kernel and descriptor storage in agreement, as long as the storage      *)
(* fails only by reporting what it holds or does not hold, no file         *)
(* descriptor is closed while it is registered, and the queue is epoll's;  *)
(* and, resting on that, that event_machine_run_once follows no stale      *)
(* pointer of its batch, as long as a handler deletes, modifies and closes *)
(* no file descriptor that the batch still has an entry for; in particular *)
(* if it keeps to the file descriptor it was called for.                   *)
(***************************************************************************)
EXTENDS EventMachineProofs

-----------------------------------------------------------------------------
(* Registration.                                                           *)

\* The application may do anything to any file descriptor in a handler.
StorageWorks == Liberties \subseteq {"touch_peer"} /\ ~Kqueue

\* What epoll holds is a descriptor of that very, open, file descriptor.
Registered ==
  \A fd \in Fds :
    interest[fd] # NULL => fd \in open /\ EdFd[interest[fd]] = fd

RegistrationInv ==
  /\ Registered
  /\ OwnershipExact
  /\ StorageAgrees

\* Taking back what the storage hands out is taking back what was handed over.
LEMMA TakeBackIsReclaim ==
  ASSUME AppType, RegistrationInv, NEW fd \in Fds
  PROVE  TakeBack(fd) = Reclaim(fd)
<1> USE EventMachineAssumption DEF EventMachineAssumption
<1>1. CASE ~HasRemove
  BY <1>1 DEF TakeBack
<1>2. CASE HasRemove
  <2>1. stored[fd] = interest[fd]
    BY <1>2 DEF RegistrationInv, StorageAgrees
  <2>2. \A ed \in Eds : owner[ed] = "em" => (ed = stored[fd] <=> EdFd[ed] = fd)
    BY <2>1 DEF RegistrationInv, Registered, OwnershipExact
  <2>3. QED
    BY <1>2, <2>2 DEF TakeBack, Reclaim
<1>3. QED
  BY <1>1, <1>2

\* event_machine_add: the storage cannot object to what epoll has accepted.
LEMMA AddRegistration ==
  ASSUME StorageWorks, AppType, RegistrationInv, NEW ed \in Eds, Add(ed)
  PROVE  RegistrationInv'
<1> USE EventMachineAssumption DEF EventMachineAssumption
<1> DEFINE fd == EdFd[ed]
<1>1. fd \in Fds /\ ed # NULL /\ owner[ed] # "em" /\ open' = open
  BY DEF Add
<1>2. CASE owner' = Keep(ed) /\ UNCHANGED <<interest, stored>>
  <2>1. Registered' /\ StorageAgrees'
    BY <1>1, <1>2 DEF RegistrationInv, Registered, StorageAgrees
  <2>2. OwnershipExact'
    BY <1>1, <1>2 DEF RegistrationInv, OwnershipExact, Keep, AppType, Owners
  <2>3. QED
    BY <2>1, <2>2 DEF RegistrationInv
<1>3. CASE CtlApplies("EVENT_ADD", fd) /\ interest' = [interest EXCEPT ![fd] = ed]
           /\ owner' = [owner EXCEPT ![ed] = "em"]
           /\ stored' = Inserted(stored, fd, ed)
  <2>1. fd \in open /\ interest[fd] = NULL
    BY <1>3 DEF CtlApplies, StorageWorks
  <2>2. Registered'
    BY <1>1, <1>3, <2>1 DEF RegistrationInv, Registered, AppType, Storage
  <2>3. OwnershipExact'
    BY <1>1, <1>3, <2>1
       DEF RegistrationInv, OwnershipExact, AppType, Storage, Owners
  <2>4. StorageAgrees'
    BY <1>3 DEF RegistrationInv, StorageAgrees, Inserted
  <2>5. QED
    BY <2>2, <2>3, <2>4 DEF RegistrationInv
<1>4. CASE CtlApplies("EVENT_ADD", fd) /\ InsertMayFail(stored, fd)
  <2>1. HasRemove /\ stored[fd] # NULL
    BY <1>4 DEF InsertMayFail, InsertDuplicate, StorageWorks
  <2>2. interest[fd] = NULL
    BY <1>4 DEF CtlApplies, StorageWorks
  <2>3. QED
    BY <2>1, <2>2 DEF RegistrationInv, StorageAgrees
<1>5. QED
  BY <1>2, <1>3, <1>4 DEF Add

\* event_machine_delete: what epoll held, the storage held too.
LEMMA DeleteRegistration ==
  ASSUME StorageWorks, AppType, RegistrationInv, NEW fd \in Fds, Delete(fd)
  PROVE  RegistrationInv'
<1> USE EventMachineAssumption DEF EventMachineAssumption
<1>1. /\ interest[fd] # NULL
      /\ interest' = [interest EXCEPT ![fd] = NULL]
      /\ open' = open
  BY DEF Delete, CtlApplies, StorageWorks
<1>2. ~RemoveMayFail(fd)
  BY <1>1 DEF RemoveMayFail, StorageWorks, RegistrationInv, StorageAgrees
<1>3. stored' = Removed(fd) /\ owner' = Reclaim(fd)
  BY <1>2, TakeBackIsReclaim DEF Delete
<1>4. Registered'
  BY <1>1 DEF RegistrationInv, Registered, AppType, Storage
<1>5. OwnershipExact'
  BY <1>1, <1>3
     DEF RegistrationInv, OwnershipExact, Reclaim, AppType, Storage, Owners
<1>6. StorageAgrees'
  BY <1>1, <1>3 DEF RegistrationInv, StorageAgrees, Removed
<1>7. QED
  BY <1>4, <1>5, <1>6 DEF RegistrationInv

\* event_machine_modify: remove makes room for what insert brings.
LEMMA ModifyRegistration ==
  ASSUME StorageWorks, AppType, RegistrationInv, NEW ed \in Eds, Modify(ed)
  PROVE  RegistrationInv'
<1> USE EventMachineAssumption DEF EventMachineAssumption
<1> DEFINE fd == EdFd[ed]
<1>1. fd \in Fds /\ ed # NULL /\ owner[ed] # "em" /\ open' = open
  BY DEF Modify
<1>2. CASE owner' = Keep(ed) /\ UNCHANGED <<interest, stored>>
  <2>1. Registered' /\ StorageAgrees'
    BY <1>1, <1>2 DEF RegistrationInv, Registered, StorageAgrees
  <2>2. OwnershipExact'
    BY <1>1, <1>2 DEF RegistrationInv, OwnershipExact, Keep, AppType, Owners
  <2>3. QED
    BY <2>1, <2>2 DEF RegistrationInv
<1>3. CASE /\ CtlApplies("EVENT_MODIFY", fd)
           /\ interest' = [interest EXCEPT ![fd] = ed]
           /\ stored' = Inserted(Removed(fd), fd, ed)
           /\ owner' = [TakeBack(fd) EXCEPT ![ed] = "em"]
  <2>1. fd \in open /\ interest[fd] # NULL
    BY <1>3 DEF CtlApplies, StorageWorks
  <2>2. owner' = [Reclaim(fd) EXCEPT ![ed] = "em"]
    BY <1>1, <1>3, TakeBackIsReclaim
  <2>3. Registered'
    BY <1>1, <1>3, <2>1 DEF RegistrationInv, Registered, AppType, Storage
  <2>4. OwnershipExact'
    BY <1>1, <1>3, <2>2
       DEF RegistrationInv, OwnershipExact, Reclaim, AppType, Storage, Owners
  <2>5. StorageAgrees'
    BY <1>1, <1>3
       DEF RegistrationInv, StorageAgrees, Inserted, Removed, AppType, Storage
  <2>6. QED
    BY <2>3, <2>4, <2>5 DEF RegistrationInv
<1>4. CASE CtlApplies("EVENT_MODIFY", fd) /\ RemoveMayFail(fd)
  BY <1>4
     DEF CtlApplies, RemoveMayFail, StorageWorks, RegistrationInv, StorageAgrees
<1>5. CASE InsertMayFail(Removed(fd), fd)
  <2>1. HasRemove => Removed(fd)[fd] = NULL
    BY <1>1 DEF Removed, AppType, Storage
  <2>2. QED
    BY <1>5, <2>1 DEF InsertMayFail, InsertDuplicate, StorageWorks
<1>6. QED
  BY <1>2, <1>3, <1>4, <1>5 DEF Modify

\* A file descriptor that is closed was not registered, nor handed over.
LEMMA CloseRegistration ==
  ASSUME StorageWorks, AppType, RegistrationInv, NEW fd \in Fds, CloseFd(fd)
  PROVE  RegistrationInv'
<1> USE EventMachineAssumption DEF EventMachineAssumption
<1>1. interest[fd] = NULL
  BY DEF CloseFd, StorageWorks
<1>2. interest' = interest
  BY <1>1 DEF CloseFd, Close, AppType, Storage
<1>3. owner' = owner
  <2>1. \A ed \in Eds : ~(EdFd[ed] = fd /\ owner[ed] = "em")
    BY <1>1 DEF RegistrationInv, OwnershipExact
  <2>2. QED
    BY <2>1 DEF CloseFd, Close, Reclaim, AppType, Owners
<1>4. stored' = stored /\ open' = open \ {fd}
  BY DEF CloseFd, Close
<1>5. QED
  BY <1>1, <1>2, <1>3, <1>4
     DEF RegistrationInv, Registered, OwnershipExact, StorageAgrees

\* A step that does not register, own or close anything preserves the rest.
LEMMA RegistrationUnchanged ==
  ASSUME RegistrationInv, UNCHANGED <<interest, stored, owner>>, open \subseteq open'
  PROVE  RegistrationInv'
BY DEF RegistrationInv, Registered, OwnershipExact, StorageAgrees

\* Every step preserves the agreement.
LEMMA RegistrationStep ==
  ASSUME StorageWorks, AppType, RegistrationInv, [Next]_vars
  PROVE  RegistrationInv'
<1>1. CASE UNCHANGED appVars
  BY <1>1, RegistrationUnchanged DEF appVars
<1>2. CASE LoopStep
  <2>1. CASE WaitReturns
    BY <2>1, RegistrationUnchanged DEF WaitReturns
  <2>2. QED
    BY <1>1, <1>2, <2>1 DEF LoopStep, WaitFails, HandleBreak,
       HandleBreakFails, CallHandler, UseFreed, BatchDone, EndBatch
<1>3. CASE Start \/ HandlerReturns \/ Terminate
  BY <1>1, <1>3 DEF Start, HandlerReturns, Terminate
<1>4. CASE ReadInput
  BY <1>4, RegistrationUnchanged DEF ReadInput
<1>5. ASSUME NEW fd \in Fds, OpenFd(fd) PROVE RegistrationInv'
  BY <1>5, RegistrationUnchanged DEF OpenFd
<1>6. ASSUME NEW fd \in Fds, Arrive(fd) PROVE RegistrationInv'
  BY <1>6, RegistrationUnchanged DEF Arrive
<1>7. ASSUME NEW ed \in Eds, FreeEd(ed) PROVE RegistrationInv'
  BY <1>7 DEF FreeEd, kernelVars, RegistrationInv, Registered, OwnershipExact,
     StorageAgrees, AppType, Owners
<1>8. QED
  BY <1>1, <1>2, <1>3, <1>4, <1>5, <1>6, <1>7, AddRegistration,
     DeleteRegistration, ModifyRegistration, CloseRegistration
     DEF Next, AppStep, vars, appVars

\* Initially nothing is registered.
LEMMA RegistrationInit == Init => RegistrationInv
BY EventMachineAssumption DEF EventMachineAssumption, Init, RegistrationInv,
   Registered, OwnershipExact, StorageAgrees

\* The inductive invariant of registration, with the types it rests on.
THEOREM RegistrationCorrect ==
  ASSUME StorageWorks
  PROVE  Spec => []RegistrationInv
<1>1. TypeOK /\ RegistrationInv /\ [Next]_vars => RegistrationInv'
  BY RegistrationStep, TypeHalves
<1>2. QED
  BY <1>1, RegistrationInit, TypeCorrect, PTL DEF Spec

\* A descriptor is registered with epoll exactly while it is handed over: no
\* add, delete or modify loses a descriptor or leaves one behind.
THEOREM OwnershipIsExact ==
  ASSUME StorageWorks
  PROVE  Spec => []OwnershipExact
<1>1. RegistrationInv => OwnershipExact
  BY DEF RegistrationInv
<1>2. QED
  BY <1>1, RegistrationCorrect, PTL

\* A storage that can remove holds exactly what epoll holds.
THEOREM StorageIsExact ==
  ASSUME StorageWorks
  PROVE  Spec => []StorageAgrees
<1>1. RegistrationInv => StorageAgrees
  BY DEF RegistrationInv
<1>2. QED
  BY <1>1, RegistrationCorrect, PTL

-----------------------------------------------------------------------------
(* Dispatching.                                                            *)

\* The application keeps to what the library can withstand.
Disciplined == Liberties = {} /\ ~Kqueue

\* A batch mentions a file descriptor at most once.
OneEach ==
  \A i, j \in 1..Len(events) :
    /\ events[i] \in Eds /\ events[j] \in Eds
    /\ EdFd[events[i]] = EdFd[events[j]]
    => i = j

DispatchInv ==
  /\ OneEach
  /\ BatchFresh
  /\ NoUseAfterFree

\* What is still to be dispatched is part of the batch.
LEMMA PendingInBatch ==
  ASSUME LoopType
  PROVE  Pending \subseteq 1..Len(events)
<1>1. Len(events) \in Nat /\ next \in Nat \ {0}
  BY DEF LoopType
<1>2. QED
  BY <1>1 DEF Pending

\* The application touches no file descriptor that the batch has an entry for
\* whose handler was not entered yet.
LeavesPending ==
  \A i \in Pending :
    events[i] \in Eds => interest'[EdFd[events[i]]] = interest[EdFd[events[i]]]

\* No step of the application or the kernel alone disturbs the batch, if it
\* leaves the registrations of the pending file descriptors alone.
LEMMA PendingUntouched ==
  ASSUME DispatchInv, UNCHANGED loopVars, LeavesPending
  PROVE  DispatchInv'
<1>1. events' = events /\ loop' = loop /\ next' = next
  BY DEF loopVars
<1>2. Pending' = Pending
  BY <1>1 DEF Pending
<1>3. OneEach' /\ NoUseAfterFree'
  BY <1>1 DEF DispatchInv, OneEach, NoUseAfterFree
<1>4. BatchFresh'
  BY <1>1, <1>2 DEF DispatchInv, BatchFresh, LeavesPending
<1>5. QED
  BY <1>3, <1>4 DEF DispatchInv

\* A file descriptor the application may touch is not pending.
LEMMA TouchesNoPending ==
  ASSUME Disciplined, LoopType, DispatchInv,
         NEW fd \in Fds, AppRuns, MayTouch(fd),
         NEW i \in Pending, events[i] \in Eds
  PROVE  EdFd[events[i]] # fd
<1> USE EventMachineAssumption DEF EventMachineAssumption
<1>1. loop = "handler"
  BY DEF AppRuns, Returned, Pending
<1>2. /\ next \in 1..Len(events)
      /\ events[next] \in Eds
      /\ i \in 1..Len(events)
      /\ i # next
  <2>1. Len(events) \in Nat /\ next \in Nat \ {0}
    BY DEF LoopType
  <2>2. next <= Len(events) /\ events[next] \in Eds
    BY <1>1 DEF LoopType
  <2>3. i \in (next + 1)..Len(events)
    BY <1>1 DEF Pending
  <2>4. QED
    BY <2>1, <2>2, <2>3
<1>3. fd = EdFd[events[next]]
  BY <1>1 DEF MayTouch, Returned, Disciplined
<1>4. QED
  BY <1>2, <1>3 DEF DispatchInv, OneEach

\* A step that follows a pointer takes it off the pending ones.
LEMMA PendingShrinks ==
  ASSUME LoopType, DispatchInv, UNCHANGED <<interest, events>>,
         Pending' \subseteq Pending, loop' # "undefined"
  PROVE  DispatchInv'
BY DEF DispatchInv, OneEach, BatchFresh, NoUseAfterFree

\* event_wait reports registered descriptors, each file descriptor once.
LEMMA WaitReturnsDispatch ==
  ASSUME AppType, LoopType, RegistrationInv, DispatchInv, WaitReturns
  PROVE  DispatchInv'
<1> USE EventMachineAssumption DEF EventMachineAssumption
<1>1. PICK n \in 1..MaxEvents :
        /\ events' \in [1..n -> Ready]
        /\ \A i, j \in 1..n : events'[i] = events'[j] => i = j
  BY DEF WaitReturns
<1>2. Len(events') = n
  BY <1>1, BatchType
<1>3. \A i \in 1..n : events'[i] \in Eds => interest[EdFd[events'[i]]] = events'[i]
  <2>1. \A ed \in Ready : ed \in Eds => interest[EdFd[ed]] = ed
    BY DEF Ready, BreakReady, AppType, RegistrationInv, Registered
  <2>2. QED
    BY <1>1, <2>1
<1>4. OneEach'
  BY <1>1, <1>2, <1>3 DEF OneEach
<1>5. loop' = "dispatch" /\ next' = 1 /\ interest' = interest
  BY DEF WaitReturns
<1>6. BatchFresh'
  <2>1. Pending' = 1..n
    BY <1>2, <1>5 DEF Pending
  <2>2. QED
    BY <1>3, <1>5, <2>1 DEF BatchFresh
<1>7. NoUseAfterFree'
  BY <1>5 DEF NoUseAfterFree
<1>8. QED
  BY <1>4, <1>6, <1>7 DEF DispatchInv

\* A descriptor that is pending is in the machine's hands, hence allocated.
LEMMA NothingFreed ==
  ASSUME LoopType, RegistrationInv, DispatchInv, NEW ed \in Eds
  PROVE  ~UseFreed(ed)
<1> SUFFICES ASSUME UseFreed(ed) PROVE FALSE
  OBVIOUS
<1>1. /\ loop = "dispatch"
      /\ next <= Len(events)
      /\ events[next] = ed
      /\ owner[ed] = "nobody"
  BY DEF UseFreed, AtEntry
<1>2. next \in Pending
  BY <1>1 DEF Pending, LoopType
<1>3. interest[EdFd[ed]] = ed
  BY <1>1, <1>2 DEF DispatchInv, BatchFresh
<1>4. owner[ed] = "em"
  BY <1>3 DEF RegistrationInv, OwnershipExact
<1>5. QED
  BY <1>1, <1>4

\* The steps of the loop itself.
LEMMA LoopStepDispatch ==
  ASSUME AppType, LoopType, RegistrationInv, DispatchInv,
         LoopStep \/ HandlerReturns \/ Start
  PROVE  DispatchInv'
<1> USE DEF appVars
<1>1. Len(events) \in Nat /\ next \in Nat \ {0}
  BY DEF LoopType
<1>2. CASE WaitFails \/ Start
  BY <1>2, PendingShrinks DEF WaitFails, Start, Pending
<1>3. CASE HandleBreak
  BY <1>1, <1>3, PendingShrinks DEF HandleBreak, AtEntry, Pending
<1>4. ASSUME NEW ed \in Eds, CallHandler(ed) PROVE DispatchInv'
  BY <1>1, <1>4, PendingShrinks DEF CallHandler, AtEntry, Pending
<1>5. CASE HandlerReturns
  BY <1>1, <1>5, PendingShrinks DEF HandlerReturns, Pending
<1>6. CASE HandleBreakFails \/ BatchDone
  <2>1. Pending' = {} /\ loop' # "undefined"
    BY <1>6 DEF HandleBreakFails, BatchDone, EndBatch, Pending
  <2>2. Len(events') = 0
    BY <1>6, EmptyBatch DEF HandleBreakFails, BatchDone, EndBatch, ForgetBatch
  <2>3. 1..Len(events') = {}
    BY <2>2
  <2>4. QED
    BY <2>1, <2>3 DEF DispatchInv, OneEach, BatchFresh, NoUseAfterFree
<1>7. QED
  BY <1>2, <1>3, <1>4, <1>5, <1>6, WaitReturnsDispatch, NothingFreed DEF LoopStep

\* The steps of the application, other threads and the kernel do not move the
\* loop.
LEMMA OthersLeaveLoop ==
  ASSUME AppStep \/ Terminate \/ (\E fd \in Fds : Arrive(fd)), ~HandlerReturns, ~Start
  PROVE  UNCHANGED loopVars
BY DEF AppStep, ReadInput, OpenFd, CloseFd, Close, Delete, Add, Modify, FreeEd,
   Terminate, Arrive

\* The batch stays fresh if the application leaves what is pending alone.
LEMMA DispatchStep ==
  ASSUME AppType, LoopType, RegistrationInv, DispatchInv,
         (Next /\ LeavesPending) \/ UNCHANGED vars
  PROVE  DispatchInv'
<1>1. CASE UNCHANGED vars
  <2>1. UNCHANGED loopVars /\ LeavesPending
    BY <1>1 DEF vars, loopVars, LeavesPending
  <2>2. QED
    BY <2>1, PendingUntouched
<1>2. CASE LoopStep \/ HandlerReturns \/ Start
  BY <1>2, LoopStepDispatch
<1>3. QED
  BY <1>1, <1>2, OthersLeaveLoop, PendingUntouched DEF Next

\* An application that keeps to its own file descriptor leaves it alone.
LEMMA DisciplinedLeavesPending ==
  ASSUME Disciplined, AppType, LoopType, DispatchInv, Next
  PROVE  LeavesPending
<1> USE EventMachineAssumption DEF EventMachineAssumption
<1>1. CASE UNCHANGED interest
  BY <1>1 DEF LeavesPending
<1>2. ASSUME NEW fd \in Fds, CloseFd(fd) \/ Delete(fd) PROVE LeavesPending
  <2>1. AppRuns /\ MayTouch(fd) /\ interest' = [interest EXCEPT ![fd] = NULL]
    BY <1>2 DEF CloseFd, Close, Delete
  <2>2. QED
    BY <2>1, TouchesNoPending DEF AppType, Storage, LeavesPending
<1>3. ASSUME NEW ed \in Eds, Modify(ed) PROVE LeavesPending
  <2>1. /\ AppRuns /\ MayTouch(EdFd[ed])
        /\ interest' = interest \/ interest' = [interest EXCEPT ![EdFd[ed]] = ed]
    BY <1>3 DEF Modify
  <2>2. QED
    BY <2>1, TouchesNoPending DEF AppType, Storage, LeavesPending
<1>4. ASSUME NEW ed \in Eds, Add(ed) PROVE LeavesPending
  <2>1. \/ interest' = interest
        \/ /\ interest' = [interest EXCEPT ![EdFd[ed]] = ed]
           /\ interest[EdFd[ed]] = NULL
    BY <1>4 DEF Add, CtlApplies, Disciplined
  <2>2. \A i \in Pending :
          events[i] \in Eds => interest[EdFd[events[i]]] # NULL
    BY DEF DispatchInv, BatchFresh
  <2>3. QED
    BY <2>1, <2>2 DEF AppType, Storage, LeavesPending
<1>5. CASE Terminate \/ ReadInput \/ Start \/ HandlerReturns
  BY <1>1, <1>5 DEF Terminate, ReadInput, Start, HandlerReturns, appVars
<1>6. ASSUME NEW fd \in Fds, OpenFd(fd) \/ Arrive(fd) PROVE LeavesPending
  BY <1>1, <1>6 DEF OpenFd, Arrive
<1>7. ASSUME NEW ed \in Eds, FreeEd(ed) PROVE LeavesPending
  BY <1>1, <1>7 DEF FreeEd, kernelVars
<1>8. CASE LoopStep
  BY <1>1, <1>8 DEF LoopStep, WaitReturns, WaitFails, HandleBreak,
     HandleBreakFails, CallHandler, UseFreed, BatchDone, EndBatch, appVars
<1>9. QED
  BY <1>2, <1>3, <1>4, <1>5, <1>6, <1>7, <1>8 DEF Next, AppStep

\* Initially there is no batch.
LEMMA DispatchInit == Init => DispatchInv
<1> SUFFICES ASSUME Init PROVE DispatchInv
  OBVIOUS
<1>1. Len(events) = 0 /\ loop = "ready"
  BY EmptyBatch DEF Init
<1>2. 1..Len(events) = {} /\ Pending = {}
  BY <1>1 DEF Pending
<1>3. QED
  BY <1>1, <1>2 DEF DispatchInv, OneEach, BatchFresh, NoUseAfterFree

\* A handler is only entered for what is fresh.
LEMMA EntersFresh ==
  ASSUME LoopType, DispatchInv, NEW ed \in Eds, CallHandler(ed)
  PROVE  interest[EdFd[ed]] = ed
<1>1. loop = "dispatch" /\ next <= Len(events) /\ events[next] = ed
  BY DEF CallHandler, AtEntry
<1>2. next \in Pending
  BY <1>1 DEF Pending, LoopType
<1>3. QED
  BY <1>1, <1>2 DEF DispatchInv, BatchFresh

\* The inductive invariant of dispatching, with what it rests on, for handlers
\* that spare what is pending.
LEMMA DispatchOfSparing ==
  ASSUME StorageWorks
  PROVE  Spec /\ [][LeavesPending]_vars => []DispatchInv
<1>1. TypeOK /\ RegistrationInv /\ DispatchInv /\ [Next]_vars /\ [LeavesPending]_vars
        => DispatchInv'
  BY DispatchStep, TypeHalves
<1>2. QED
  BY <1>1, DispatchInit, TypeCorrect, RegistrationCorrect, PTL DEF Spec

\* The least that the machine needs of handlers: they may delete, modify and
\* close file descriptors other than their own, as long as event_machine_run_once
\* has no entry for them left to dispatch.  It then follows no stale pointer and
\* none to freed memory.
THEOREM SparedBatchIsSafe ==
  ASSUME StorageWorks
  PROVE  Spec /\ [][LeavesPending]_vars => [](BatchFresh /\ NoUseAfterFree)
<1>1. DispatchInv => BatchFresh /\ NoUseAfterFree
  BY DEF DispatchInv
<1>2. QED
  BY <1>1, DispatchOfSparing, PTL

\* Towards such handlers the machine keeps the promise of event-machine.h, lines
\* 405 to 408: what was deleted is forgotten, although em->events is not purged.
THEOREM SparedIsForgotten ==
  ASSUME StorageWorks
  PROVE  Spec /\ [][LeavesPending]_vars => DeletedIsForgotten
<1>1. TypeOK /\ DispatchInv
        => [\A ed \in Eds : CallHandler(ed) => interest[EdFd[ed]] = ed]_vars
  BY EntersFresh, TypeHalves
<1>2. QED
  BY <1>1, DispatchOfSparing, TypeCorrect, PTL DEF Spec, DeletedIsForgotten

\* Handlers that keep to their own file descriptor are of that kind: a batch
\* mentions each file descriptor once.
THEOREM DispatchCorrect ==
  ASSUME Disciplined
  PROVE  Spec => []DispatchInv /\ [][LeavesPending]_vars
<1>1. StorageWorks
  BY DEF Disciplined, StorageWorks
<1>2. TypeOK /\ DispatchInv /\ [Next]_vars => [LeavesPending]_vars
  BY DisciplinedLeavesPending, TypeHalves
<1>3. TypeOK /\ RegistrationInv /\ DispatchInv /\ [Next]_vars => DispatchInv'
  BY <1>2, DispatchStep, TypeHalves
<1>4. QED
  BY <1>1, <1>2, <1>3, DispatchInit, TypeCorrect, RegistrationCorrect, PTL DEF Spec

\* No stale pointer is left in em->events, whatever the earlier handlers of
\* the batch did to their own file descriptors.
THEOREM BatchStaysFresh ==
  ASSUME Disciplined
  PROVE  Spec => []BatchFresh
<1>1. DispatchInv => BatchFresh
  BY DEF DispatchInv
<1>2. QED
  BY <1>1, DispatchCorrect, PTL

\* The loop never follows a pointer to freed memory.
THEOREM NothingIsUsedAfterFree ==
  ASSUME Disciplined
  PROVE  Spec => []NoUseAfterFree
<1>1. DispatchInv => NoUseAfterFree
  BY DEF DispatchInv
<1>2. QED
  BY <1>1, DispatchCorrect, PTL

-----------------------------------------------------------------------------
(* No event is lost.                                                       *)

\* Where the event of a descriptor is after a step, if it was pledged before.
Accounted(ed) ==
  \/ Pledged(ed)'
  \/ loop' = "handler" /\ events'[next'] = ed
  \/ loop = "handler" /\ EdFd[events[next]] = EdFd[ed]
  \/ interest'[EdFd[ed]] # ed
  \/ loop = "dispatch" /\ loop' \in {"failed", "undefined"}

\* epoll reports a descriptor when there is input on its own file descriptor.
LEMMA ReadyOnItsOwn ==
  ASSUME AppType, RegistrationInv, NEW ed \in Eds
  PROVE  ed \in Ready <=> EdFd[ed] \in input /\ interest[EdFd[ed]] = ed
<1> USE EventMachineAssumption DEF EventMachineAssumption
<1>1. ed \notin BreakReady
  BY DEF BreakReady
<1>2. QED
  BY <1>1 DEF Ready, AppType, Storage, RegistrationInv, Registered

\* While a descriptor stays registered and its file descriptor keeps its input,
\* it stays ready.
LEMMA ReadyLasts ==
  ASSUME AppType, RegistrationInv, NEW ed \in Eds, ed \in Ready,
         EdFd[ed] \in input'
  PROVE  ed \in Ready' \/ interest'[EdFd[ed]] # ed
<1> USE EventMachineAssumption DEF EventMachineAssumption
<1> QED
  BY DEF Ready

\* A step that does not move the loop leaves what was reported in the batch.
LEMMA PendingStays ==
  ASSUME NEW ed \in Eds, UNCHANGED loopVars, Pledged(ed)
  PROVE  ed \in Ready \/ Accounted(ed)
BY DEF Accounted, Pledged, Pending, loopVars

\* What epoll has to report is reported, or still there after the report: an
\* edge triggered descriptor loses its input only to an entry of its own.
LEMMA WaitLosesNone ==
  ASSUME AppType, LoopType, RegistrationInv, WaitReturns,
         NEW ed \in Eds, Pledged(ed)
  PROVE  Accounted(ed)
<1> USE EventMachineAssumption DEF EventMachineAssumption
<1>1. PICK n \in 1..MaxEvents :
        /\ events' \in [1..n -> Ready]
        /\ input' = input \ {EdFd[e] : e \in Edge \cap {events'[i] : i \in 1..n}}
  BY DEF WaitReturns
<1>2. Len(events') = n /\ loop' = "dispatch" /\ next' = 1 /\ loop = "wait"
  BY <1>1, BatchType DEF WaitReturns
<1>3. Pending' = 1..n
  BY <1>2 DEF Pending
<1>4. ed \in Ready /\ EdFd[ed] \in input /\ interest[EdFd[ed]] = ed
  BY <1>2, ReadyOnItsOwn DEF Pledged, Pending
<1>5. CASE \E i \in 1..n : events'[i] = ed
  BY <1>3, <1>5 DEF Accounted, Pledged
<1>6. CASE ~\E i \in 1..n : events'[i] = ed
  <2>1. ASSUME NEW i \in 1..n, events'[i] \in Edge
        PROVE  EdFd[events'[i]] # EdFd[ed]
    <3>1. events'[i] \in Eds /\ events'[i] \in Ready
      BY <1>1, <2>1
    <3>2. interest[EdFd[events'[i]]] = events'[i]
      BY <3>1, ReadyOnItsOwn
    <3>3. QED
      BY <1>4, <1>6, <3>2
  <2>2. EdFd[ed] \in input'
    BY <1>1, <1>4, <2>1
  <2>3. QED
    BY <1>4, <2>2, ReadyLasts DEF Accounted, Pledged
<1>7. QED
  BY <1>5, <1>6

\* The other steps that move the loop leave the kernel alone, and take no entry
\* off the batch but the one they handle.
LEMMA LoopLosesNone ==
  ASSUME AppType, LoopType, RegistrationInv, NEW ed \in Eds, Pledged(ed),
         LoopStep \/ HandlerReturns \/ Start
  PROVE  Accounted(ed)
<1> USE EventMachineAssumption DEF EventMachineAssumption
<1>1. Len(events) \in Nat /\ next \in Nat \ {0}
  BY DEF LoopType
<1>2. CASE WaitReturns
  BY <1>2, WaitLosesNone
<1>3. CASE UNCHANGED appVars /\ ed \in Ready
  <2>1. EdFd[ed] \in input'
    BY <1>3, ReadyOnItsOwn DEF appVars
  <2>2. QED
    BY <1>3, <2>1, ReadyLasts DEF Accounted, Pledged
<1>4. CASE WaitFails \/ Start
  BY <1>3, <1>4 DEF WaitFails, Start, Pledged, Pending, Returned
<1>5. CASE HandleBreak
  <2>1. Pending \subseteq Pending' \cup {next} /\ events[next] = BreakEd
    BY <1>1, <1>5 DEF HandleBreak, AtEntry, Pending
  <2>2. events' = events /\ UNCHANGED appVars
    BY <1>5 DEF HandleBreak
  <2>3. QED
    BY <1>3, <2>1, <2>2 DEF Accounted, Pledged
<1>6. ASSUME NEW other \in Eds, CallHandler(other) PROVE Accounted(ed)
  <2>1. /\ Pending \subseteq Pending' \cup {next}
        /\ loop' = "handler" /\ next' = next
    BY <1>1, <1>6 DEF CallHandler, AtEntry, Pending
  <2>2. events' = events /\ UNCHANGED appVars
    BY <1>6 DEF CallHandler
  <2>3. QED
    BY <1>3, <2>1, <2>2 DEF Accounted, Pledged
<1>7. CASE HandlerReturns
  <2>1. Pending' = Pending
    BY <1>1, <1>7 DEF HandlerReturns, Pending
  <2>2. events' = events /\ UNCHANGED appVars
    BY <1>7 DEF HandlerReturns
  <2>3. QED
    BY <1>3, <2>1, <2>2 DEF Accounted, Pledged
<1>8. CASE BatchDone
  <2>1. Pending = {} /\ UNCHANGED appVars
    BY <1>1, <1>8 DEF BatchDone, EndBatch, Pending
  <2>2. QED
    BY <1>3, <2>1 DEF Pledged
<1>9. CASE HandleBreakFails \/ \E other \in Eds : UseFreed(other)
  BY <1>9 DEF HandleBreakFails, UseFreed, AtEntry, Accounted
<1>10. QED
  BY <1>2, <1>4, <1>5, <1>6, <1>7, <1>8, <1>9 DEF LoopStep

\* A file descriptor loses its input to others than the loop only when it is
\* closed, and then it is registered no more, or in a handler of its own.
LEMMA OthersLoseNone ==
  ASSUME AppType, RegistrationInv, NEW ed \in Eds, Pledged(ed),
         AppStep \/ Terminate \/ (\E fd \in Fds : Arrive(fd)),
         ~HandlerReturns, ~Start
  PROVE  Accounted(ed)
<1> USE EventMachineAssumption DEF EventMachineAssumption
<1>1. UNCHANGED loopVars
  BY OthersLeaveLoop
<1>2. CASE EdFd[ed] \in input'
  BY <1>1, <1>2, PendingStays, ReadyLasts DEF Accounted, Pledged
<1>3. CASE EdFd[ed] \notin input /\ EdFd[ed] \notin input'
  BY <1>1, <1>3, PendingStays, ReadyOnItsOwn
<1>4. ASSUME NEW fd \in Fds, CloseFd(fd) PROVE Accounted(ed)
  <2>1. input' = input \ {fd} /\ interest' = [interest EXCEPT ![fd] = NULL]
    BY <1>4 DEF CloseFd, Close
  <2>2. fd = EdFd[ed] => interest'[EdFd[ed]] # ed
    BY <2>1 DEF AppType, Storage
  <2>3. QED
    BY <1>2, <1>3, <2>1, <2>2 DEF Accounted
<1>5. CASE ReadInput
  BY <1>2, <1>3, <1>5 DEF ReadInput, Accounted
<1>6. CASE input \subseteq input'
  BY <1>2, <1>3, <1>6
<1>7. ASSUME NEW fd \in Fds, OpenFd(fd) \/ Arrive(fd) \/ Delete(fd)
      PROVE  Accounted(ed)
  BY <1>6, <1>7 DEF OpenFd, Arrive, Delete
<1>8. ASSUME NEW other \in Eds, Add(other) \/ Modify(other) \/ FreeEd(other)
      PROVE  Accounted(ed)
  BY <1>6, <1>8 DEF Add, Modify, FreeEd, kernelVars
<1>9. CASE Terminate
  BY <1>6, <1>9 DEF Terminate, appVars
<1>10. QED
  BY <1>4, <1>5, <1>7, <1>8, <1>9 DEF AppStep

\* Nothing that was to be reported, or was reported, is lost between two rounds
\* of the loop or to the handlers of other descriptors, edge triggered or not,
\* also when a handler touches other file descriptors than its own.
THEOREM NoEventIsLost ==
  ASSUME StorageWorks
  PROVE  Spec => NoEventLost
<1>1. TypeOK /\ RegistrationInv /\ [Next]_vars
        => [\A ed \in Eds : Pledged(ed) => Accounted(ed)]_vars
  BY LoopLosesNone, OthersLoseNone, TypeHalves DEF Next
<1>2. TypeOK /\ RegistrationInv /\ [Next]_vars
        => [ \A ed \in Eds : Pledged(ed) =>
               \/ Pledged(ed)'
               \/ loop' = "handler" /\ events'[next'] = ed
               \/ loop = "handler" /\ EdFd[events[next]] = EdFd[ed]
               \/ interest'[EdFd[ed]] # ed
               \/ loop = "dispatch" /\ loop' \in {"failed", "undefined"} ]_vars
  BY <1>1 DEF Accounted
<1>3. QED
  BY <1>2, TypeCorrect, RegistrationCorrect, PTL DEF Spec, NoEventLost

=============================================================================
