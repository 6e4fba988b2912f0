---------------------------- MODULE EventMachine ----------------------------
(***************************************************************************)
(* The running event machine of event-machine.c, in the builds that use    *)
(* epoll and kqueue: registration of event descriptors (event_machine_add, *)
(* _delete, _modify), the main loop (event_machine_run, _run_once) and     *)
(* event_machine_terminate.  event_machine_init has already succeeded and  *)
(* event_machine_destroy has not been called: module Lifecycle is about    *)
(* those two and about the checks that refuse a machine in another state.  *)
(*                                                                         *)
(* One thread runs the loop and, from the handlers or between two runs,    *)
(* calls the interface; event_machine_terminate is called by any thread.   *)
(* The kernel, the descriptor storage and the application around the       *)
(* library are modelled as far as the library relies on them.              *)
(***************************************************************************)
EXTENDS Integers, Sequences

CONSTANTS
  Fds,           \* numbers of the file descriptors the application watches
  Eds,           \* EM_event_descriptor structures, named by their address
  EdFd,          \* EdFd[ed] is the value of ed->fd
  Edge,          \* descriptors with EPOLLET in ed->events
  BreakEd,       \* &em->break_loop_event_descriptor
  NULL,
  MaxEvents,     \* em->max_events, the length of em->events
  PipeCapacity,  \* bytes the break loop pipe can hold
  Kqueue,        \* USE_KQUEUE is defined, and not USE_EPOLL
  HasInsert,     \* em->descriptor_storage.insert is not NULL
  HasRemove,     \* em->descriptor_storage.remove is not NULL
  Liberties      \* what application and storage do that the library cannot
                 \* withstand, a subset of AllLiberties

AllLiberties ==
  { "touch_peer",       \* a handler deletes, modifies or closes another fd
    "close_registered", \* a file descriptor is closed while registered
    "storage_fails" }   \* insert or remove fails for a reason of its own

ASSUME EventMachineAssumption ==
  /\ EdFd \in [Eds -> Fds]
  /\ Edge \subseteq Eds
  /\ Kqueue \in BOOLEAN
  /\ Kqueue => Edge = {}
  /\ BreakEd \notin Eds
  /\ NULL \notin Eds
  /\ MaxEvents \in Nat \ {0}
  /\ PipeCapacity \in Nat \ {0}
  /\ HasInsert \in BOOLEAN
  /\ HasRemove \in BOOLEAN
  /\ HasRemove => HasInsert
  /\ Liberties \subseteq AllLiberties

VARIABLES
  open,       \* file descriptors of Fds that are open in the process
  input,      \* open file descriptors with something to report
  interest,   \* epoll: interest[fd] is the data.ptr registered for fd
  pipe,       \* number of bytes in the break loop pipe
  stored,     \* descriptor storage: stored[fd] is the entry kept for fd
  owner,      \* who may use the memory of a descriptor: "nobody" when it is
              \* not allocated, "app", or "em" when it was handed over
  loop,       \* control point of the thread that runs the machine
  breakLoop,  \* break_loop of event_machine_run
  events,     \* the first num_events entries of em->events
  next        \* i of event_machine_run_once, counted from 1

vars == <<open, input, interest, pipe, stored, owner,
          loop, breakLoop, events, next>>

kernelVars == <<open, input, interest>>
appVars    == <<open, input, interest, stored, owner>>
loopVars   == <<loop, breakLoop, events, next>>

\* Outside event_machine_run: before the first call, after EM_SUCCESS, after
\* an error.
Returned == {"ready", "finished", "failed"}

\* "wait": in event_wait.  "dispatch": at the head of the for loop of
\* event_machine_run_once.  "handler": in ed->handler.  "undefined": the loop
\* has used the memory of a descriptor that was not allocated.
Running == {"wait", "dispatch", "handler"}

-----------------------------------------------------------------------------
(* The application.                                                        *)

\* The application is in control: between runs, or in a handler.
AppRuns == loop \in Returned \cup {"handler"}

\* The file descriptors the application may delete, modify or close now.
MayTouch(fd) ==
  \/ loop \in Returned
  \/ /\ loop = "handler"
     /\ fd = EdFd[events[next]] \/ "touch_peer" \in Liberties

\* The application takes back the descriptors it handed over for fd.
Reclaim(fd) ==
  [ed \in Eds |-> IF EdFd[ed] = fd /\ owner[ed] = "em" THEN "app" ELSE owner[ed]]

\* accept(), timerfd_create(), ...: a number becomes valid (again).
OpenFd(fd) ==
  /\ AppRuns
  /\ fd \notin open
  /\ open' = open \cup {fd}
  /\ UNCHANGED <<input, interest, pipe, stored, owner, loopVars>>

\* close(): the queue drops a file descriptor that is closed.
Close(fd) ==
  /\ fd \in open
  /\ open' = open \ {fd}
  /\ input' = input \ {fd}
  /\ interest' = [interest EXCEPT ![fd] = NULL]
  /\ owner' = Reclaim(fd)
  /\ UNCHANGED <<pipe, stored, loopVars>>

CloseFd(fd) ==
  /\ AppRuns /\ MayTouch(fd)
  /\ interest[fd] = NULL \/ "close_registered" \in Liberties
  /\ Close(fd)

\* free() of a descriptor that is the application's own.
FreeEd(ed) ==
  /\ AppRuns
  /\ owner[ed] = "app"
  /\ owner' = [owner EXCEPT ![ed] = "nobody"]
  /\ UNCHANGED <<kernelVars, pipe, stored, loopVars>>

\* A handler reads all there is on its file descriptor.
ReadInput ==
  /\ loop = "handler"
  /\ input' = input \ {EdFd[events[next]]}
  /\ UNCHANGED <<open, interest, pipe, stored, owner, loopVars>>

\* Something arrives on an open file descriptor.
Arrive(fd) ==
  /\ fd \in open \ input
  /\ input' = input \cup {fd}
  /\ UNCHANGED <<open, interest, pipe, stored, owner, loopVars>>

-----------------------------------------------------------------------------
(* The descriptor storage the user supplies, a map from file descriptor to *)
(* descriptor.  Where it has no insert, or no remove, that call is left    *)
(* out and counts as a success without effect.                             *)

\* STORAGE_INSERT_ENTRY(em, fd, ed).  A storage that cannot remove may not
\* report duplicates.
InsertDuplicate(st, fd) == HasRemove /\ st[fd] # NULL
InsertMaySucceed(st, fd) == ~InsertDuplicate(st, fd)
InsertMayFail(st, fd) ==
  InsertDuplicate(st, fd) \/ (HasInsert /\ "storage_fails" \in Liberties)
Inserted(st, fd, ed) == IF HasInsert THEN [st EXCEPT ![fd] = ed] ELSE st

\* STORAGE_REMOVE_ENTRY(em, fd, &tmp_ed) in remove_event_descriptor.
RemoveMaySucceed(fd) == HasRemove => stored[fd] # NULL
RemoveMayFail(fd) ==
  HasRemove /\ (stored[fd] = NULL \/ "storage_fails" \in Liberties)
\* Variant: the entry is looked up, and stays.
NotRemoved(fd) == stored

Removed(fd) == IF HasRemove THEN [stored EXCEPT ![fd] = NULL] ELSE stored

\* The application has back the descriptor that *old_ed receives.  Without a
\* storage that removes there is none, and it has to know by other means.
TakeBack(fd) ==
  IF ~HasRemove THEN Reclaim(fd)
  ELSE [ed \in Eds |-> IF ed = stored[fd] /\ owner[ed] = "em" THEN "app" ELSE owner[ed]]

-----------------------------------------------------------------------------
(* Registration.  Where a call can be refused (a check of a file           *)
(* descriptor, epoll_ctl) before it has changed anything, the model lets   *)
(* it be refused in every state: the kernel may be out of resources.       *)

\* What epoll_ctl() requires for each operation of event_ctl.  For kevent() all
\* of them are EV_ADD, which does not mind what is registered; the filter that
\* event_machine_delete passes, 0, does not exist.  kqueue keeps an entry for
\* each file descriptor and filter: the model is of an application that always
\* passes the same filter for a file descriptor, whose entry EV_ADD replaces.
CtlApplies(operation, fd) ==
  /\ fd \in open
  /\ CASE Kqueue -> operation # "EVENT_DELETE"
       [] ~Kqueue /\ operation = "EVENT_ADD" -> interest[fd] = NULL
       [] OTHER -> interest[fd] # NULL

\* Variant: a call that fails reports a success.
KeepFromApp(ed) == [owner EXCEPT ![ed] = "em"]

\* The descriptor is allocated and filled in, and the call fails.
Keep(ed) == [owner EXCEPT ![ed] = "app"]

Add(ed) ==
  LET fd == EdFd[ed] IN
  /\ AppRuns
  /\ owner[ed] # "em"
  /\ \/ /\ owner' = Keep(ed)
        /\ UNCHANGED <<interest, stored>>
     \/ /\ CtlApplies("EVENT_ADD", fd)
        /\ interest' = [interest EXCEPT ![fd] = ed]
        /\ \/ /\ InsertMaySucceed(stored, fd)
              /\ stored' = Inserted(stored, fd, ed)
              /\ owner' = [owner EXCEPT ![ed] = "em"]
           \/ /\ InsertMayFail(stored, fd)
              /\ stored' = stored
              /\ owner' = Keep(ed)
  /\ UNCHANGED <<open, input, pipe, loopVars>>

\* A call that is refused before it has changed anything is a stuttering step.
\* A remove that fails may still hand out the entry it tried to remove.
Delete(fd) ==
  /\ AppRuns /\ MayTouch(fd)
  /\ CtlApplies("EVENT_DELETE", fd)
  /\ interest' = [interest EXCEPT ![fd] = NULL]
  /\ \/ /\ RemoveMaySucceed(fd)
        /\ stored' = Removed(fd)
        /\ owner' = TakeBack(fd)
     \/ /\ RemoveMayFail(fd)
        /\ stored' = stored
        /\ owner' \in {owner, TakeBack(fd)}
  /\ UNCHANGED <<open, input, pipe, loopVars>>

\* ed is another structure than the one that is registered, for the same fd.
Modify(ed) ==
  LET fd == EdFd[ed]
      KeepBoth == [TakeBack(fd) EXCEPT ![ed] = "app"] IN
  /\ AppRuns /\ MayTouch(fd)
  /\ owner[ed] # "em"
  /\ \/ /\ owner' = Keep(ed)
        /\ UNCHANGED <<interest, stored>>
     \/ /\ CtlApplies("EVENT_MODIFY", fd)
        /\ interest' = [interest EXCEPT ![fd] = ed]
        /\ \/ /\ RemoveMayFail(fd)
              /\ stored' = stored
              /\ owner' \in {Keep(ed), KeepBoth}
           \/ /\ RemoveMaySucceed(fd)
              /\ InsertMaySucceed(Removed(fd), fd)
              /\ stored' = Inserted(Removed(fd), fd, ed)
              /\ owner' = [TakeBack(fd) EXCEPT ![ed] = "em"]
           \/ /\ RemoveMaySucceed(fd)
              /\ InsertMayFail(Removed(fd), fd)
              /\ stored' = Removed(fd)
              /\ owner' \in {Keep(ed), KeepBoth}
  /\ UNCHANGED <<open, input, pipe, loopVars>>

-----------------------------------------------------------------------------
(* The main loop.                                                          *)

\* Variant: EAGAIN is not looked at, as if the pipe had room for ever.
TerminateUnbounded ==
  /\ pipe' = pipe + 1
  /\ UNCHANGED <<appVars, loopVars>>

\* event_machine_terminate, by any thread: one byte is written.  A write into
\* a full pipe fails with EAGAIN, which is a success without effect.
Terminate ==
  /\ pipe' = IF pipe < PipeCapacity THEN pipe + 1 ELSE pipe
  /\ UNCHANGED <<appVars, loopVars>>

\* event_machine_run passes its checks and enters the loop.
Start ==
  /\ loop \in Returned
  /\ loop' = "wait"
  /\ UNCHANGED <<appVars, pipe, breakLoop, events, next>>

\* Variant: the break loop descriptor was never added to the queue.
BreakNotAdded == {}

\* event_machine_init has added the read end of the pipe to the queue.
BreakReady == IF pipe > 0 THEN {BreakEd} ELSE {}

\* The descriptors epoll would report now.
Ready == { interest[fd] : fd \in {f \in input : interest[f] # NULL} } \cup BreakReady

\* event_wait returns some of the ready descriptors, each once, in any order.
\* One that is edge triggered is not reported again before something arrives.
WaitReturns ==
  /\ loop = "wait"
  /\ \E n \in 1..MaxEvents : \E batch \in [1..n -> Ready] :
       /\ \A i, j \in 1..n : batch[i] = batch[j] => i = j
       /\ events' = batch
       /\ input' = input \ { EdFd[ed] : ed \in Edge \cap {batch[i] : i \in 1..n} }
  /\ next' = 1
  /\ loop' = "dispatch"
  /\ UNCHANGED <<open, interest, pipe, stored, owner, breakLoop>>

\* event_wait fails, for instance with EINTR: EM_ERROR_EVENT_WAIT.
WaitFails ==
  /\ loop = "wait"
  /\ loop' = "failed"
  /\ UNCHANGED <<appVars, pipe, breakLoop, events, next>>

\* The for loop has an entry left, and it is ed.
AtEntry(ed) ==
  /\ loop = "dispatch"
  /\ next <= Len(events)
  /\ events[next] = ed

\* What is left of a batch is not looked at again.
ForgetBatch ==
  /\ events' = <<>>
  /\ next' = 1

\* The entry of the break loop pipe: one byte is read.
HandleBreak ==
  /\ AtEntry(BreakEd)
  /\ pipe > 0
  /\ pipe' = pipe - 1
  /\ breakLoop' = TRUE
  /\ next' = next + 1
  /\ UNCHANGED <<appVars, loop, events>>

\* read() fails: the run ends with EM_ERROR_READ in the middle of the batch.
HandleBreakFails ==
  /\ AtEntry(BreakEd)
  /\ loop' = "failed"
  /\ breakLoop' = FALSE
  /\ ForgetBatch
  /\ UNCHANGED <<appVars, pipe>>

\* The entry of a descriptor: its handler is entered.
CallHandler(ed) ==
  /\ AtEntry(ed)
  /\ owner[ed] # "nobody"
  /\ loop' = "handler"
  /\ UNCHANGED <<appVars, pipe, breakLoop, events, next>>

\* The entry points to memory that was freed: ed->fd is read all the same.
UseFreed(ed) ==
  /\ AtEntry(ed)
  /\ owner[ed] = "nobody"
  /\ loop' = "undefined"
  /\ UNCHANGED <<appVars, pipe, breakLoop, events, next>>

\* Variant: the entry is handled again as long as its descriptor has input.
HandlerRepeats ==
  /\ loop = "handler"
  /\ loop' = "dispatch"
  /\ next' = IF EdFd[events[next]] \in input THEN next ELSE next + 1
  /\ UNCHANGED <<appVars, pipe, breakLoop, events>>

HandlerReturns ==
  /\ loop = "handler"
  /\ loop' = "dispatch"
  /\ next' = next + 1
  /\ UNCHANGED <<appVars, pipe, breakLoop, events>>

\* The while loop of event_machine_run looks at break_loop.
EndBatch(done, break) ==
  /\ loop = "dispatch"
  /\ done
  /\ loop' = IF breakLoop THEN "finished" ELSE "wait"
  /\ breakLoop' = break
  /\ ForgetBatch
  /\ UNCHANGED <<appVars, pipe>>

\* Variant: the for loop stops one entry short.
BatchDoneEarly == EndBatch(next >= Len(events), FALSE)

\* Variant: break_loop keeps its value from one run to the next.
BatchDoneKeepsBreak == EndBatch(next > Len(events), breakLoop)

BatchDone == EndBatch(next > Len(events), FALSE)

-----------------------------------------------------------------------------

Init ==
  /\ open = {}
  /\ input = {}
  /\ interest = [fd \in Fds |-> NULL]
  /\ pipe = 0
  /\ stored = [fd \in Fds |-> NULL]
  /\ owner = [ed \in Eds |-> "nobody"]
  /\ loop = "ready"
  /\ breakLoop = FALSE
  /\ events = <<>>
  /\ next = 1

\* What the library does of its own accord once it runs.
LoopStep ==
  \/ WaitReturns
  \/ WaitFails
  \/ HandleBreak
  \/ HandleBreakFails
  \/ \E ed \in Eds : CallHandler(ed)
  \/ \E ed \in Eds : UseFreed(ed)
  \/ BatchDone

\* What the application does, in a handler or between runs.
AppStep ==
  \/ Start
  \/ HandlerReturns
  \/ ReadInput
  \/ \E fd \in Fds : OpenFd(fd) \/ CloseFd(fd) \/ Delete(fd)
  \/ \E ed \in Eds : Add(ed) \/ Modify(ed) \/ FreeEd(ed)

Next ==
  \/ LoopStep
  \/ AppStep
  \/ Terminate
  \/ \E fd \in Fds : Arrive(fd)

Spec == Init /\ [][Next]_vars

\* epoll_wait reports ed.
Reports(ed) == WaitReturns /\ \E i \in DOMAIN events' : events'[i] = ed

\* The thread that runs the machine is scheduled, handlers return, and the
\* kernel, which takes the ready list in turn, does not pass over a descriptor
\* for ever.  Nothing is assumed of requests, of input, or of failures.
Fairness ==
  /\ WF_vars(LoopStep /\ ~WaitFails)
  /\ WF_vars(HandlerReturns)
  /\ \A ed \in Eds \cup {BreakEd} : SF_vars(Reports(ed))

FairSpec == Spec /\ Fairness

-----------------------------------------------------------------------------
(* Properties.                                                             *)

\* Every variable has its type, and the index stays within one of the batch.
TypeOK ==
  /\ open \subseteq Fds
  /\ input \subseteq open
  /\ interest \in [Fds -> Eds \cup {NULL}]
  /\ pipe \in 0..PipeCapacity
  /\ stored \in [Fds -> Eds \cup {NULL}]
  /\ owner \in [Eds -> {"nobody", "app", "em"}]
  /\ loop \in Returned \cup Running \cup {"undefined"}
  /\ breakLoop \in BOOLEAN
  /\ events \in Seq(Eds \cup {BreakEd})
  /\ next \in Nat \ {0}
  /\ loop = "handler" => next <= Len(events) /\ events[next] \in Eds

\* The entries of the batch whose handler has not been entered yet.
Pending ==
  IF loop = "dispatch" THEN next..Len(events)
  ELSE IF loop = "handler" THEN (next + 1)..Len(events)
  ELSE {}

\* The pointers event_machine_run_once still has to follow are those of
\* descriptors that are registered now: whatever earlier handlers of the batch
\* added, deleted, modified, closed or freed, no stale pointer is left in
\* em->events (event-machine.c, lines 328 to 352).
BatchFresh ==
  \A i \in Pending :
    events[i] \in Eds => interest[EdFd[events[i]]] = events[i]

\* The loop never follows a pointer to freed memory.
NoUseAfterFree == loop # "undefined"

\* Application and kernel agree on which descriptors are in use: one that was
\* handed over successfully and not taken back is registered (it is not lost),
\* and one that is registered was handed over (a call that failed, or a delete
\* that succeeded, has left nothing behind in epoll).
OwnershipExact ==
  \A ed \in Eds : owner[ed] = "em" <=> interest[EdFd[ed]] = ed

\* A descriptor storage that can remove holds exactly what epoll holds, so
\* that event_machine_delete and _modify return the descriptor they displace.
StorageAgrees == HasRemove => stored = interest

\* A call that reports a success is in both books, and stays there while its
\* descriptor is registered: insert and remove of the storage may fail for any
\* reason, behind an epoll_ctl() that has been done, in that call or in another
\* (event-machine.c, lines 457 to 465, 571 to 580).
HandedOverIsStored ==
  HasInsert =>
    \A ed \in Eds :
      owner[ed] = "em" /\ interest[EdFd[ed]] = ed => stored[EdFd[ed]] = ed

\* A handler is only entered for a descriptor that is registered: once
\* event_machine_delete has succeeded, the machine has forgotten it.
DeletedIsForgotten ==
  [][ \A ed \in Eds : CallHandler(ed) => interest[EdFd[ed]] = ed ]_vars

\* Every descriptor that stays ready has its handler called, whatever the other
\* descriptors do, as long as the run goes on.
ReadyIsServed ==
  \A ed \in Eds :
    (loop \in Running /\ ed \in Ready)
      ~> \/ loop = "handler" /\ events[next] = ed
         \/ loop \notin Running
         \/ IF ed \in Edge THEN interest[EdFd[ed]] # ed ELSE ed \notin Ready

\* The handler of ed is to be called: ed has something to report, or has been
\* reported in the batch.
Pledged(ed) == ed \in Ready \/ \E i \in Pending : events[i] = ed

\* What epoll has to report, or has reported, stays to be handled until the
\* handler of the descriptor is entered, a handler of its file descriptor reads,
\* or it is registered no more: neither a round of the loop nor the handlers of
\* others lose it, edge triggered or not, unless the run breaks off in the middle
\* of a batch (event-machine.c, lines 322 to 352).
NoEventLost ==
  [][ \A ed \in Eds : Pledged(ed) =>
        \/ Pledged(ed)'
        \/ loop' = "handler" /\ events'[next'] = ed
        \/ loop = "handler" /\ EdFd[events[next]] = EdFd[ed]
        \/ interest'[EdFd[ed]] # ed
        \/ loop = "dispatch" /\ loop' \in {"failed", "undefined"} ]_vars

\* The machine keeps the contract of event_machine_run and _terminate.
Contract == INSTANCE LoopContract WITH
  status   <- IF loop \in Running THEN "running"
              ELSE IF loop = "undefined" THEN "failed" ELSE loop,
  requests <- pipe + (IF breakLoop THEN 1 ELSE 0)

\* A run ends with EM_SUCCESS only against a byte of event_machine_terminate,
\* every byte ends at most one run, and a run that fails consumes none.
KeepsContract == Contract!SafeSpec

\* Together with fairness: a request to terminate ends the run.
TerminateStopsRun == Contract!Spec

=============================================================================
