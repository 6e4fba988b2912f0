------------------------------ MODULE Lifecycle ------------------------------
(***************************************************************************)
(* The resources of event machines: what event_machine_init acquires, at   *)
(* whatever step it fails, what event_machine_destroy releases, and how    *)
(* event_machine_run and event_machine_terminate tell a machine they can   *)
(* use from one they must refuse.  Calls are sequential and each is one    *)
(* step; module EventMachine is about what happens in a run.               *)
(*                                                                         *)
(* Several machines, and the rest of the process, share one table of file  *)
(* descriptors, in which a number that was closed is soon used again.      *)
(***************************************************************************)
EXTENDS Integers

CONSTANTS
  Machines,  \* EM structures, set up by EM_STATIC_WITH_MAX_EVENTS
  MaxFd,     \* file descriptors are 0..MaxFd, the limit of the process
  UsePipe2,  \* USE_PIPE2 is defined
  Careful    \* a machine whose destroy reported an error is left alone

ASSUME LifecycleAssumption ==
  /\ MaxFd \in Nat
  /\ "nobody" \notin Machines
  /\ UsePipe2 \in BOOLEAN
  /\ Careful \in BOOLEAN

VARIABLES
  fds,    \* the object behind a file descriptor
  em,     \* the fields of the EM structures
  heap,   \* machines whose em->events was allocated and not freed yet
  flags,  \* file status and descriptor flags of the break loop pipes
  phase   \* how far a machine has come, as the application sees it

vars == <<fds, em, heap, flags, phase>>

Numbers == 0..MaxFd

Closed == <<"nobody", "closed">>
Other  == <<"nobody", "other">>
Objects == (Machines \X {"queue", "read", "write"}) \cup {Closed, Other}

Ends == {"read", "write"}

\* "undestroyed": event_machine_destroy returned an error.
Phases == {"raw", "failed", "up", "released", "undestroyed"}

-----------------------------------------------------------------------------
(* File descriptors.                                                       *)

Free(table) == { n \in Numbers : table[n] = Closed }

\* The kernel hands out the lowest number that is free.
Lowest(n, S) == n \in S /\ \A k \in S : n <= k

\* A number that fcntl(n, F_GETFL) accepts.
IsOpen(n) == n \in Numbers /\ fds[n] # Closed

\* The rest of the process opens and closes descriptors of its own.
OpenOther ==
  /\ \E n \in Numbers : Lowest(n, Free(fds)) /\ fds' = [fds EXCEPT ![n] = Other]
  /\ UNCHANGED <<em, heap, flags, phase>>

CloseOther(n) ==
  /\ fds[n] = Other
  /\ fds' = [fds EXCEPT ![n] = Closed]
  /\ UNCHANGED <<em, heap, flags, phase>>

-----------------------------------------------------------------------------
(* event_machine_init.                                                     *)

\* The careful application calls init once, or again after a destroy.
MayInit(m) == Careful => phase[m] \in {"raw", "released"}

\* The structure once init has seen to em->events.  The result of malloc() is
\* not looked at.
WithEvents(m) ==
  LET events == IF em[m].max_events > 0 THEN em[m].events ELSE "null"
      sized  == [em[m] EXCEPT !.max_events = IF @ > 0 THEN @ ELSE 1]
  IN  IF events = "null"
      THEN { [sized EXCEPT !.events = block, !.do_free_events = TRUE] :
               block \in {"heap", "null"} }
      ELSE { [sized EXCEPT !.do_free_events = FALSE] }

\* Init ends here with structure e.
Leaves(m, e, outcome) ==
  /\ em' = [em EXCEPT ![m] = e]
  /\ heap' = IF e.do_free_events /\ e.events = "heap" THEN heap \cup {m} ELSE heap
  /\ phase' = [phase EXCEPT ![m] = outcome]

\* pipe2() or pipe() opens r and w.
OpensPipe(r, w) == Lowest(r, Free(fds)) /\ Lowest(w, Free(fds) \ {r})

PipeTable(m, r, w) == [fds EXCEPT ![r] = <<m, "read">>, ![w] = <<m, "write">>]

\* Variant: the loop over the two ends of the pipe stops after the first.
PipeFlagsFirstEndOnly ==
  IF UsePipe2 THEN [end \in Ends |-> {"nonblock", "cloexec"}]
  ELSE [end \in Ends |-> IF end = "read" THEN {"nonblock"} ELSE {}]

\* What O_CLOEXEC | O_NONBLOCK, or F_SETFL with FD_CLOEXEC | O_NONBLOCK,
\* achieves: F_SETFL does not change the close-on-exec flag.
PipeFlags ==
  [end \in Ends |-> IF UsePipe2 THEN {"nonblock", "cloexec"} ELSE {"nonblock"}]

InitFailsAtPipe(m) ==
  /\ MayInit(m)
  /\ \E e \in WithEvents(m) : Leaves(m, e, "failed")
  /\ UNCHANGED <<fds, flags>>

\* fcntl() fails on the first or on the second end.
InitFailsAtFcntl(m) ==
  /\ MayInit(m) /\ ~UsePipe2
  /\ \E e \in WithEvents(m), r, w \in Numbers :
       /\ OpensPipe(r, w)
       /\ fds' = PipeTable(m, r, w)
       /\ Leaves(m, [e EXCEPT !.read = r, !.write = w], "failed")
  /\ \E done \in {{}, {"read"}} :
       flags' = [flags EXCEPT ![m] =
                   [end \in Ends |-> IF end \in done THEN PipeFlags[end] ELSE {}]]

InitFailsAtQueue(m) ==
  /\ MayInit(m)
  /\ \E e \in WithEvents(m), r, w \in Numbers :
       /\ OpensPipe(r, w)
       /\ fds' = PipeTable(m, r, w)
       /\ Leaves(m, [e EXCEPT !.read = r, !.write = w], "failed")
  /\ flags' = [flags EXCEPT ![m] = PipeFlags]

\* The queue exists; adding the read end of the pipe fails or succeeds.
InitReachesCtl(m, outcome) ==
  /\ MayInit(m)
  /\ \E e \in WithEvents(m), r, w, q \in Numbers :
       /\ OpensPipe(r, w)
       /\ Lowest(q, Free(fds) \ {r, w})
       /\ fds' = [PipeTable(m, r, w) EXCEPT ![q] = <<m, "queue">>]
       /\ Leaves(m, [e EXCEPT !.read = r, !.write = w, !.queue_fd = q], outcome)
  /\ flags' = [flags EXCEPT ![m] = PipeFlags]

-----------------------------------------------------------------------------
(* event_machine_destroy.                                                  *)

MayDestroy(m) == Careful => phase[m] # "undestroyed"

CloseNumber(table, n) ==
  [k \in Numbers |-> IF k = n THEN Closed ELSE table[k]]

\* Destroy of a machine that has a queue: an empty statement after the test
\* of close() makes it return EM_ERROR_CLOSE whatever close() returned.
DestroyWithQueue(m) ==
  /\ MayDestroy(m)
  /\ em[m].queue_fd >= 0
  /\ fds' = CloseNumber(fds, em[m].queue_fd)
  /\ phase' = [phase EXCEPT ![m] = "undestroyed"]
  /\ UNCHANGED <<em, heap, flags>>

\* Variants: em->events keeps its value; it is left pointing anywhere.
FreedWithoutReset(m) == em[m]
FreedDangling(m) == [em[m] EXCEPT !.events = "dangling"]

\* Freeing em->events.
Freed(m) ==
  IF em[m].do_free_events THEN [em[m] EXCEPT !.events = "null"] ELSE em[m]

\* Variant: the write end is closed, but its number is not forgotten.
DestroyKeepsWrite(m) ==
  /\ MayDestroy(m)
  /\ em[m].queue_fd < 0
  /\ fds' = CloseNumber(CloseNumber(fds, em[m].write), em[m].read)
  /\ em' = [em EXCEPT ![m] = [Freed(m) EXCEPT !.read = -1]]
  /\ heap' = IF em[m].do_free_events THEN heap \ {m} ELSE heap
  /\ phase' = [phase EXCEPT ![m] = "released"]
  /\ UNCHANGED flags

\* Variant: em->events is not freed.
DestroyNeverFrees(m) ==
  /\ MayDestroy(m)
  /\ em[m].queue_fd < 0
  /\ fds' = CloseNumber(CloseNumber(fds, em[m].write), em[m].read)
  /\ em' = [em EXCEPT ![m] = [@ EXCEPT !.write = -1, !.read = -1]]
  /\ phase' = [phase EXCEPT ![m] = "released"]
  /\ UNCHANGED <<heap, flags>>

\* Destroy of a machine without one.  Closing an end of the pipe fails if
\* somebody else has closed its number before.
DestroyWithoutQueue(m) ==
  LET freed == Freed(m)
      w == freed.write
      r == freed.read
      ClosesWrite == w < 0 \/ IsOpen(w)
      ClosesRead  == r < 0 \/ IsOpen(r)
  IN
  /\ MayDestroy(m)
  /\ em[m].queue_fd < 0
  /\ heap' = IF em[m].do_free_events THEN heap \ {m} ELSE heap
  /\ \/ /\ ClosesWrite /\ ClosesRead
        /\ fds' = CloseNumber(CloseNumber(fds, w), r)
        /\ em' = [em EXCEPT ![m] = [freed EXCEPT !.write = -1, !.read = -1]]
        /\ phase' = [phase EXCEPT ![m] = "released"]
     \/ /\ ClosesWrite /\ ~ClosesRead
        /\ fds' = CloseNumber(fds, w)
        /\ em' = [em EXCEPT ![m] = [freed EXCEPT !.write = -1]]
        /\ phase' = [phase EXCEPT ![m] = "undestroyed"]
     \/ /\ ~ClosesWrite
        /\ fds' = fds
        /\ em' = [em EXCEPT ![m] = freed]
        /\ phase' = [phase EXCEPT ![m] = "undestroyed"]
  /\ UNCHANGED flags

-----------------------------------------------------------------------------
(* The checks at the entry of the other calls.  They change nothing here.  *)

\* event_machine_add, _delete or _modify gets to epoll_ctl().
RegistrationAccepts(m) == IsOpen(em[m].queue_fd)

\* event_machine_run gets to epoll_wait().
RunAccepts(m) ==
  /\ em[m].max_events > 0
  /\ em[m].events # "null"
  /\ IsOpen(em[m].queue_fd)

\* event_machine_terminate gets to write().
TerminateAccepts(m) == IsOpen(em[m].write)

-----------------------------------------------------------------------------

\* EM_STATIC_WITH_MAX_EVENTS(maxevs, evs).
Statics ==
  { [queue_fd |-> -1, read |-> -1, write |-> -1,
     max_events |-> maxevs, events |-> evs, do_free_events |-> FALSE] :
      maxevs \in {0, 1}, evs \in {"user", "null"} }

Init ==
  /\ fds = [n \in Numbers |-> Closed]
  /\ em \in [Machines -> Statics]
  /\ heap = {}
  /\ flags = [m \in Machines |-> [end \in Ends |-> {}]]
  /\ phase = [m \in Machines |-> "raw"]

InitCall(m) ==
  \/ InitFailsAtPipe(m)
  \/ InitFailsAtFcntl(m)
  \/ InitFailsAtQueue(m)
  \/ \E outcome \in {"failed", "up"} : InitReachesCtl(m, outcome)

DestroyCall(m) == DestroyWithQueue(m) \/ DestroyWithoutQueue(m)

Next ==
  \/ \E m \in Machines : InitCall(m) \/ DestroyCall(m)
  \/ OpenOther
  \/ \E n \in Numbers : CloseOther(n)

Spec == Init /\ [][Next]_vars

-----------------------------------------------------------------------------
(* Properties.                                                             *)

Structures ==
  [queue_fd : Numbers \cup {-1}, read : Numbers \cup {-1}, write : Numbers \cup {-1},
   max_events : Nat, events : {"user", "heap", "null"}, do_free_events : BOOLEAN]

\* Every variable has its type.
TypeOK ==
  /\ fds \in [Numbers -> Objects]
  /\ em \in [Machines -> Structures]
  /\ heap \subseteq Machines
  /\ flags \in [Machines -> [Ends -> SUBSET {"nonblock", "cloexec"}]]
  /\ phase \in [Machines -> Phases]

\* em->events never points to memory that was freed, and what destroy would
\* free was allocated by init: no array is freed twice, none of the user's at
\* all, however init and destroy follow upon each other.
EventsOwned ==
  \A m \in Machines :
    /\ em[m].events = "heap" => m \in heap
    /\ em[m].do_free_events => em[m].events # "user"

\* The numbers a machine that is up has stored are those of its own queue and
\* its own pipe: nothing that the other machines and the rest of the process
\* do, with their own descriptors, closes one of them.
OwnDescriptors ==
  \A m \in Machines :
    phase[m] = "up" =>
      /\ fds[em[m].queue_fd] = <<m, "queue">>
      /\ fds[em[m].read] = <<m, "read">>
      /\ fds[em[m].write] = <<m, "write">>

\* The checks at the entry let no call through to what is not the machine's own:
\* not before init, not after an init that failed, whether malloc() had failed in
\* it or not, not after a destroy.  Only where destroy has reported an error may
\* queue_fd be the number of somebody else; event_machine_run refuses a missing
\* array, and event_machine_terminate reaches its own pipe or none, even there.
AcceptsOwnOnly ==
  \A m \in Machines :
    /\ RunAccepts(m) => em[m].events = "user" \/ m \in heap
    /\ TerminateAccepts(m) => fds[em[m].write] = <<m, "write">>
    /\ phase[m] # "undestroyed" /\ (RegistrationAccepts(m) \/ RunAccepts(m)) =>
         fds[em[m].queue_fd] = <<m, "queue">>

LeavesNothing(m) ==
  /\ m \notin heap
  /\ \A n \in Numbers : fds[n][1] # m

\* A destroy that succeeds, wherever init had failed before, leaves neither a
\* file descriptor nor memory behind.
ReleasedLeavesNothing ==
  \A m \in Machines : phase[m] = "released" => LeavesNothing(m)

\* event_machine_terminate cannot block on a machine that is up.
TerminateNeverBlocks ==
  \A m \in Machines : phase[m] = "up" => "nonblock" \in flags[m]["write"]

\* "Cleanup any resources associated with EM structure": whatever destroy
\* returns, it has been called and nothing is left.
DestroyCleansUp ==
  \A m \in Machines : phase[m] \in {"released", "undestroyed"} => LeavesNothing(m)

=============================================================================
