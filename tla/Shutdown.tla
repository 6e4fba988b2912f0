------------------------------ MODULE Shutdown ------------------------------
(***************************************************************************)
(* Several threads on one machine of event-machine.c at the same time:     *)
(* event_machine_run in some, event_machine_terminate in others, and one   *)
(* event_machine_destroy.  The grain is the system call, with what the     *)
(* thread loads from the structure before it: between any two of them the  *)
(* other threads, and the rest of the process, go on.                      *)
(*                                                                         *)
(* event_machine_init has returned, with success or, its pipe open, with   *)
(* the failure to create a queue.  A queue is an epoll instance.           *)
(***************************************************************************)
EXTENDS Integers, FiniteSets

CONSTANTS
  Runners,      \* threads that call event_machine_run, once each
  Terminators,  \* threads that call event_machine_terminate, once each
  MaxEvents,    \* em->max_events
  PipeCapacity  \* bytes the break loop pipe can hold

ASSUME ShutdownAssumption ==
  /\ MaxEvents \in Nat \ {0}
  /\ PipeCapacity \in Nat \ {0}

VARIABLES
  up,       \* em->queue_fd is the number of a queue; if not, it is -1
  written,  \* em->break_loop_pipe[1] still is a number, and not -1
  array,    \* the memory behind em->events; the pointer is NULL once "freed"
  events,   \* what em->events holds, shared by all runs
  behind,   \* what the number of the queue, or of an end of the pipe, is of:
            \* "own", nothing ("closed"), "other", or another "queue"
  pipe,     \* the bytes in the pipe, named by the thread that wrote them
  run,      \* control points of the runners,
  index,    \* their i, counted from 1,
  num,      \* and num_events,
  break,    \* their break_loop,
  taken,    \* and the bytes they have read
  request,  \* control points of the terminators
  destroy   \* control point of the thread that destroys the machine: what it
            \* does next

machine == <<up, written, array, behind, pipe>>
runs    == <<events, run, index, num, break, taken>>
vars    == <<machine, runs, request, destroy>>

Numbers == {"queue", "read", "write"}
Entries == {"break", "app", "alien"}

\* "head": of the loop.  "wait": in epoll_wait.  "alien": in epoll_wait on the
\* queue of somebody else.  "undefined": memory that was freed was used, or a
\* handler called that is NULL.
InRun == {"head", "wait", "alien", "dispatch"}
RunPoints == {"idle", "ok", "failed", "undefined"} \cup InRun

-----------------------------------------------------------------------------
(* The rest of the process opens and closes descriptors of its own.        *)

Reuse(n) ==
  /\ n = "queue" => up
  /\ behind[n] = "closed"
  /\ \E what \in {"other", "queue"} : behind' = [behind EXCEPT ![n] = what]
  /\ UNCHANGED <<up, written, array, pipe, runs, request, destroy>>

Release(n) ==
  /\ behind[n] \in {"other", "queue"}
  /\ behind' = [behind EXCEPT ![n] = "closed"]
  /\ UNCHANGED <<up, written, array, pipe, runs, request, destroy>>

-----------------------------------------------------------------------------
(* event_machine_run.                                                      *)

Goes(r, point) == run' = [run EXCEPT ![r] = point]

\* The checks.  fcntl() accepts whatever is behind the number.
RunCall(r) ==
  /\ run[r] = "idle"
  /\ Goes(r, IF up /\ array # "freed" /\ behind["queue"] # "closed"
             THEN "head" ELSE "failed")
  /\ UNCHANGED <<machine, events, index, num, break, taken, request, destroy>>

\* epoll_wait is called with the number in em->queue_fd.  Once in it, a thread
\* keeps the queue it found, whoever closes its number.
WaitCall(r) ==
  /\ run[r] = "head"
  /\ Goes(r, CASE behind["queue"] = "own"   -> "wait"
               [] behind["queue"] = "queue" -> "alien"
               [] OTHER                     -> "failed")
  /\ UNCHANGED <<machine, events, index, num, break, taken, request, destroy>>

\* Variant: the read end was never added to the queue.
ReportedWithoutBreak == {"app"}

\* The queue reports the read end while it is open and has a byte, or there is
\* no write end any more.
Reported ==
  {"app"} \cup
  (IF behind["read"] = "own" /\ (pipe # {} \/ behind["write"] # "own")
   THEN {"break"} ELSE {})

\* epoll_wait stores its batch in the array all runs share, and what an earlier
\* batch has left behind the new one stays.
Stores(r, n, batch) ==
  /\ events' = [i \in 1..MaxEvents |-> IF i <= n THEN batch[i] ELSE events[i]]
  /\ num' = [num EXCEPT ![r] = n]
  /\ index' = [index EXCEPT ![r] = 1]
  /\ Goes(r, IF array = "freed" THEN "undefined" ELSE "dispatch")
  /\ UNCHANGED <<machine, break, taken, request, destroy>>

WaitReturns(r) ==
  /\ run[r] = "wait"
  /\ \E n \in 1..MaxEvents : \E batch \in [1..n -> Reported] :
       /\ \A i, j \in 1..n : batch[i] = "break" /\ batch[j] = "break" => i = j
       /\ Stores(r, n, batch)

AlienReturns(r) ==
  /\ run[r] = "alien"
  /\ \E n \in 1..MaxEvents : Stores(r, n, [i \in 1..n |-> "alien"])

\* With EINTR.
WaitFails(r) ==
  /\ run[r] \in {"wait", "alien"}
  /\ Goes(r, "failed")
  /\ UNCHANGED <<machine, events, index, num, break, taken, request, destroy>>

AtEntry(r, kinds) ==
  /\ run[r] = "dispatch"
  /\ index[r] <= num[r]
  /\ events[index[r]] \in kinds

\* A handler is called; that of another machine, with this em.  The break loop
\* descriptor of another machine has none.
CallHandler(r) ==
  /\ AtEntry(r, {"app", "alien"})
  /\ index' = [index EXCEPT ![r] = @ + 1]
  /\ \/ run' = run
     \/ events[index[r]] = "alien" /\ Goes(r, "undefined")
  /\ UNCHANGED <<machine, events, num, break, taken, request, destroy>>

\* One byte is read from the pipe, or, if there is none, nothing where read()
\* may come back without.
Reads(r, without) ==
  /\ AtEntry(r, {"break"})
  /\ pipe = {} => without
  /\ \E bytes \in IF pipe = {} THEN {{}} ELSE { {t} : t \in pipe } :
       /\ pipe' = pipe \ bytes
       /\ taken' = [taken EXCEPT ![r] = @ \cup bytes]
  /\ break' = [break EXCEPT ![r] = TRUE]
  /\ index' = [index EXCEPT ![r] = @ + 1]
  /\ UNCHANGED <<up, written, array, behind, events, run, num, request, destroy>>

\* Variant: the result of read() is not looked at.
ReadBreakUnchecked(r) == Reads(r, TRUE)

\* From an empty pipe read() fails, and the run with it, unless there is no
\* write end any more: then it returns 0.
ReadBreak(r) == Reads(r, behind["write"] # "own")

ReadBreakFails(r) ==
  /\ AtEntry(r, {"break"})
  /\ Goes(r, "failed")
  /\ UNCHANGED <<machine, events, index, num, break, taken, request, destroy>>

BatchDone(r) ==
  /\ run[r] = "dispatch"
  /\ index[r] > num[r]
  /\ Goes(r, IF break[r] THEN "ok" ELSE "head")
  /\ UNCHANGED <<machine, events, index, num, break, taken, request, destroy>>

-----------------------------------------------------------------------------
(* event_machine_terminate.                                                *)

Answers(t, point) == request' = [request EXCEPT ![t] = point]

\* The checks.
TerminateCall(t) ==
  /\ request[t] = "idle"
  /\ Answers(t, IF written /\ behind["write"] # "closed" THEN "checked" ELSE "failed")
  /\ UNCHANGED <<machine, runs, destroy>>

\* write() with the number as it was loaded, perhaps before it was closed.  A
\* full pipe, EAGAIN, is a success without effect; one that nobody can read any
\* more is a SIGPIPE, which ends the process.
TerminateWrites(t) ==
  /\ request[t] = "checked"
  /\ \/ /\ behind["write"] = "own" /\ behind["read"] = "own"
        /\ pipe' = IF Cardinality(pipe) < PipeCapacity THEN pipe \cup {t} ELSE pipe
        /\ Answers(t, "done")
     \/ /\ behind["write"] = "own" /\ behind["read"] # "own"
        /\ pipe' = pipe
        /\ Answers(t, "killed")
     \/ /\ behind["write"] # "own"
        /\ pipe' = pipe
        /\ Answers(t, IF behind["write"] = "other" THEN "astray" ELSE "failed")
  /\ UNCHANGED <<up, written, array, behind, runs, destroy>>

\* em->break_loop_pipe[1] was loaded again, and is -1 by now.
TerminateFindsNone(t) ==
  /\ request[t] = "checked"
  /\ ~written
  /\ Answers(t, "failed")
  /\ UNCHANGED <<machine, runs, destroy>>

-----------------------------------------------------------------------------
(* event_machine_destroy.                                                  *)

Closed(n) == behind' = [behind EXCEPT ![n] = "closed"]

\* The queue is closed, and the call returns EM_ERROR_CLOSE.
DestroyClosesQueue ==
  /\ destroy = "queue"
  /\ Closed("queue")
  /\ destroy' = "failed"
  /\ UNCHANGED <<up, written, array, pipe, runs, request>>

\* em->events = NULL, free().
DestroyFrees ==
  /\ destroy = "free"
  /\ array' = "freed"
  /\ destroy' = "write"
  /\ UNCHANGED <<up, written, behind, pipe, runs, request>>

ClosesFirst(end) ==
  /\ destroy = "write"
  /\ Closed(end)
  /\ destroy' = "forget"
  /\ UNCHANGED <<up, written, array, pipe, runs, request>>

\* Variant: the two ends of the pipe are closed in the other order.
DestroyClosesReadFirst == ClosesFirst("read")

DestroyClosesWrite == ClosesFirst("write")

DestroyForgetsWrite ==
  /\ destroy = "forget"
  /\ written' = FALSE
  /\ destroy' = "read"
  /\ UNCHANGED <<up, array, behind, pipe, runs, request>>

\* With its two ends, the pipe is gone.
DestroyClosesRead ==
  /\ destroy = "read"
  /\ Closed("read")
  /\ pipe' = {}
  /\ destroy' = "done"
  /\ UNCHANGED <<up, written, array, runs, request>>

-----------------------------------------------------------------------------

Init ==
  /\ up \in BOOLEAN
  /\ written = TRUE
  /\ array = "allocated"
  /\ events \in [1..MaxEvents -> {"app"}]
  /\ behind = [n \in Numbers |-> IF n = "queue" /\ ~up THEN "closed" ELSE "own"]
  /\ pipe = {}
  /\ run = [r \in Runners |-> "idle"]
  /\ index = [r \in Runners |-> 1]
  /\ num = [r \in Runners |-> 0]
  /\ break = [r \in Runners |-> FALSE]
  /\ taken = [r \in Runners |-> {}]
  /\ request = [t \in Terminators |-> "idle"]
  /\ destroy = IF up THEN "queue" ELSE "free"

\* What a thread that runs the machine does of its own accord.
RunStep(r) ==
  \/ WaitCall(r)
  \/ CallHandler(r)
  \/ ReadBreak(r)
  \/ ReadBreakFails(r)
  \/ BatchDone(r)

RunAction(r) ==
  \/ RunCall(r)
  \/ RunStep(r)
  \/ WaitReturns(r)
  \/ AlienReturns(r)
  \/ WaitFails(r)

TerminateAction(t) ==
  TerminateCall(t) \/ TerminateWrites(t) \/ TerminateFindsNone(t)

DestroyAction ==
  \/ DestroyClosesQueue
  \/ DestroyFrees
  \/ DestroyClosesWrite
  \/ DestroyForgetsWrite
  \/ DestroyClosesRead

Next ==
  \/ \E r \in Runners : RunAction(r)
  \/ \E t \in Terminators : TerminateAction(t)
  \/ DestroyAction
  \/ \E n \in Numbers : Reuse(n) \/ Release(n)

Spec == Init /\ [][Next]_vars

\* epoll_wait reports the break loop pipe to r.
ReportsBreak(r) ==
  WaitReturns(r) /\ \E i \in 1..num'[r] : events'[i] = "break"

\* Threads in a run are scheduled, handlers return, and epoll does not pass over
\* the pipe for ever.  Other descriptors may have nothing to report, and nothing
\* is assumed of the calls that others may make.
FairSpec ==
  /\ Spec
  /\ \A r \in Runners : WF_vars(RunStep(r)) /\ SF_vars(ReportsBreak(r))

-----------------------------------------------------------------------------
(* Properties.                                                             *)

\* Every variable has its type.
TypeOK ==
  /\ up \in BOOLEAN
  /\ written \in BOOLEAN
  /\ array \in {"allocated", "freed"}
  /\ events \in [1..MaxEvents -> Entries]
  /\ behind \in [Numbers -> {"own", "closed", "other", "queue"}]
  /\ pipe \subseteq Terminators
  /\ run \in [Runners -> RunPoints]
  /\ index \in [Runners -> Nat \ {0}]
  /\ num \in [Runners -> 0..MaxEvents]
  /\ break \in [Runners -> BOOLEAN]
  /\ taken \in [Runners -> SUBSET Terminators]
  /\ request \in [Terminators -> {"idle", "checked", "done", "failed", "astray", "killed"}]
  /\ destroy \in {"queue", "free", "write", "forget", "read", "done", "failed"}

\* The bytes of the pipe are shared out among the runs: each run that ended
\* with EM_SUCCESS has read one that a successful event_machine_terminate wrote
\* and no other run has read, although the runs overwrite each other's batches
\* (event-machine.c, lines 333 to 341).
RunsAreRequested ==
  /\ \A r \in Runners :
       /\ run[r] = "ok" => taken[r] # {}
       /\ \A t \in taken[r] : request[t] = "done" /\ t \notin pipe
  /\ \A r, s \in Runners : r # s => taken[r] \cap taken[s] = {}

\* The writer of the break loop pipe never outlives its reader: whenever destroy
\* comes between the check of event_machine_terminate and its write(), the write
\* goes into a pipe with a read end or fails, and no SIGPIPE ends the process.
\* This is what closing the write end first is for (lines 290 to 307, 405 to
\* 415).
NoBrokenPipe == \A t \in Terminators : request[t] # "killed"

InProgress == { r \in Runners : run[r] \in InRun }

\* A run that is the only one in progress ends once a byte is in the pipe, even
\* if destroy has closed the queue it waits on: it is not left in epoll_wait.
\* The exception is a run that has strayed into the queue of somebody else.
RequestEndsRun ==
  \A r \in Runners :
    (pipe # {} /\ InProgress = {r}) ~> (InProgress # {r} \/ run[r] = "alien")

=============================================================================
