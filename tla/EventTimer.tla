----------------------------- MODULE EventTimer -----------------------------
(***************************************************************************)
(* The timers of event-timer.c: event_timer_create, _start, _stop and      *)
(* _destroy, and internal_timeout_handler, which calls the callback of a   *)
(* timer once for each of its expirations.  The loop of the event machine  *)
(* is reduced to what a timer sees of it: batches of timers whose          *)
(* descriptors were readable, dispatched in any order (the details are in  *)
(* module EventMachine).                                                   *)
(***************************************************************************)
EXTENDS Integers, FiniteSets

CONSTANTS
  Timers,         \* Event_timer structures
  MaxFd,          \* timerfd_create has the numbers 0..MaxFd to give
  MaxEvents,      \* em->max_events
  MaxExpirations, \* bound: expirations a timer accumulates
  Liberties       \* what the application does that timers cannot withstand

AllLiberties ==
  { "destroy_self",  \* a callback that is to be called again destroys its timer
    "destroy_peer" } \* a callback destroys another timer

ASSUME EventTimerAssumption ==
  /\ "closed" \notin Timers
  /\ MaxFd \in Nat
  /\ MaxEvents \in Nat \ {0}
  /\ MaxExpirations \in Nat \ {0}
  /\ Liberties \subseteq AllLiberties

VARIABLES
  fds,      \* fds[n] is the timer whose timerfd has number n, or "closed"
  timerFd,  \* TIMER_FD(timer), -1 once it was shredded
  phase,    \* of a timer, as the application sees it: "none", "live", or
            \* "undestroyed" when event_timer_destroy returned an error
  armed,    \* timerfd: how it will expire
  count,    \* timerfd: expirations that were not read yet
  owed,     \* expirations that no callback was called for yet, without those
            \* that were waiting to be read when the timer was set again
  loop,     \* "idle", "dispatch", "callback", or "undefined" once memory that
            \* event_timer_destroy gave back was used, or an assertion failed
  batch,    \* timers whose entry in the batch is still to be dispatched
  current,  \* timer whose timeouts internal_timeout_handler is handling
  left      \* number_of_timeouts left after the present call of the callback

vars == <<fds, timerFd, phase, armed, count, owed, loop, batch, current, left>>

structVars == <<fds, timerFd, phase>>
kernelVars == <<armed, count, owed>>
loopVars   == <<loop, batch, current, left>>

Numbers == 0..MaxFd
Modes == {"off", "once", "periodic"}

-----------------------------------------------------------------------------
(* timerfd.                                                                *)

\* The timer whose timerfd has number n, if any.
Behind(n) == IF n \in Numbers THEN fds[n] ELSE "closed"

Free == { n \in Numbers : fds[n] = "closed" }

\* The calls of its callback that a timer has to come for what was read.
Due(t) == IF loop = "callback" /\ t = current THEN left ELSE 0

\* timerfd_settime() on the timerfd of t forgets the expirations that were not
\* read yet.
Set(t, m) ==
  /\ armed' = [armed EXCEPT ![t] = m]
  /\ count' = [count EXCEPT ![t] = 0]
  /\ owed'  = [owed  EXCEPT ![t] = Due(t)]

\* close(n), which may fail because n is closed already.
Close(n) ==
  /\ fds' = [k \in Numbers |-> IF k = n THEN "closed" ELSE fds[k]]
  /\ IF Behind(n) \in Timers THEN Set(Behind(n), "off") ELSE UNCHANGED kernelVars

Expire(t) ==
  /\ armed[t] # "off"
  /\ count[t] < MaxExpirations
  /\ count' = [count EXCEPT ![t] = @ + 1]
  /\ owed' = [owed EXCEPT ![t] = @ + 1]
  /\ armed' = [armed EXCEPT ![t] = IF @ = "once" THEN "off" ELSE @]
  /\ UNCHANGED <<structVars, loopVars>>

-----------------------------------------------------------------------------
(* What the application calls, outside the loop or in a callback.          *)

AppRuns == loop \in {"idle", "callback"}

\* Only a timer that was created, and that event_timer_destroy was not called
\* for, is used.
MaySet(t) == AppRuns /\ phase[t] = "live"

\* The last callback for what was read may do with its timer what it likes, as
\* that of a one-shot timer may that was not set again.
MayDestroy(t) ==
  /\ AppRuns /\ phase[t] = "live"
  /\ loop = "callback" =>
       IF t = current THEN left = 0 \/ "destroy_self" \in Liberties
       ELSE "destroy_peer" \in Liberties

\* timerfd_create() or event_machine_add() may fail; only after the latter is
\* the structure shredded.
Create(t) ==
  /\ AppRuns /\ phase[t] # "live"
  /\ \/ \E n \in Free :
          /\ \A k \in Free : n <= k
          /\ fds' = [fds EXCEPT ![n] = t]
          /\ timerFd' = [timerFd EXCEPT ![t] = n]
          /\ phase' = [phase EXCEPT ![t] = "live"]
     \/ /\ phase' = [phase EXCEPT ![t] = "none"]
        /\ timerFd' \in {timerFd, [timerFd EXCEPT ![t] = -1]}
        /\ UNCHANGED fds
  /\ Set(t, "off")
  /\ UNCHANGED loopVars

\* Starting with 0 msec stops; a negative msec and a closed number are refused.
Start(t, m) ==
  /\ MaySet(t)
  /\ Behind(timerFd[t]) \in Timers
  /\ Set(Behind(timerFd[t]), m)
  /\ UNCHANGED <<structVars, loopVars>>

Stop(t) ==
  /\ MaySet(t)
  /\ Behind(timerFd[t]) \in Timers
  /\ Set(Behind(timerFd[t]), "off")
  /\ UNCHANGED <<structVars, loopVars>>

\* Variant: an error of event_machine_delete is returned at once.
DestroyKeepsOpen(t) ==
  /\ MayDestroy(t)
  /\ \/ /\ Close(timerFd[t])
        /\ timerFd' = [timerFd EXCEPT ![t] = -1]
        /\ phase' = [phase EXCEPT ![t] = "none"]
     \/ /\ phase' = [phase EXCEPT ![t] = "undestroyed"]
        /\ UNCHANGED <<fds, timerFd, kernelVars>>
  /\ UNCHANGED loopVars

\* The descriptor is closed whether event_machine_delete fails or not, but
\* only a destroy without any error shreds the structure.
Destroy(t) ==
  /\ MayDestroy(t)
  /\ Close(timerFd[t])
  /\ \/ /\ Behind(timerFd[t]) \in Timers
        /\ timerFd' = [timerFd EXCEPT ![t] = -1]
        /\ phase' = [phase EXCEPT ![t] = "none"]
     \/ /\ phase' = [phase EXCEPT ![t] = "undestroyed"]
        /\ UNCHANGED timerFd
  /\ UNCHANGED loopVars

-----------------------------------------------------------------------------
(* The loop.                                                               *)

Ready == { t \in Timers : count[t] > 0 }

WaitReturns ==
  /\ loop = "idle"
  /\ \E some \in SUBSET Ready :
       /\ Cardinality(some) \in 1..MaxEvents
       /\ batch' = some
  /\ loop' = "dispatch"
  /\ UNCHANGED <<structVars, kernelVars, current, left>>

BatchDone ==
  /\ loop = "dispatch" /\ batch = {}
  /\ loop' = "idle"
  /\ UNCHANGED <<structVars, kernelVars, batch, current, left>>

\* event_machine_run_once fails and gives up on the rest of the batch.
BatchAborted ==
  /\ loop = "dispatch" /\ batch # {}
  /\ loop' = "idle"
  /\ batch' = {}
  /\ UNCHANGED <<structVars, kernelVars, current, left>>

\* Variant: number_of_timeouts is decremented before it is looked at.
OneLess(n) == n - 2

\* What is left of n timeouts once the callback is called for the first.
Rest(n) == n - 1

\* The callback of t is called for one of 1 + rest timeouts.
Call(t, rest) ==
  /\ loop' = "callback"
  /\ current' = t
  /\ left' = rest
  /\ owed' = [owed EXCEPT ![t] = @ - 1]

\* Variant: the handler returns early whatever read() has returned.
HandleIgnores(t) ==
  /\ loop = "dispatch" /\ t \in batch
  /\ phase[t] # "none"
  /\ LET u == Behind(timerFd[t]) IN
       /\ u \in Timers
       /\ count' = [count EXCEPT ![u] = 0]
  /\ batch' = batch \ {t}
  /\ UNCHANGED <<structVars, armed, owed, loop, current, left>>

\* internal_timeout_handler reads how often the timer has expired.
Handle(t) ==
  /\ loop = "dispatch" /\ t \in batch
  /\ phase[t] # "none"
  /\ LET u == Behind(timerFd[t]) IN
       /\ u \in Timers
       /\ count[u] > 0
       /\ Call(t, Rest(count[u]))
       /\ count' = [count EXCEPT ![u] = 0]
  /\ batch' = batch \ {t}
  /\ UNCHANGED <<structVars, armed>>

\* read() reports EAGAIN: the timer was set since it was reported.
HandleNothing(t) ==
  /\ loop = "dispatch" /\ t \in batch
  /\ phase[t] # "none"
  /\ Behind(timerFd[t]) \in Timers
  /\ count[Behind(timerFd[t])] = 0
  /\ batch' = batch \ {t}
  /\ UNCHANGED <<structVars, kernelVars, loop, current, left>>

\* The structure was given back, or its number is closed and read() fails.
HandleUndefined(t) ==
  /\ loop = "dispatch" /\ t \in batch
  /\ phase[t] = "none" \/ Behind(timerFd[t]) = "closed"
  /\ loop' = "undefined"
  /\ UNCHANGED <<structVars, kernelVars, batch, current, left>>

\* Variant: the callback is called until number_of_timeouts is negative.
GoesOnAtZero == left >= 0

\* The callback returns, and number_of_timeouts is looked at.
GoesOn == left > 0

\* If there are timeouts left, the loop looks at timer->callback again.
CallAgain ==
  /\ loop = "callback" /\ GoesOn
  /\ phase[current] # "none"
  /\ Call(current, left - 1)
  /\ UNCHANGED <<structVars, armed, count, batch>>

CallUndefined ==
  /\ loop = "callback" /\ GoesOn
  /\ phase[current] = "none"
  /\ loop' = "undefined"
  /\ UNCHANGED <<structVars, kernelVars, batch, current, left>>

HandlerReturns ==
  /\ loop = "callback" /\ ~GoesOn
  /\ loop' = "dispatch"
  /\ UNCHANGED <<structVars, kernelVars, batch, current, left>>

-----------------------------------------------------------------------------

\* The structures are not initialised before event_timer_create.
Init ==
  /\ fds = [n \in Numbers |-> "closed"]
  /\ timerFd \in [Timers -> Numbers \cup {-1}]
  /\ phase = [t \in Timers |-> "none"]
  /\ armed = [t \in Timers |-> "off"]
  /\ count = [t \in Timers |-> 0]
  /\ owed = [t \in Timers |-> 0]
  /\ loop = "idle"
  /\ batch = {}
  /\ current \in Timers
  /\ left = 0

AppStep(t) == Create(t) \/ (\E m \in Modes : Start(t, m)) \/ Stop(t) \/ Destroy(t)

LoopStep ==
  \/ WaitReturns
  \/ BatchDone
  \/ BatchAborted
  \/ \E t \in Timers : Handle(t) \/ HandleNothing(t) \/ HandleUndefined(t)
  \/ CallAgain
  \/ CallUndefined
  \/ HandlerReturns

Next ==
  \/ LoopStep
  \/ \E t \in Timers : AppStep(t) \/ Expire(t)

Spec == Init /\ [][Next]_vars

Reports(t) == WaitReturns /\ t \in batch'

\* The loop is run, handlers and callbacks return, and epoll_wait does not pass
\* over a timer for ever.  Nothing is assumed of the application's calls, of
\* expirations and of failures.
Fairness ==
  /\ WF_vars(LoopStep /\ ~BatchAborted)
  /\ \A t \in Timers : SF_vars(Reports(t))

FairSpec == Spec /\ Fairness

-----------------------------------------------------------------------------
(* Properties.                                                             *)

\* Every variable has its type.
TypeOK ==
  /\ fds \in [Numbers -> Timers \cup {"closed"}]
  /\ timerFd \in [Timers -> Numbers \cup {-1}]
  /\ phase \in [Timers -> {"none", "live", "undestroyed"}]
  /\ armed \in [Timers -> Modes]
  /\ count \in [Timers -> 0..MaxExpirations]
  /\ owed \in [Timers -> Int]
  /\ loop \in {"idle", "dispatch", "callback", "undefined"}
  /\ batch \subseteq Timers
  /\ current \in Timers
  /\ left \in 0..MaxExpirations

\* Every expiration of a timer is waiting to be read or has a call to come, and
\* nothing else has: none is lost, none is handled twice, and setting the timer
\* again, in a callback of its own or of another, or while it waits in a batch,
\* drops those that wait to be read and no other.  number_of_timeouts was read
\* before the callbacks: a callback that stops its own timer is called again
\* (event-timer.c, lines 68 to 82).
ExpirationsAccounted == \A t \in Timers : owed[t] = count[t] + Due(t)

\* The callback of a timer that has expired is called at some time, or the
\* timer is set again or destroyed, whatever its peers do, unless runs keep
\* failing for ever.
ExpirationIsHandled ==
  \/ []<><<BatchAborted>>_vars
  \/ \A t \in Timers :
       count[t] > 0 ~> owed[t] = 0 \/ (loop = "callback" /\ current = t)

\* The open timerfds are exactly those of the timers in use, each under the
\* number its structure has: whatever failed, none is lost and none is closed
\* behind the back of its timer.
DescriptorsExact ==
  /\ \A t \in Timers : phase[t] = "live" => Behind(timerFd[t]) = t
  /\ \A n \in Numbers : \A t \in Timers :
       fds[n] = t => phase[t] = "live" /\ timerFd[t] = n

\* "The memory it holds may be reused after event_timer_destroy()": the loop
\* does not use a timer that was destroyed.
DestroyedIsNotUsed == loop # "undefined"

=============================================================================
