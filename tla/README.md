# Verification of the event machine

TLA+ modules, TLC runs and TLAPS proofs for the library in `src/`: a small event
loop on top of epoll or kqueue (`event-machine.c`) and timers on top of the loop
(`event-timer.c`), with one of its example programs, a TCP server. Paths and
line numbers below are those of the repository.

## 1. The system

| Part | State it keeps | Operations | Interacts with |
|---|---|---|---|
| Main loop | `em->events`, `num_events`, `i`, `break_loop` | `event_machine_run`, `event_machine_run_once` | the kernel through `epoll_wait`; handlers, which it calls back; the break loop pipe |
| Registration | the interest list of epoll | `event_machine_add`, `_delete`, `_modify`, `event_ctl` | descriptor storage; called by handlers while a batch is being dispatched |
| Descriptor storage | a map from file descriptor to `EM_event_descriptor`, supplied by the user | `insert`, `remove`, each optional | called by registration after epoll has changed |
| Termination | the bytes in the break loop pipe | `event_machine_terminate`, from any thread | the main loop |
| Lifecycle | `queue_fd`, `break_loop_pipe`, `events`, `max_events`, `do_free_events` | `event_machine_init`, `event_machine_destroy`, the entry checks of all other calls | the file descriptor table of the process, which it shares with everybody |
| Event timers | `Event_timer`, the timerfd behind it, `number_of_timeouts` | `event_timer_create`, `_start`, `_stop`, `_destroy`, `internal_timeout_handler` | registration; callbacks, which call the timer interface again |
| kqueue backend | as registration | the `USE_KQUEUE` branches of `event_ctl` and `event_wait` | as registration |
| TCP server | the listening socket, memory and socket of each connection | `main`, `accept_handler`, `connection_hadnler` of `example/tcp-server.c` | an application of the machine; its peers |
| Other examples | | `timer.c`, `stdin-stdout.c` | applications; not modelled on their own |

What makes these parts hard:

* **Handlers run in the middle of a batch.** `event_machine_run_once` follows
  the pointers `epoll_wait` has returned. A handler may delete, replace, close
  or free what a later entry points to, and file descriptors and memory are
  used again at once.
* **Three parties keep books of the same descriptors**: epoll, the storage and
  the application, which must know whose memory is whose. Every call that
  touches two of the books can fail between them.
* **Termination is a byte in a pipe**, written by any thread, read by whichever
  run is in progress or comes next; the pipe can be full; a run can fail with
  the byte unread or just read.
* **init fails at six places** and leaves the structure as it is;
  `event_machine_destroy` must release what there is, and all other calls must
  tell a machine they can use from one they must refuse, by looking at numbers
  that may belong to somebody else by now.
* **Nothing is locked.** `event_machine_destroy`, `event_machine_terminate` and
  `event_machine_run` may be in progress at the same time in several threads,
  each going by numbers and pointers it has loaded before; a number that was
  closed is soon somebody else's.
* **The TCP server reads from blocking sockets on edge triggered reports**, one
  `read()` for each: one too many stops the program, one too few leaves a
  connection unattended, and a peer may disconnect between the two.
* **A timer accumulates expirations**, and its callback is called once for each
  of them, from a count that was read before the first call. Callbacks start,
  stop and destroy timers.

What makes each part correct is the list of properties in section 4.

## 2. The modules

| Module | Models |
|---|---|
| `EventMachine` | the running machine: registration, storage, loop, terminate, and the application around them |
| `LoopContract` | what `event_machine_run` and `_terminate` promise each other; `EventMachine` implements it |
| `Lifecycle` | `event_machine_init`, `_destroy` and the entry checks, on a shared file descriptor table |
| `Shutdown` | several runs, requests to terminate and a destroy on one machine, at the grain of system calls |
| `TcpServer` | `example/tcp-server.c` and its peers, composed with `EventMachine` |
| `EventTimer` | the timers and the handler that calls their callbacks, on a reduced loop |
| `TimerInterval` | the arithmetic of `event_timer_start`, with the proof about it |
| `MCEventMachine`, `MCLifecycle`, `MCShutdown`, `MCTcpServer`, `MCEventTimer`, `MCTimerInterval` | instances for TLC |
| `EventMachineProofs`, `DispatchProofs`, `ContractProofs` | theorems about `EventMachine`: types; registration and dispatch; the contract |
| `LifecycleProofs`, `ShutdownProofs`, `TcpServerProofs`, `EventTimerProofs` | theorems about the module each is named for |

`TcpServer` EXTENDS `EventMachine` and drives its actions; `TcpServerProofs`
EXTENDS `TcpServer` and `DispatchProofs`. `EventMachine` refines `LoopContract`.
`Lifecycle`, `Shutdown` and `EventTimer` each look at the machine from one side
and reduce the others to what that side can tell.

### EventMachine and the code

`interest[fd]` is the `data.ptr` epoll holds for `fd`; `stored[fd]` the entry of
the descriptor storage; `pipe` the number of bytes in the break loop pipe;
`events` and `next` the batch and `i`; `breakLoop` the local variable of that
name in `event_machine_run`. `loop` is the control point of the one thread that
runs the machine: *ready / finished / failed* outside `event_machine_run`,
*wait* in `epoll_wait`, *dispatch* at the head of the for loop, *handler* in a
handler, *undefined* once the loop has followed a pointer to memory that was
freed. `owner[ed]` is the application's view of the memory of a descriptor:
`"nobody"` (not allocated), `"app"`, or `"em"` once a call that took it has
succeeded.

`Add`, `Delete` and `Modify` are the three registration calls, each one step.
They are called by the thread that runs the loop, so nothing of the loop can
come between their parts; what other threads do at the same time is only
`Terminate`, which touches the pipe alone. Their disjuncts are the exits of the
functions: refused before anything has changed (the entry checks and a failing
`epoll_ctl`), success, and failure of `insert` or `remove` after epoll has
changed. A `remove` that fails may or may not hand out an entry, as the comment
in lines 499 to 503 says. Where the storage has no `remove` the application must
keep track of its descriptors itself, and in the model it does.

What handlers and storage may do is set by `Liberties`:

* `"touch_peer"`: a handler deletes, modifies or closes a descriptor other than
  the one it was called for;
* `"close_registered"`: a file descriptor is closed while it is registered;
* `"storage_fails"`: `insert` or `remove` fails for a reason of its own, not
  only because of a duplicate or a missing entry.

A storage that fails like that, behind an `epoll_ctl()` that has been done,
leaves the books apart: a descriptor registered that the caller was told nobody
took, or an entry without a registration. `OwnershipExact` and `StorageAgrees`
do not hold then; `HandedOverIsStored`, that what was reported as a success is
in both books, does.

Assumed of the application besides: it hands over only descriptors that are not
in use (`event-machine.h`, lines 436 to 437), passes `event_machine_modify` the
file descriptor that is in the descriptor (lines 446 to 447), does not run a
machine from one of its own handlers, and handlers return. A storage that can
remove can also insert. The mask of events is left out but for `EPOLLET`: a
descriptor is ready or it is not, and one in `Edge` is ready only once for what
has arrived (`WaitReturns` takes it out of `input`).

`Kqueue` chooses the build. With `USE_KQUEUE`, `event_ctl` ignores its operation
and passes `EV_ADD` (line 140): an add for a descriptor that is registered
replaces it without an error, and a delete, whose filter is 0, never applies.
`CtlApplies` says so. A kqueue tells its entries apart by descriptor and filter;
since masks are left out, a descriptor has one filter in the model, and an add or
modify that changes it, which leaves the old entry beside the new one, is not
modelled. What epoll and storage promise each other
(`OwnershipExact`, `StorageAgrees`) does not hold there, since nothing can be
unregistered except by `close()`; what a run owes to a request does.

### Lifecycle and the code

`fds` is the file descriptor table of the process: what is behind each number.
The kernel hands out the lowest free number; `OpenOther` and `CloseOther` are
the rest of the process. `em[m]` is the structure with the fields that matter,
`heap` the arrays that `malloc` returned and nobody has freed, `flags` the flags
of the two ends of the pipe, `phase` what the application knows from return
values. One action for each exit of `event_machine_init` (`InitFailsAtPipe`,
`InitFailsAtFcntl`, `InitFailsAtQueue`, `InitReachesCtl`), each doing everything
the code has done by then, `malloc` failing included; two for
`event_machine_destroy`, with and without a queue. With `Careful` the
application calls init only on a fresh structure or after a destroy that
succeeded, and leaves a machine alone whose destroy reported an error. Calls on
machines are sequential here.

Where `pipe2()` is not used, line 221 passes `FD_CLOEXEC` to `F_SETFL`, which
ignores it, against the comment in line 209. `PipeFlags` has it so: the ends of
the pipe do not block, and are not close-on-exec.

### Shutdown and the code

`up` says whether `event_machine_init` got as far as a queue; if not, destroy
goes on to free and close, and if so it stops at line 272. `behind[n]` is what
the number of the queue, or of an end of the pipe, refers to now; `Reuse` and
`Release` are the rest of the process, which gets a number that was closed, as a
queue of its own or as anything else. `array` is the memory behind `em->events`
and `events` its contents, which all runs share: `epoll_wait` in one thread
stores over what another is dispatching. `run`, `index`, `num` and `break` are
the locals of each run, `taken` the bytes it has read; bytes are named for the
thread that wrote them, so that a property can say whose they are.

A step is one system call with what the thread loads before it. `RunCall` and
`TerminateCall` are the checks of lines 357 to 379 and 395 to 412, `WaitCall`
and `WaitReturns` the two ends of `epoll_wait`: a thread that is inside keeps
the queue it has found, although its number is closed. `TerminateWrites` uses
the number as it was loaded, `TerminateFindsNone` the field as it is by then.
`"alien"` is a run that waits on the queue of somebody else; the entries it gets
have handlers of another machine, called with this `em`, or none at all
(`"undefined"`). Threads call one function once.

What the comments in lines 265 and 277 to 281 expect is not what happens. They
have a run that is in progress fail, woken by the `close()` of its queue or
stopped by a null pointer in `em->events`. A thread that is blocked in
`epoll_wait` is not woken, and one that has passed its checks has loaded the
pointer. A run does not meet a freed array only because it needs a machine with
a queue, and of such a machine destroy returns at line 272 before it frees
anything: this follows from that one return, would not survive its repair, and
is therefore no property here. What is one is that a request still ends a run
whose queue was closed under it (`RequestEndsRun`).

Where init has failed to create a queue, destroy does go on, and other threads
may be between the check of `event_machine_terminate` and its `write()`. Such a
byte can reach a descriptor that was given the number meanwhile (`"astray"`):
nothing in the code prevents it. What the order in lines 290 to 307 achieves,
the write end closed before the read end, is `NoBrokenPipe`: in the other order
the `write()` would find its pipe without a reader, and the SIGPIPE would end
the process (`"killed"`).

With two runs in progress a request can be lost: one run may read two bytes, or
read one and then fail, and the entry of the pipe may be overwritten by the
batch of the other. This is why `RequestEndsRun` is about a run on its own.

### TcpServer and the code

`at` is the next thing `main` or a handler does: *listen, add, run* in `main`,
*serve* in the loop, *accept, register* in `accept_handler`, *delete, close,
free* in `connection_hadnler`, *return* at the end of either. The actions of
`EventMachine` are used as they are: `Add` in `MainAdds` and `Register`,
`LoopStep` in `Serve`, `Delete` and `Close` in `ConnectionDeleted` and
`ConnectionClosed`. Memory from `malloc()` is a descriptor for the number it
will watch. `gone` is the part of the reported mask the handler looks at in line
84; it is fixed when `epoll_wait` returns and may be out of date when the
handler reads. `peer`, `unread` and `backlog` are the other side: it connects,
sends, shuts down and resets at any time.

`oldEd` is `old_ed` of line 86. It is not initialised, and
`event_machine_delete` writes it only when a storage has found an entry, so it
holds either value. Behind `"wild"` the model stops (`"undefined"`), as it does
in a `read()` that nothing ends (`"blocked"`) and after `exit()`; the runs of
this module therefore do not check for deadlock. Nobody calls
`event_machine_terminate`, so that lines 204 to 221 are never reached.

After a reset, what had arrived before it can still be read; then `read()` fails
once, and the handler returns in line 74 before it looks at `EPOLLERR`. The
failing `read()` uses the error up. If the reset was behind the report, it has
raised an edge of its own, which is still reported, and the next `read()`
returns 0 (`peer` is `"dead"` in between). If the mask of this very report had
it, nothing is reported again: the connection is `"abandoned"` and stays open.
This is the one exception in `ShutdownIsKnown` and `DisconnectIsHandled`.

What the model shows besides, without a property: of what a peer sends in two
parts, the second may wait unread until something else arrives; an `accept()`
that fails for want of descriptors is tried again at once and for ever; the
memory of a connection whose `accept()` or add has failed, and its socket in the
second case (`lost`), are not released.

### EventTimer and the code

`fds[n]` is the timer whose timerfd has the number `n`; since
`event_timer_create` and `_destroy` leave a timerfd open exactly when it is
registered, one variable stands for both. `timerFd[t]` is the number in the
structure, `armed` and `count` the state of the timerfd, `left` what remains of
`number_of_timeouts`, `batch` the entries of a batch that are still to come, in
any order. `owed` is book-keeping for the properties: how many expirations no
callback was called for yet, without those that were dropped unread when the
timer was set. `Due(t)` is how many calls are to come for what
`internal_timeout_handler` has read, and which setting the timer again does not
take back. `phase` is the application's view: `"undestroyed"` after an
`event_timer_destroy` that reported an error. `BatchAborted` is a run that ends
in the middle of a batch.

Callbacks start and stop any timer, their own included, whether it has calls to
come or not, and in its last call they may destroy it. The liberties are a
callback that destroys its own timer while it is to be called again
(`"destroy_self"`), and one that destroys another timer (`"destroy_peer"`). A
step that would use a structure after its destruction, or make the assertion in
line 75 fail, leads to `"undefined"`, where the model stops; the runs with
liberties therefore do not check for deadlock.

## 3. The runs

| Run | Configuration | Result |
|---|---|---|
| core | `MCCore` | `BatchFresh`, `NoUseAfterFree`, `OwnershipExact`, `StorageAgrees`, `TerminateStopsRun`, `NoEventLost`, `ReadyIsServed` hold when handlers keep to their own file descriptor and the storage does not fail of its own |
| liberties | `MCLiberties` | `TypeOK`, `HandedOverIsStored`, `KeepsContract` hold whatever application and storage do, in the build on kqueue |
| forget | `MCForget` | **violated**: `DeletedIsForgotten` |
| lifecycle | `MCLifecycle` | `TypeOK`, `EventsOwned`, `OwnDescriptors`, `AcceptsOwnOnly`, `ReleasedLeavesNothing`, `TerminateNeverBlocks` |
| destroy_leak | `MCDestroyLeak` | **violated**: `DestroyCleansUp` |
| shutdown | `MCShutdown` | `RunsAreRequested`, `NoBrokenPipe`, `RequestEndsRun` |
| tcp_server | `MCTcpServer` | `NeverBlocked`, `NoneForgotten`, `ShutdownIsKnown`, `RespectsMachine`, `DisconnectIsHandled` |
| tcp_old_null | `MCTcpOldNull` | **violated**: `OldIsNull` |
| timer | `MCTimer` | `ExpirationsAccounted`, `DestroyedIsNotUsed`, `ExpirationIsHandled` for callbacks that start and stop any timer and destroy none but their own, in its last call |
| timer_liberties | `MCTimerLiberties` | `TypeOK`, `DescriptorsExact` whatever callbacks do |
| timer_destroy_self | `MCTimerDestroySelf` | **violated**: `DestroyedIsNotUsed` |
| interval_msec | `MCMsec` | **violated**: `SetAsAsked` |

The violated ones state what a comment or the documentation says and show where
the code does something else:

* `event-machine.c:270` has a semicolon after the condition, so that
  `event_machine_destroy` of any machine with a queue closes the queue and
  returns `EM_ERROR_CLOSE`. Pipe and events are left behind, against
  `event-machine.h:326` (destroy_leak). `queue_fd` keeps its number too, against
  the comment in line 265: once that number belongs to another descriptor, the
  entry checks let calls through to it, and a second destroy closes it. This is
  why most properties of `Lifecycle` hold for a careful application only.
* `event_machine_delete` without a storage leaves `*old_ed` as it was, where
  `event-machine.h:410` promises NULL; the TCP server frees through it
  (tcp_old_null).
* `event_machine_delete` does not make the machine forget a descriptor whose
  entry is still to come in the present batch, against `event-machine.h:405` to
  408 (forget). It does for handlers that spare what is still to come: the run
  core shows that no stale pointer arises as long as handlers keep to their own
  file descriptor, and `SparedIsForgotten` proves the least that is needed.
* `internal_timeout_handler` goes on with the count it has read after the
  callback has destroyed the timer, against `example/timer.c:111`
  (timer_destroy_self). A callback that restarts or stops a timer with several
  expirations is safe, but is called again at once for those that were read,
  although the timer is stopped or set to expire once (`event-timer.h:164`); that
  they are neither lost nor multiplied is in `ExpirationsAccounted`.
* `event-timer.c:169` computes microseconds for a field of nanoseconds, against
  `event-timer.h:163` (interval_msec).

An `event_timer_destroy` that fails leaves its number in the structure, against
`event-timer.h:205`; the model has this (`phase` is `"undestroyed"`, `timerFd`
is unchanged) and the application never uses such a structure again except for
`event_timer_create`.

**Bounds.** Two file descriptors, the first with two descriptor structures, are
enough for a handler to meddle with a peer, for `modify` to exchange structures
and for numbers to be used again. One of the two is edge triggered in `MCCore`.
Batches of two hold two of the three entries there are, so that ready
descriptors and the break loop compete for places; in `MCForget` they hold all
three. A pipe of two bytes can be empty, full and in between (`PipeCapacity`).
Two machines on five numbers (`MaxFd`; four in `MCDestroyLeak`) let a machine
lose a number to the other or to the rest of the process, and let `pipe` and the
queue run out of numbers at each point. Two runs and two requests are enough for
runs to overwrite each other's batches and to compete for bytes, and a pipe of
one byte for a request to find it full (`MCShutdown`). Two connections, a
backlog of two and two buffers that wait (`Backlog`, `MaxUnread`) let the TCP
server run out of numbers, use them again within a batch, and be interrupted by
its peers at each of its steps. Three timers with up to two accumulated
expirations (`MaxExpirations`) give the handler a second round, and batches of
two make the timers compete; where callbacks destroy each other, a failed
destroy leaves a number that the next timer is given. Timers are
interchangeable, and timer_liberties, which checks invariants only, uses the
symmetry; the runs with liveness use none. `MCTimerInterval` takes the
boundaries of `int32_t` (without its least value, to stay within TLC's
integers), of whole seconds, and zero.

**Fairness.** `EventMachine`: the thread that runs the machine is scheduled
(weak fairness of the loop's steps), handlers return (weak fairness), and
`epoll_wait` does not pass over a ready descriptor for ever: the kernel takes
from the head of its ready list and puts level triggered descriptors back at its
tail (strong fairness of being reported). Nothing is assumed of calls to
`event_machine_terminate`, of input, or of failures; a run that fails satisfies
both liveness properties by having ended. The strong fairness is what an edge
triggered descriptor needs too, which leaves the ready list once it is reported.
`Shutdown`: threads in a run go on (weak fairness of `RunStep`), and
`epoll_wait` does not pass over the pipe for ever (strong fairness of reporting
it); other descriptors may never have anything to report, and nothing is assumed
of the calls to terminate and destroy. `TcpServer`: the process is scheduled,
and `epoll_wait` passes nothing over for ever; nothing is assumed of the peers.
`EventTimer` assumes the same as `EventMachine`, and that the application runs
the machine again after a failure; `ExpirationIsHandled` exempts behaviours in
which runs fail for ever.

## 4. Properties

* `BatchFresh`: every entry of the batch that is still to be dispatched points
  to the descriptor that is registered now for its file descriptor.
* `NoUseAfterFree`: the loop never follows a pointer to freed memory.
* `OwnershipExact`: a descriptor is the machine's, for the application, exactly
  if epoll holds it: no call that failed has left it registered, none that
  succeeded has lost it.
* `StorageAgrees`: a storage that removes holds what epoll holds.
* `HandedOverIsStored`: what a call has reported as a success is in epoll and in
  the storage, as long as it is registered, wherever calls of the storage fail.
* `KeepsContract`, `TerminateStopsRun`: refinement of `LoopContract`, with
  `requests` the bytes in the pipe plus the one that a run has read but not
  ended on yet. Two bytes end two runs; a byte in a pipe that is full is not
  needed.
* `NoEventLost`: a descriptor that has something to report, or was reported in
  the batch, stays so until its handler is entered, a handler of its file
  descriptor runs, it is registered no more, or the run breaks off in the middle
  of a batch. For an edge triggered descriptor, which epoll reports once, this
  is what a lost entry would break.
* `ReadyIsServed`: a descriptor that stays ready has its handler called.
* `EventsOwned`: `em->events` never dangles, nothing of the user's is freed.
* `OwnDescriptors`: the numbers of a machine that is up are its own, though
  numbers are used again.
* `AcceptsOwnOnly`: no call gets past its entry checks to a foreign descriptor,
  until destroy has reported an error; whatever was reported, no run gets past
  them without an array (`malloc()` may have failed), and terminate reaches the
  machine's own pipe or none.
* `ReleasedLeavesNothing`: a destroy that succeeds has found all there was.
* `TerminateNeverBlocks`: the write end of a machine that is up does not block.
* `RunsAreRequested`: each run that ended well has read a byte that no other run
  has read, and that a successful terminate wrote, though runs share the array
  and the machine may be destroyed meanwhile.
* `NoBrokenPipe`: terminate never writes into a pipe without a reader, although
  it checks the number and writes to it in two steps, and destroy may come
  between them.
* `RequestEndsRun`: a run on its own ends once a byte is in the pipe, although
  destroy has closed the queue it waits on.
* `RespectsMachine`: the TCP server is a behaviour of `EventMachine` without
  liberties: it deletes before it closes, and touches nothing but its own.
* `NeverBlocked`: no `read()` of the server is left waiting.
* `NoneForgotten`: each open connection is watched, or its add has failed, or a
  handler is at work on it.
* `ShutdownIsKnown`: of a connection that was shut down or reset a report is
  still to come, or its handler is, with a mask that says so, or it is about to
  be closed: the mask is older than the `read()`, and no disconnect slips
  between. Excepted is a `read()` that fails behind a mask that says so.
* `DisconnectIsHandled`: a connection that was shut down or reset is closed in
  the end, with the same exception.
* `ExpirationsAccounted`: each expiration of a timer is waiting to be read or has
  one call to come, and nothing else has, also when its callback sets it again;
  setting it drops what waits to be read, and only that.
* `DescriptorsExact`: the open timerfds are those of the timers in use.
* `ExpirationIsHandled`: the callback of an expired timer is called in the end.
* `OrderKept`: a longer request gives a longer time; only zero disarms (proved,
  not model-checked).

## 5. The proofs

All theorems hold for every value of the constants that the named assumptions
allow (any number of descriptors, machines, timers, any batch size and pipe).

* **Types** (`TypeCorrect`, `LifecycleTypes`, `ShutdownTypes`,
  `TimersTypeCorrect`): `TypeOK` is inductive as it
  stands; for the machine that a batch stays a sequence of descriptors, for the
  timers that `number_of_timeouts` stays within its bounds.
* **Success** (`SuccessIsStored`), without any assumption about application and
  storage, on epoll and kqueue: `HandedOverIsStored` is inductive. A call that
  fails never makes anybody's memory the machine's, and an entry that goes does
  so with its registration, or with the descriptor taken back.
* **Registration** (`OwnershipIsExact`, `StorageIsExact`), on epoll, if the
  storage does not fail of its own and nothing registered is closed
  (`StorageWorks`): each of
  `OwnershipExact` and `StorageAgrees` needs the other. A `delete` returns what
  the storage holds, and this is what epoll has just dropped only if they agree;
  they keep agreeing because `insert` does not find a duplicate.
* **Dispatch** (`SparedBatchIsSafe`, `SparedIsForgotten`, `NoEventIsLost`;
  `BatchStaysFresh`, `NothingIsUsedAfterFree`), on epoll. The least that the
  machine needs is stated as a condition on the steps of the application:
  `LeavesPending`, no handler changes the registration of a file descriptor that
  the batch has an entry left for. From `StorageWorks` and
  `[][LeavesPending]_vars` the inductive invariant `DispatchInv` follows: each
  pending entry is registered, and hence owned by the machine, so that nobody
  frees it. Towards such handlers `event_machine_delete` keeps the promise
  that the run forget refutes in general. Handlers that keep to their own file
  descriptor (`Liberties = {}`) satisfy the condition (`DispatchCorrect`), since
  a batch mentions each file descriptor once: this gives `BatchStaysFresh` and
  `NothingIsUsedAfterFree`. `NoEventIsLost` needs neither, only that what is
  registered for a file descriptor is a descriptor of that file descriptor
  (`Registered`): an edge triggered descriptor then loses its input only to an
  entry of its own.
* **Contract** (`ContractIsKept`), without any such assumption: needs that
  `breakLoop` is set only while a batch is dispatched (`BreakInv`). Every step
  of the machine is then a step of `LoopContract` or a stuttering step; the byte
  moves from the pipe to `breakLoop` without changing `requests`.
* **Lifecycle** (`EventsAreOwned` for every order of calls;
  `OwnDescriptorsKept`, `OwnDescriptorsOnly`, `ReleaseIsComplete` for a careful
  application): the inductive invariant says for each phase which numbers and
  which memory a machine has, and that no two fields share a number. For a
  careful application `DestroyWithoutQueue` never meets a number that is not its
  own. `LeaksWhenItFails` makes the run destroy_leak exact: `DestroyCleansUp`
  holds in a state if and only if no machine's destroy has reported an error.
  It needs that a machine gets its queue only after its pipe, and that nobody
  else closes the pipe of a machine that was left alone (`PipesAreKept`), which
  also gives `OwnDescriptorsOnly` its part about `event_machine_terminate`.
  `TerminateDoesNotBlock` holds for every order of calls: a machine is up
  only once both ends of its pipe have their flags.
* **Shutdown** (`EveryRunIsRequested`, `WriterNeverOutlivesReader`), for any
  number of threads: the inductive invariant `ShutdownInv` has one part for a
  machine that is up, where destroy gets no further than the queue; one for a
  machine that is not, where no run passes its checks; and one that shares the
  bytes out: each is in the pipe or with one run, and its writer is done. That a
  run which is about to end well has read a byte needs both of the first: only a
  pipe with its write end open can be trusted to return no 0.
  `WriterNeverOutlivesReader` needs, at each point of destroy, that a write end
  which is open has its read end; from where it stands in the order of closing,
  and because nobody gets the number of an end that is open.
* **TCP server**, for any number of connections, any batch size, backlog and
  amount of data.
  * `ServerIsDisciplined`, `ServerIsSafe`, `ServerLosesNoEvent`: every step of
    the server is a step of `EventMachine` or stutters. This needs that what is
    closed is not registered, which holds because the handler has just deleted
    it and a delete on epoll does not fail for a descriptor that is registered
    (`ServerInv`). The theorems about dispatch, whose assumptions
    `TcpServerAssumption` implies, then hold of the server.
  * `NoConnectionIsForgotten`: `WatchInv` adds to `NoneForgotten` that a
    connection about to be registered is not registered, since its number was
    not open before `accept()` returned it. `LostIsNeverClosed` shows the
    exception to be exact: a connection whose add has failed stays open and
    unwatched for ever (lines 140 to 145 do not close it), and no later handler
    closes it by mistake or is entered for it (`LostInv`).
  * `NoHandlerBlocks`: a connection is `Due` when it has input that was not
    reported, waits in the batch, or has had its handler entered and not read
    yet. `WorkInv` says that a `read()` of a connection that is due returns at
    once. Only its own handler takes from it, which runs once for each entry;
    the other handlers of the batch cannot make its number another
    connection's, because they do not close it; and after its `read()` it is due
    again only if something is left.
  * `NoShutdownIsMissed`: `ShutdownIsKnown` is inductive given the above. A
    shutdown or reset behind the report raises a new edge, which neither a
    `read()` that succeeds nor one that fails takes away.
* **Timers** (`DescriptorsAreExact` for all callbacks; `SparedTimersAreSafe`;
  `EveryExpirationAccounted`, `DestroyedIsLeftAlone`): `TimerInv` adds that a
  timer with calls to come is in use, that timers in a batch are in use, and
  that only timers in use have expirations. What callbacks have to spare is
  again stated as a condition on steps, `SparesTurn`: a callback destroys its
  own timer only in the last call for what was read, and destroys no other that
  waits in the batch. Nothing is asked of how it sets timers. Callbacks without
  liberties satisfy it (`TimersCorrect`).
* **Interval** (`OrderIsKept`, `SecondsAreExact`): for every set of integers as
  requests. A request that the kernel accepts is not negative, and on those
  `Expiration` is strictly increasing. The time that is set is the time that was
  asked for exactly when it is a whole number of seconds.

Only model-checked: everything under fairness (`TerminateStopsRun`,
`ReadyIsServed`, `RequestEndsRun`, `DisconnectIsHandled`,
`ExpirationIsHandled`), since liveness and `ENABLED` are beyond the proof
system. Of most of them the safety behind it is proved: `ContractIsKept`,
`NoEventIsLost`, `NoShutdownIsMissed` and `EveryExpirationAccounted` say that
what is to happen stays due; fairness then makes it happen. For
`RequestEndsRun`, which exempts a run that others share a pipe with or whose
queue number went to somebody else, no such statement is proved.

## 6. What is not modelled, and the plan

Not modelled:

* Registration by several threads. Between `epoll_ctl()` (line 457) and the call
  of the storage (line 464) another thread may change the same descriptor, and
  the two books then disagree. The interface names only
  `event_machine_terminate` as a call from elsewhere.
* `event_machine_modify` with the structure that is registered already, and
  masks of events other than `EPOLLET`, `EPOLLERR` and `EPOLLRDHUP`.
* The assertions that lines 318 to 320 and their like repeat the entry checks
  with, and null pointers as arguments: both end a call before it does anything.
* `Shutdown` on kqueue, where a `close()` of the queue does wake the waiting
  thread.
* `example/timer.c` and `example/stdin-stdout.c`: straight programs with one
  handler that terminates the machine. Each of their steps is one that
  `EventMachine` and `EventTimer` let an application take.
* `event-machine/result.h` and `result-internal.h` (names for numbers and
  conditions), the build files and the documentation files, which have no
  behaviour at run time.

What could follow, in order of importance:

1. `EventTimer` on `EventMachine`: the reduced loop shown to be implemented by
   the full one, as `TcpServer` is.
2. Modify with the structure that is registered already.
