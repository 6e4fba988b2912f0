--------------------------- MODULE ShutdownProofs ---------------------------
(***************************************************************************)
(* Proofs about Shutdown, for any number of runs and requests, any batch   *)
(* size and any pipe capacity.                                             *)
(***************************************************************************)
EXTENDS Shutdown, TLAPS

\* The types of what the runs work on,
RunsType ==
  /\ events \in [1..MaxEvents -> Entries]
  /\ run \in [Runners -> RunPoints]
  /\ index \in [Runners -> Nat \ {0}]
  /\ num \in [Runners -> 0..MaxEvents]
  /\ break \in [Runners -> BOOLEAN]
  /\ taken \in [Runners -> SUBSET Terminators]

\* and of what all threads share, and the other threads.
RestType ==
  /\ up \in BOOLEAN
  /\ written \in BOOLEAN
  /\ array \in {"allocated", "freed"}
  /\ behind \in [Numbers -> {"own", "closed", "other", "queue"}]
  /\ pipe \subseteq Terminators
  /\ request \in [Terminators -> {"idle", "checked", "done", "failed", "astray", "killed"}]
  /\ destroy \in {"queue", "free", "write", "forget", "read", "done", "failed"}

\* A batch that is stored in em->events leaves an array of entries.
LEMMA StoresType ==
  ASSUME RunsType, RestType, NEW r \in Runners, NEW n \in 1..MaxEvents,
         NEW batch \in [1..n -> Entries], Stores(r, n, batch)
  PROVE  RunsType' /\ RestType'
<1> USE ShutdownAssumption DEF ShutdownAssumption
<1>1. events' \in [1..MaxEvents -> Entries]
  <2>1. \A i \in 1..MaxEvents : i <= n => i \in 1..n
    OBVIOUS
  <2>2. QED
    BY <2>1 DEF Stores, RunsType
<1>2. num' \in [Runners -> 0..MaxEvents] /\ index' \in [Runners -> Nat \ {0}]
  BY DEF Stores, RunsType
<1>3. run' \in [Runners -> RunPoints] /\ UNCHANGED <<break, taken>>
  BY DEF Stores, Goes, RunsType, RunPoints, InRun
<1>4. RestType'
  BY DEF Stores, RestType, machine
<1>5. QED
  BY <1>1, <1>2, <1>3, <1>4 DEF RunsType

\* The steps of event_machine_run preserve the types.
LEMMA RunActionType ==
  ASSUME RunsType, RestType, NEW r \in Runners, RunAction(r)
  PROVE  RunsType' /\ RestType'
<1>1. CASE WaitReturns(r)
  <2>1. Reported \subseteq Entries
    BY DEF Reported, Entries
  <2>2. PICK n \in 1..MaxEvents : \E batch \in [1..n -> Reported] : Stores(r, n, batch)
    BY <1>1 DEF WaitReturns
  <2>3. PICK batch \in [1..n -> Reported] : Stores(r, n, batch)
    BY <2>2
  <2>4. batch \in [1..n -> Entries]
    BY <2>1
  <2>5. QED
    BY <2>3, <2>4, StoresType
<1>2. CASE AlienReturns(r)
  <2>1. PICK n \in 1..MaxEvents : Stores(r, n, [i \in 1..n |-> "alien"])
    BY <1>2 DEF AlienReturns
  <2>2. [i \in 1..n |-> "alien"] \in [1..n -> Entries]
    BY DEF Entries
  <2>3. QED
    BY <2>1, <2>2, StoresType
<1>3. CASE RunCall(r) \/ WaitCall(r) \/ WaitFails(r) \/ ReadBreakFails(r) \/ BatchDone(r)
  <2>1. \E point \in RunPoints : Goes(r, point)
    BY <1>3 DEF RunCall, WaitCall, WaitFails, ReadBreakFails, BatchDone, RunPoints, InRun
  <2>2. UNCHANGED <<machine, events, index, num, break, taken, request, destroy>>
    BY <1>3 DEF RunCall, WaitCall, WaitFails, ReadBreakFails, BatchDone
  <2>3. QED
    BY <2>1, <2>2 DEF Goes, RunsType, RestType, machine
<1>4. CASE CallHandler(r)
  <2>1. run' = run \/ Goes(r, "undefined")
    BY <1>4 DEF CallHandler
  <2>2. run' \in [Runners -> RunPoints]
    BY <2>1 DEF Goes, RunsType, RunPoints
  <2>3. index' \in [Runners -> Nat \ {0}]
    BY <1>4 DEF CallHandler, RunsType
  <2>4. UNCHANGED <<machine, events, num, break, taken, request, destroy>>
    BY <1>4 DEF CallHandler
  <2>5. QED
    BY <2>2, <2>3, <2>4 DEF RunsType, RestType, machine
<1>5. CASE ReadBreak(r)
  <2>1. PICK bytes \in SUBSET Terminators :
          pipe' = pipe \ bytes /\ taken' = [taken EXCEPT ![r] = @ \cup bytes]
    BY <1>5 DEF ReadBreak, Reads, RestType
  <2>2. QED
    BY <1>5, <2>1 DEF ReadBreak, Reads, RunsType, RestType
<1>6. QED
  BY <1>1, <1>2, <1>3, <1>4, <1>5 DEF RunAction, RunStep

\* Every reachable state is well typed: the index of a run stays positive, and
\* its number of events within the array.
THEOREM ShutdownTypes == Spec => []TypeOK
<1>0. TypeOK <=> RunsType /\ RestType
  BY DEF TypeOK, RunsType, RestType
<1>1. Init => TypeOK
  BY ShutdownAssumption DEF ShutdownAssumption, Init, TypeOK, Entries, RunPoints, Numbers
<1>2. TypeOK /\ [Next]_vars => TypeOK'
  <2> SUFFICES ASSUME RunsType, RestType, [Next]_vars PROVE RunsType' /\ RestType'
    BY DEF TypeOK, RunsType, RestType
  <2>1. ASSUME NEW r \in Runners, RunAction(r) PROVE RunsType' /\ RestType'
    BY <2>1, RunActionType
  <2>2. ASSUME UNCHANGED runs PROVE RunsType'
    BY <2>2 DEF runs, RunsType
  <2>3. ASSUME NEW t \in Terminators, TerminateAction(t) PROVE RestType' /\ UNCHANGED runs
    BY <2>3 DEF TerminateAction, TerminateCall, TerminateWrites, TerminateFindsNone,
       Answers, RestType, machine
  <2>4. CASE DestroyAction
    <3>1. RestType'
      BY <2>4 DEF DestroyAction, DestroyClosesQueue, DestroyFrees, DestroyClosesWrite,
         ClosesFirst, DestroyForgetsWrite, DestroyClosesRead, Closed, RestType
    <3>2. UNCHANGED runs
      BY <2>4 DEF DestroyAction, DestroyClosesQueue, DestroyFrees, DestroyClosesWrite, ClosesFirst,
         DestroyForgetsWrite, DestroyClosesRead
    <3>3. QED
      BY <2>2, <3>1, <3>2
  <2>5. ASSUME NEW n \in Numbers, Reuse(n) \/ Release(n) PROVE RestType' /\ UNCHANGED runs
    BY <2>5 DEF Reuse, Release, RestType
  <2>6. CASE UNCHANGED vars
    BY <2>6 DEF vars, machine, runs, RunsType, RestType
  <2>7. QED
    BY <2>1, <2>2, <2>3, <2>4, <2>5, <2>6 DEF Next, runs, RunsType
<1>3. QED
  BY <1>1, <1>2, PTL DEF Spec

-----------------------------------------------------------------------------
(* A destroy that finds a queue stops there, and one that finds none has   *)
(* no runs beside it.                                                      *)

\* The machine has its pipe, whatever happens to its queue.
UpInv ==
  up => /\ destroy \in {"queue", "failed"}
        /\ behind["read"] = "own" /\ behind["write"] = "own"

\* A machine without a queue refuses to run.
DownInv == ~up => \A r \in Runners : run[r] \in {"idle", "failed"}

\* Bytes in the pipe were written, bytes that were taken are out of it, and
\* only one that was taken sets break_loop.
ShareInv ==
  /\ \A t \in pipe : request[t] = "done"
  /\ \A r \in Runners : break[r] => taken[r] # {}
  /\ RunsAreRequested

ShutdownInv == UpInv /\ DownInv /\ ShareInv

\* Initially nothing was requested and nothing read.
LEMMA ShutdownInit == Init => ShutdownInv
BY DEF Init, ShutdownInv, UpInv, DownInv, ShareInv, RunsAreRequested, Numbers

\* A step of a run that reads no byte.
LEMMA MovesOn ==
  ASSUME TypeOK, ShutdownInv, NEW r \in Runners, NEW point \in RunPoints,
         run' = run \/ (Goes(r, point) /\ (point = "ok" => break[r])),
         up \/ point = "failed",
         UNCHANGED <<machine, break, taken, request, destroy>>
  PROVE  ShutdownInv'
<1>1. UpInv'
  BY DEF ShutdownInv, UpInv, machine
<1>2. DownInv'
  BY DEF ShutdownInv, DownInv, machine, Goes, TypeOK
<1>3. ShareInv'
  <2>1. \A s \in Runners : run'[s] = "ok" => run[s] = "ok" \/ break[s]
    BY DEF Goes, TypeOK
  <2>2. QED
    BY <2>1 DEF ShutdownInv, ShareInv, RunsAreRequested, machine
<1>4. QED
  BY <1>1, <1>2, <1>3 DEF ShutdownInv

\* A step of a run that reads a byte: there is a pipe to read it from.
LEMMA ReadBreakShares ==
  ASSUME TypeOK, ShutdownInv, NEW r \in Runners, ReadBreak(r)
  PROVE  ShutdownInv'
<1>1. up
  BY DEF ShutdownInv, DownInv, ReadBreak, Reads, AtEntry, TypeOK
<1>2. behind["write"] = "own"
  BY <1>1 DEF ShutdownInv, UpInv
<1>3. PICK t \in pipe : pipe' = pipe \ {t} /\ taken' = [taken EXCEPT ![r] = @ \cup {t}]
  BY <1>2 DEF ReadBreak, Reads
<1>4. break' = [break EXCEPT ![r] = TRUE] /\ run' = run /\ request' = request
  BY DEF ReadBreak, Reads
<1>5. UpInv' /\ DownInv'
  BY <1>1 DEF ReadBreak, Reads, ShutdownInv, UpInv, DownInv
<1>6. \A s \in Runners : t \notin taken[s]
  BY <1>3 DEF ShutdownInv, ShareInv, RunsAreRequested
<1>7. \A s \in Runners : taken'[s] = IF s = r THEN taken[s] \cup {t} ELSE taken[s]
  BY <1>3 DEF TypeOK
<1>8. \A s \in Runners : break'[s] => break[s] \/ s = r
  BY <1>4 DEF TypeOK
<1>9. RunsAreRequested'
  <2>1. \A s \in Runners : run'[s] = "ok" => taken'[s] # {}
    BY <1>4, <1>7 DEF ShutdownInv, ShareInv, RunsAreRequested
  <2>2. \A s \in Runners : \A b \in taken'[s] : request'[b] = "done" /\ b \notin pipe'
    BY <1>3, <1>4, <1>7 DEF ShutdownInv, ShareInv, RunsAreRequested
  <2>3. ASSUME NEW s \in Runners, NEW q \in Runners, s # q
        PROVE  taken'[s] \cap taken'[q] = {}
    <3>1. taken[s] \cap taken[q] = {}
      BY <2>3 DEF ShutdownInv, ShareInv, RunsAreRequested
    <3>2. t \notin taken[s] /\ t \notin taken[q]
      BY <1>6
    <3>3. QED
      BY <1>7, <2>3, <3>1, <3>2
  <2>4. QED
    BY <2>1, <2>2, <2>3 DEF RunsAreRequested
<1>10. ShareInv'
  BY <1>3, <1>4, <1>7, <1>8, <1>9 DEF ShutdownInv, ShareInv
<1>11. QED
  BY <1>5, <1>10 DEF ShutdownInv

\* The steps of event_machine_run.
LEMMA RunActionKeeps ==
  ASSUME TypeOK, ShutdownInv, NEW r \in Runners, RunAction(r)
  PROVE  ShutdownInv'
<1> USE DEF RunPoints, InRun
<1>0. run[r] \in InRun => up
  BY DEF ShutdownInv, DownInv, TypeOK
<1>1. CASE RunCall(r)
  BY <1>1, MovesOn DEF RunCall
<1>2. CASE WaitCall(r)
  BY <1>0, <1>2, MovesOn DEF WaitCall
<1>3. ASSUME NEW n, NEW batch, Stores(r, n, batch), run[r] \in InRun
      PROVE  ShutdownInv'
  BY <1>0, <1>3, MovesOn DEF Stores
<1>4. CASE WaitReturns(r) \/ AlienReturns(r)
  BY <1>3, <1>4 DEF WaitReturns, AlienReturns
<1>5. CASE WaitFails(r) \/ ReadBreakFails(r)
  BY <1>5, MovesOn DEF WaitFails, ReadBreakFails
<1>6. CASE CallHandler(r)
  BY <1>0, <1>6, MovesOn DEF CallHandler, AtEntry
<1>7. CASE BatchDone(r)
  BY <1>0, <1>7, MovesOn DEF BatchDone
<1>8. QED
  BY <1>1, <1>2, <1>4, <1>5, <1>6, <1>7, ReadBreakShares DEF RunAction, RunStep

\* The steps of event_machine_terminate.
LEMMA TerminateActionKeeps ==
  ASSUME TypeOK, ShutdownInv, NEW t \in Terminators, TerminateAction(t)
  PROVE  ShutdownInv'
<1>0. request[t] \in {"idle", "checked"}
  BY DEF TerminateAction, TerminateCall, TerminateWrites, TerminateFindsNone
<1>1. \E point \in {"checked", "done", "failed", "astray", "killed"} :
        /\ Answers(t, point)
        /\ pipe' = pipe \/ (pipe' = pipe \cup {t} /\ point = "done")
  <2>1. CASE TerminateCall(t) \/ TerminateFindsNone(t)
    BY <2>1 DEF TerminateCall, TerminateFindsNone, machine
  <2>2. CASE TerminateWrites(t)
    BY <2>2 DEF TerminateWrites
  <2>3. QED
    BY <2>1, <2>2 DEF TerminateAction
<1>2. UNCHANGED <<up, written, array, behind, runs, destroy>>
  BY DEF TerminateAction, TerminateCall, TerminateWrites, TerminateFindsNone, machine
<1>3. UpInv' /\ DownInv'
  BY <1>1, <1>2 DEF ShutdownInv, UpInv, DownInv, Answers, TypeOK, runs
<1>4. \A r \in Runners : t \notin taken[r]
  BY <1>0 DEF ShutdownInv, ShareInv, RunsAreRequested
<1>5. \A s \in Terminators : s # t => request'[s] = request[s]
  BY <1>1 DEF Answers, TypeOK
<1>6. t \notin pipe
  BY <1>0 DEF ShutdownInv, ShareInv
<1>7. \A s \in pipe' : request'[s] = "done"
  BY <1>1, <1>5, <1>6 DEF Answers, TypeOK, ShutdownInv, ShareInv
<1>8. ShareInv'
  BY <1>1, <1>2, <1>4, <1>5, <1>7
     DEF ShutdownInv, ShareInv, RunsAreRequested, runs, TypeOK
<1>9. QED
  BY <1>3, <1>8 DEF ShutdownInv

\* The steps of event_machine_destroy.
LEMMA DestroyActionKeeps ==
  ASSUME TypeOK, ShutdownInv, DestroyAction
  PROVE  ShutdownInv'
<1>1. pipe' \subseteq pipe /\ UNCHANGED <<up, runs, request>>
  BY DEF DestroyAction, DestroyClosesQueue, DestroyFrees, DestroyClosesWrite, ClosesFirst,
     DestroyForgetsWrite, DestroyClosesRead
<1>2. UpInv'
  <2>1. CASE DestroyClosesQueue
    BY <2>1 DEF DestroyClosesQueue, Closed, ShutdownInv, UpInv, TypeOK, Numbers
  <2>2. CASE destroy \in {"free", "write", "forget", "read"}
    BY <1>1, <2>2 DEF ShutdownInv, UpInv
  <2>3. QED
    BY <2>1, <2>2 DEF DestroyAction, DestroyFrees, DestroyClosesWrite, ClosesFirst,
       DestroyForgetsWrite, DestroyClosesRead
<1>3. DownInv' /\ ShareInv'
  BY <1>1 DEF ShutdownInv, DownInv, ShareInv, RunsAreRequested, runs
<1>4. QED
  BY <1>2, <1>3 DEF ShutdownInv

\* Numbers that are the machine's own are not reused.
LEMMA ProcessKeeps ==
  ASSUME TypeOK, ShutdownInv, NEW n \in Numbers, Reuse(n) \/ Release(n)
  PROVE  ShutdownInv'
<1>1. UNCHANGED <<up, written, array, pipe, runs, request, destroy>>
  BY DEF Reuse, Release
<1>2. \A k \in Numbers : behind[k] = "own" => behind'[k] = "own"
  BY DEF Reuse, Release, TypeOK
<1>3. UpInv'
  BY <1>1, <1>2 DEF ShutdownInv, UpInv, Numbers
<1>4. QED
  BY <1>1, <1>3 DEF ShutdownInv, DownInv, ShareInv, RunsAreRequested, runs

\* The inductive invariant, with the types it rests on.
THEOREM ShutdownCorrect == Spec => []ShutdownInv
<1>1. TypeOK /\ ShutdownInv /\ [Next]_vars => ShutdownInv'
  <2> SUFFICES ASSUME TypeOK, ShutdownInv, [Next]_vars PROVE ShutdownInv'
    OBVIOUS
  <2>1. CASE UNCHANGED vars
    BY <2>1 DEF vars, machine, runs, ShutdownInv, UpInv, DownInv, ShareInv,
       RunsAreRequested
  <2>2. QED
    BY <2>1, RunActionKeeps, TerminateActionKeeps, DestroyActionKeeps, ProcessKeeps
       DEF Next
<1>2. QED
  BY <1>1, ShutdownInit, ShutdownTypes, PTL DEF Spec

\* Every run that ended with EM_SUCCESS has consumed a request of its own,
\* though any number of runs overwrite each other's batches.
THEOREM EveryRunIsRequested == Spec => []RunsAreRequested
<1>1. ShutdownInv => RunsAreRequested
  BY DEF ShutdownInv, ShareInv
<1>2. QED
  BY <1>1, ShutdownCorrect, PTL

-----------------------------------------------------------------------------
(* The ends of the pipe, with a queue or without.                          *)

\* While the write end is open destroy has not come to the read end, which has
\* a number that nobody else can get.
PipeInv ==
  /\ behind["write"] = "own" => destroy \in {"queue", "failed", "free", "write"}
  /\ destroy # "done" => behind["read"] = "own"
  /\ NoBrokenPipe

\* A terminate meets a pipe with both ends or without a write end.
LEMMA TerminateKeepsPipe ==
  ASSUME TypeOK, PipeInv, NEW t \in Terminators, TerminateAction(t)
  PROVE  PipeInv'
<1>1. behind["write"] = "own" => behind["read"] = "own"
  BY DEF PipeInv
<1>2. \E point \in {"checked", "done", "failed", "astray"} : Answers(t, point)
  BY <1>1 DEF TerminateAction, TerminateCall, TerminateWrites, TerminateFindsNone
<1>3. NoBrokenPipe'
  BY <1>2 DEF Answers, TypeOK, PipeInv, NoBrokenPipe
<1>4. UNCHANGED <<behind, destroy>>
  BY DEF TerminateAction, TerminateCall, TerminateWrites, TerminateFindsNone, machine
<1>5. QED
  BY <1>3, <1>4 DEF PipeInv

\* Destroy closes the write end, forgets it, and only then closes the other.
LEMMA DestroyKeepsPipe ==
  ASSUME TypeOK, PipeInv, DestroyAction
  PROVE  PipeInv'
<1> USE DEF PipeInv, Closed, TypeOK, Numbers
<1>0. UNCHANGED request
  BY DEF DestroyAction, DestroyClosesQueue, DestroyFrees, DestroyClosesWrite,
     ClosesFirst, DestroyForgetsWrite, DestroyClosesRead
<1>1. NoBrokenPipe'
  BY <1>0 DEF NoBrokenPipe
<1>2. CASE DestroyClosesQueue
  BY <1>1, <1>2 DEF DestroyClosesQueue
<1>3. CASE DestroyFrees \/ DestroyForgetsWrite
  BY <1>1, <1>3 DEF DestroyFrees, DestroyForgetsWrite
<1>4. CASE DestroyClosesWrite
  BY <1>1, <1>4 DEF DestroyClosesWrite, ClosesFirst
<1>5. CASE DestroyClosesRead
  BY <1>1, <1>5 DEF DestroyClosesRead
<1>6. QED
  BY <1>2, <1>3, <1>4, <1>5 DEF DestroyAction

\* Whatever destroy has found, and wherever it is between the check of a
\* terminate and its write(), nobody writes into a pipe that has no read end.
THEOREM WriterNeverOutlivesReader == Spec => []NoBrokenPipe
<1>1. Init => PipeInv
  BY DEF Init, PipeInv, NoBrokenPipe, Numbers
<1>2. TypeOK /\ PipeInv /\ [Next]_vars => PipeInv'
  <2> SUFFICES ASSUME TypeOK, PipeInv, [Next]_vars PROVE PipeInv'
    OBVIOUS
  <2>1. ASSUME UNCHANGED <<behind, destroy, request>> PROVE PipeInv'
    BY <2>1 DEF PipeInv, NoBrokenPipe
  <2>2. ASSUME NEW r \in Runners, RunAction(r) PROVE PipeInv'
    BY <2>1, <2>2 DEF RunAction, RunStep, RunCall, WaitCall, WaitReturns, AlienReturns,
       Stores, WaitFails, CallHandler, ReadBreak, Reads, ReadBreakFails, BatchDone, machine
  <2>3. ASSUME NEW n \in Numbers, Reuse(n) \/ Release(n) PROVE PipeInv'
    BY <2>3 DEF Reuse, Release, PipeInv, NoBrokenPipe, TypeOK, Numbers
  <2>4. CASE UNCHANGED vars
    BY <2>1, <2>4 DEF vars, machine
  <2>5. QED
    BY <2>2, <2>3, <2>4, TerminateKeepsPipe, DestroyKeepsPipe DEF Next
<1>3. PipeInv => NoBrokenPipe
  BY DEF PipeInv
<1>4. QED
  BY <1>1, <1>2, <1>3, ShutdownTypes, PTL DEF Spec

=============================================================================
