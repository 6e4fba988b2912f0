-------------------------- MODULE EventTimerProofs --------------------------
(***************************************************************************)
(* Proofs about EventTimer: types, the file descriptors of timers whatever *)
(* callbacks do, and, for callbacks that spare the timers with calls still *)
(* to come, that every expiration is handled once and no timer is used     *)
(* after its destruction.                                                  *)
(***************************************************************************)
EXTENDS EventTimer, TLAPS

-----------------------------------------------------------------------------
(* Types.                                                                  *)

KernelType ==
  /\ armed \in [Timers -> Modes]
  /\ count \in [Timers -> 0..MaxExpirations]
  /\ owed \in [Timers -> Int]

StructType ==
  /\ fds \in [Numbers -> Timers \cup {"closed"}]
  /\ timerFd \in [Timers -> Numbers \cup {-1}]
  /\ phase \in [Timers -> {"none", "live", "undestroyed"}]

LoopType ==
  /\ loop \in {"idle", "dispatch", "callback", "undefined"}
  /\ batch \subseteq Timers
  /\ current \in Timers
  /\ left \in 0..MaxExpirations

\* Setting a timer preserves the types.
LEMMA SetType ==
  ASSUME KernelType, LoopType, NEW t \in Timers, NEW m \in Modes, Set(t, m)
  PROVE  KernelType'
<1>1. Due(t) \in Int
  BY EventTimerAssumption DEF EventTimerAssumption, Due, LoopType
<1> QED BY <1>1, EventTimerAssumption DEF EventTimerAssumption, KernelType, Set

\* Closing a number preserves the types.
LEMMA CloseType ==
  ASSUME KernelType, StructType, LoopType, NEW n \in Numbers \cup {-1}, Close(n)
  PROVE  /\ KernelType'
         /\ fds' \in [Numbers -> Timers \cup {"closed"}]
<1>1. fds' \in [Numbers -> Timers \cup {"closed"}]
  BY DEF Close, StructType
<1>2. CASE Behind(n) \in Timers
  <2>1. Set(Behind(n), "off")
    BY <1>2 DEF Close
  <2> QED BY <1>1, <1>2, <2>1, SetType DEF Modes
<1>3. CASE Behind(n) \notin Timers
  <2>1. UNCHANGED <<armed, count, owed>>
    BY <1>3 DEF Close, kernelVars
  <2> QED BY <1>1, <2>1 DEF KernelType
<1> QED BY <1>2, <1>3

\* A step that leaves the variables of one third alone preserves that third.
LEMMA KernelTypeUnchanged == KernelType /\ UNCHANGED kernelVars => KernelType'
BY DEF KernelType, kernelVars

LEMMA StructTypeUnchanged == StructType /\ UNCHANGED structVars => StructType'
BY DEF StructType, structVars

LEMMA LoopTypeUnchanged == LoopType /\ UNCHANGED loopVars => LoopType'
BY DEF LoopType, loopVars

\* What the application does preserves the types.
LEMMA AppStepType ==
  ASSUME KernelType, StructType, LoopType, NEW t \in Timers, AppStep(t)
  PROVE  KernelType' /\ StructType' /\ LoopType'
<1> USE KernelTypeUnchanged, StructTypeUnchanged, LoopTypeUnchanged
<1>1. CASE Create(t)
  <2>1. KernelType'
    BY <1>1, SetType DEF Create, Modes
  <2>2. StructType'
    BY <1>1 DEF Create, StructType, Free
  <2> QED BY <1>1, <2>1, <2>2 DEF Create
<1>2. ASSUME NEW m \in Modes, Start(t, m)
      PROVE  KernelType' /\ StructType' /\ LoopType'
  <2>1. KernelType'
    BY <1>2, SetType DEF Start
  <2> QED BY <1>2, <2>1 DEF Start
<1>3. CASE Stop(t)
  <2>1. KernelType'
    BY <1>3, SetType DEF Stop, Modes
  <2> QED BY <1>3, <2>1 DEF Stop
<1>4. CASE Destroy(t)
  <2>1. timerFd[t] \in Numbers \cup {-1}
    BY DEF StructType
  <2>2. KernelType' /\ fds' \in [Numbers -> Timers \cup {"closed"}]
    BY <1>4, <2>1, CloseType DEF Destroy
  <2>3. StructType'
    BY <1>4, <2>2 DEF Destroy, StructType
  <2> QED BY <1>4, <2>2, <2>3 DEF Destroy
<1> QED BY <1>1, <1>2, <1>3, <1>4 DEF AppStep

\* An expiration preserves the types.
LEMMA ExpireType ==
  ASSUME KernelType, StructType, LoopType, NEW t \in Timers, Expire(t)
  PROVE  KernelType' /\ StructType' /\ LoopType'
<1>1. KernelType'
  BY EventTimerAssumption DEF EventTimerAssumption, Expire, KernelType, Modes
<1> QED BY <1>1, StructTypeUnchanged, LoopTypeUnchanged DEF Expire

\* A step of the loop preserves the types.
LEMMA LoopStepType ==
  ASSUME KernelType, StructType, LoopType, LoopStep
  PROVE  KernelType' /\ StructType' /\ LoopType'
<1> USE KernelTypeUnchanged, StructTypeUnchanged
<1>1. CASE WaitReturns
  BY <1>1 DEF WaitReturns, Ready, LoopType
<1>2. CASE BatchDone \/ BatchAborted \/ HandlerReturns \/ CallUndefined
  BY <1>2 DEF BatchDone, BatchAborted, HandlerReturns, CallUndefined, LoopType
<1>3. ASSUME NEW t \in Timers, Handle(t)
      PROVE  KernelType' /\ StructType' /\ LoopType'
  <2>1. PICK u \in Timers :
          /\ count[u] > 0
          /\ Call(t, count[u] - 1)
          /\ count' = [count EXCEPT ![u] = 0]
    BY <1>3 DEF Handle, Rest
  <2>2. KernelType'
    BY <1>3, <2>1, EventTimerAssumption
       DEF EventTimerAssumption, Handle, Call, KernelType
  <2>3. left' \in 0..MaxExpirations
    BY <2>1, EventTimerAssumption DEF EventTimerAssumption, Call, KernelType
  <2>4. LoopType'
    BY <1>3, <2>1, <2>3 DEF Handle, Rest, Call, LoopType
  <2> QED BY <1>3, <2>2, <2>4 DEF Handle, Rest
<1>4. ASSUME NEW t \in Timers, HandleNothing(t) \/ HandleUndefined(t)
      PROVE  KernelType' /\ StructType' /\ LoopType'
  BY <1>4 DEF HandleNothing, HandleUndefined, LoopType
<1>5. CASE CallAgain
  <2>1. KernelType'
    BY <1>5 DEF CallAgain, GoesOn, Call, KernelType, LoopType
  <2>2. LoopType'
    BY <1>5, EventTimerAssumption
       DEF EventTimerAssumption, CallAgain, GoesOn, Call, LoopType
  <2> QED BY <1>5, <2>1, <2>2 DEF CallAgain
<1> QED BY <1>1, <1>2, <1>3, <1>4, <1>5 DEF LoopStep

\* Timers are well typed, whatever liberties callbacks take: in particular
\* number_of_timeouts never falls below zero.
THEOREM TimersTypeCorrect == Spec => []TypeOK
<1>1. Init => TypeOK
  BY EventTimerAssumption DEF EventTimerAssumption, Init, TypeOK, Modes
<1>2. TypeOK /\ [Next]_vars => TypeOK'
  <2> SUFFICES ASSUME KernelType, StructType, LoopType, [Next]_vars
               PROVE  KernelType' /\ StructType' /\ LoopType'
    BY DEF TypeOK, KernelType, StructType, LoopType
  <2>1. CASE UNCHANGED vars
    BY <2>1 DEF KernelType, StructType, LoopType, vars
  <2> QED BY <2>1, LoopStepType, AppStepType, ExpireType DEF Next
<1> QED BY <1>1, <1>2, PTL DEF Spec

-----------------------------------------------------------------------------
(* File descriptors.                                                       *)

LEMMA CreateDescriptors ==
  ASSUME TypeOK, DescriptorsExact, NEW t \in Timers, Create(t)
  PROVE  DescriptorsExact'
<1>1. phase[t] # "live" /\ \A n \in Numbers : fds[n] # t
  BY DEF Create, DescriptorsExact
<1>2. ASSUME NEW n \in Free,
             fds' = [fds EXCEPT ![n] = t],
             timerFd' = [timerFd EXCEPT ![t] = n],
             phase' = [phase EXCEPT ![t] = "live"]
      PROVE  DescriptorsExact'
  BY <1>1, <1>2, EventTimerAssumption DEF EventTimerAssumption, TypeOK, DescriptorsExact, Behind, Free
<1>3. ASSUME phase' = [phase EXCEPT ![t] = "none"],
             timerFd' \in {timerFd, [timerFd EXCEPT ![t] = -1]},
             fds' = fds
      PROVE  DescriptorsExact'
  BY <1>1, <1>3 DEF TypeOK, DescriptorsExact, Behind
<1> QED BY <1>2, <1>3 DEF Create

LEMMA DestroyDescriptors ==
  ASSUME TypeOK, DescriptorsExact, NEW t \in Timers, Destroy(t)
  PROVE  DescriptorsExact'
<1>1. phase[t] = "live" /\ timerFd[t] \in Numbers /\ fds[timerFd[t]] = t
  BY EventTimerAssumption DEF EventTimerAssumption, Destroy, MayDestroy, DescriptorsExact, Behind
<1>2. fds' = [k \in Numbers |-> IF k = timerFd[t] THEN "closed" ELSE fds[k]]
  BY DEF Destroy, Close
<1>3. \A n \in Numbers : fds'[n] # t
  BY <1>1, <1>2, EventTimerAssumption DEF EventTimerAssumption, DescriptorsExact
<1>4. \A u \in Timers \ {t} : timerFd'[u] = timerFd[u] /\ phase'[u] = phase[u]
  BY DEF Destroy, TypeOK
<1>5. phase'[t] # "live"
  BY DEF Destroy, TypeOK
<1>6. \A u \in Timers \ {t} : phase[u] = "live" => timerFd[u] # timerFd[t]
  BY <1>1 DEF DescriptorsExact, Behind
<1> QED BY <1>1, <1>2, <1>3, <1>4, <1>5, <1>6, EventTimerAssumption
        DEF EventTimerAssumption, TypeOK, DescriptorsExact, Behind

LEMMA DescriptorsStep ==
  TypeOK /\ DescriptorsExact /\ [Next]_vars => DescriptorsExact'
<1> SUFFICES ASSUME TypeOK, DescriptorsExact, [Next]_vars PROVE DescriptorsExact'
  OBVIOUS
<1>1. ASSUME UNCHANGED structVars PROVE DescriptorsExact'
  BY <1>1 DEF structVars, DescriptorsExact, Behind
<1>2. ASSUME NEW t \in Timers, AppStep(t) PROVE DescriptorsExact'
  BY <1>1, <1>2, CreateDescriptors, DestroyDescriptors DEF AppStep, Start, Stop
<1>3. CASE LoopStep
  BY <1>1, <1>3
     DEF LoopStep, WaitReturns, BatchDone, BatchAborted, Handle, Rest, HandleNothing,
         HandleUndefined, CallAgain, CallUndefined, HandlerReturns
<1>4. ASSUME NEW t \in Timers, Expire(t) PROVE DescriptorsExact'
  BY <1>1, <1>4 DEF Expire
<1>5. CASE UNCHANGED vars
  BY <1>1, <1>5 DEF vars, structVars
<1> QED BY <1>2, <1>3, <1>4, <1>5 DEF Next

\* Whatever callbacks do, and wherever create or destroy fails, the open
\* timerfds are those of the timers in use.
THEOREM DescriptorsAreExact == Spec => []DescriptorsExact
<1>1. Init => DescriptorsExact
  BY EventTimerAssumption DEF EventTimerAssumption, Init, DescriptorsExact
<1> QED BY <1>1, DescriptorsStep, TimersTypeCorrect, PTL DEF Spec

-----------------------------------------------------------------------------
(* Expirations.                                                             *)

\* Callbacks leave the other timers alive, and their own as long as they are to
\* be called again.
Disciplined == Liberties = {}

\* number_of_timeouts says that the callback of t is to be called again.
Recalled(t) == loop = "callback" /\ current = t /\ left > 0

\* What a callback has to spare: it destroys its own timer only in the last call
\* for the timeouts that were read, and no other that has an entry left in the
\* batch.
SparesTurn ==
  \A t \in Timers : Destroy(t) => ~Recalled(t) /\ t \notin batch

\* The current timer is alive as long as its callback has calls to come.
TurnInv ==
  /\ loop # "undefined"
  /\ loop = "callback" => current \notin batch
  /\ loop = "callback" /\ left > 0 => phase[current] = "live"

\* No timer that is waiting for its turn was destroyed.
BatchInv ==
  /\ loop = "idle" => batch = {}
  /\ \A t \in batch : phase[t] = "live"

\* Only a timer in use expires, and has expirations to be read.
AliveInv ==
  \A t \in Timers : phase[t] # "live" => armed[t] = "off" /\ count[t] = 0

TimerInv == TurnInv /\ BatchInv /\ AliveInv /\ ExpirationsAccounted

\* The number of a timer in use has the timer behind it.
LEMMA LiveBehind ==
  ASSUME DescriptorsExact, NEW t \in Timers, phase[t] = "live"
  PROVE  Behind(timerFd[t]) = t
BY DEF DescriptorsExact

\* Setting a timer, be it in a callback that is to be called again.
LEMMA SetTimerInv ==
  ASSUME KernelType, LoopType, ExpirationsAccounted,
         NEW t \in Timers, NEW m \in Modes, Set(t, m), UNCHANGED loopVars
  PROVE  ExpirationsAccounted'
<1>1. \A u \in Timers : Due(u)' = Due(u)
  BY DEF Due, loopVars
<1>2. \A u \in Timers : Due(u) \in Nat
  BY EventTimerAssumption DEF EventTimerAssumption, Due, LoopType
<1> QED BY <1>1, <1>2 DEF Set, KernelType, ExpirationsAccounted

\* What the application does keeps the invariant.
LEMMA AppStepTimer ==
  ASSUME KernelType, StructType, LoopType, DescriptorsExact, TimerInv, SparesTurn,
         NEW t \in Timers, AppStep(t)
  PROVE  TimerInv'
<1> USE DEF TimerInv
<1>1. CASE Create(t)
  <2>1. /\ UNCHANGED <<loop, batch, current, left>>
        /\ Set(t, "off") /\ phase[t] # "live"
        /\ \A u \in Timers \ {t} : phase'[u] = phase[u]
    BY <1>1 DEF Create, StructType, loopVars
  <2>2. ExpirationsAccounted'
    BY <1>1, <2>1, SetTimerInv DEF Create, Modes
  <2>3. TurnInv' /\ BatchInv'
    BY <2>1 DEF TurnInv, BatchInv, LoopType
  <2>4. AliveInv'
    BY <2>1 DEF AliveInv, Set, KernelType
  <2> QED BY <2>2, <2>3, <2>4
<1>2. ASSUME NEW m \in Modes, MaySet(t), Set(Behind(timerFd[t]), m),
             UNCHANGED <<structVars, loopVars>>
      PROVE  TimerInv'
  <2>1. Set(t, m)
    BY <1>2, LiveBehind DEF MaySet
  <2>2. ExpirationsAccounted'
    BY <1>2, <2>1, SetTimerInv
  <2>3. TurnInv' /\ BatchInv'
    BY <1>2 DEF TurnInv, BatchInv, structVars, loopVars
  <2>4. AliveInv'
    BY <1>2, <2>1 DEF AliveInv, Set, KernelType, MaySet, structVars
  <2> QED BY <2>2, <2>3, <2>4
<1>3. CASE Destroy(t)
  <2>1. Behind(timerFd[t]) = t
    BY <1>3, LiveBehind DEF Destroy, MayDestroy
  <2>2. Set(t, "off")
    BY <1>3, <2>1 DEF Destroy, Close
  <2>3. t \notin batch /\ (loop = "callback" /\ t = current => ~(left > 0))
    BY <1>3 DEF SparesTurn, Recalled
  <2>4. ExpirationsAccounted'
    BY <1>3, <2>2, SetTimerInv DEF Destroy, Modes
  <2>5. /\ UNCHANGED <<loop, batch, current, left>>
        /\ \A u \in Timers \ {t} : phase'[u] = phase[u]
    BY <1>3 DEF Destroy, StructType, loopVars
  <2>6. TurnInv' /\ BatchInv'
    BY <2>3, <2>5 DEF TurnInv, BatchInv, LoopType
  <2>7. AliveInv'
    BY <2>2, <2>5 DEF AliveInv, Set, KernelType
  <2> QED BY <2>4, <2>6, <2>7
<1>4. ASSUME NEW m \in Modes, Start(t, m) PROVE TimerInv'
  BY <1>2, <1>4 DEF Start
<1>5. CASE Stop(t)
  BY <1>2, <1>5 DEF Stop, Modes
<1> QED BY <1>1, <1>3, <1>4, <1>5 DEF AppStep

\* Callbacks of the disciplined kind spare them.
LEMMA DisciplinedSpares ==
  ASSUME Disciplined, LoopType, TimerInv
  PROVE  SparesTurn
<1>1. ASSUME NEW t \in Timers, Recalled(t) PROVE ~MayDestroy(t)
  BY <1>1 DEF Disciplined, Recalled, MayDestroy
<1>2. ASSUME NEW t \in batch, MayDestroy(t) PROVE FALSE
  BY <1>2 DEF Disciplined, MayDestroy, AppRuns, TimerInv, TurnInv, BatchInv
<1> QED BY <1>1, <1>2 DEF SparesTurn, Destroy

\* An expiration keeps the invariant.
LEMMA ExpireTimer ==
  ASSUME KernelType, LoopType, TimerInv, NEW t \in Timers, Expire(t)
  PROVE  TimerInv'
<1>1. UNCHANGED <<loop, batch, current, left, phase>>
  BY DEF Expire, structVars, loopVars
<1>2. TurnInv' /\ BatchInv'
  BY <1>1 DEF TimerInv, TurnInv, BatchInv
<1>3. ExpirationsAccounted'
  BY <1>1, EventTimerAssumption
     DEF EventTimerAssumption, Expire, KernelType, LoopType, TimerInv,
         ExpirationsAccounted, Due
<1>4. AliveInv'
  BY <1>1 DEF Expire, KernelType, TimerInv, AliveInv
<1> QED BY <1>2, <1>3, <1>4 DEF TimerInv

\* A step of the loop keeps the invariant.
LEMMA LoopStepTimer ==
  ASSUME KernelType, StructType, LoopType, DescriptorsExact, TimerInv, LoopStep
  PROVE  TimerInv'
<1> USE DEF TimerInv
<1>1. CASE WaitReturns
  <2>1. UNCHANGED <<phase, armed, count, owed, current, left>>
    BY <1>1 DEF WaitReturns, structVars, kernelVars
  <2>2. \A t \in batch' : phase[t] = "live"
    BY <1>1 DEF WaitReturns, Ready, AliveInv, KernelType
  <2> QED BY <1>1, <2>1, <2>2
          DEF WaitReturns, TurnInv, BatchInv, AliveInv, ExpirationsAccounted, Due
<1>2. CASE BatchDone \/ BatchAborted \/ HandlerReturns
  <2>1. UNCHANGED <<phase, armed, count, owed, current, left>>
    BY <1>2 DEF BatchDone, BatchAborted, HandlerReturns, structVars, kernelVars
  <2> QED BY <1>2, <2>1
          DEF BatchDone, BatchAborted, HandlerReturns, GoesOn, LoopType, KernelType,
              TurnInv, BatchInv, AliveInv, ExpirationsAccounted, Due
<1>3. ASSUME NEW t \in Timers, Handle(t) PROVE TimerInv'
  <2>1. t \in batch /\ phase[t] = "live" /\ Behind(timerFd[t]) = t
    BY <1>3, LiveBehind DEF Handle, Rest, BatchInv
  <2>2. /\ loop = "dispatch" /\ loop' = "callback"
        /\ count[t] > 0 /\ count' = [count EXCEPT ![t] = 0]
        /\ current' = t /\ left' = count[t] - 1
        /\ owed' = [owed EXCEPT ![t] = @ - 1]
        /\ batch' = batch \ {t}
        /\ UNCHANGED <<phase, armed>>
    BY <1>3, <2>1 DEF Handle, Rest, Call, structVars
  <2>3. TurnInv'
    BY <2>1, <2>2, EventTimerAssumption
       DEF EventTimerAssumption, TurnInv, BatchInv, KernelType
  <2>4. BatchInv'
    BY <2>2 DEF BatchInv
  <2>6. ExpirationsAccounted'
    BY <2>2, EventTimerAssumption
       DEF EventTimerAssumption, ExpirationsAccounted, Due, KernelType
  <2>7. AliveInv'
    BY <2>2 DEF AliveInv, KernelType
  <2> QED BY <2>3, <2>4, <2>6, <2>7
<1>4. ASSUME NEW t \in Timers, HandleNothing(t) PROVE TimerInv'
  <2>1. UNCHANGED <<phase, armed, count, owed, loop, current, left>>
    BY <1>4 DEF HandleNothing, structVars, kernelVars
  <2> QED BY <1>4, <2>1
          DEF HandleNothing, TurnInv, BatchInv, AliveInv, ExpirationsAccounted, Due
<1>5. ASSUME NEW t \in Timers, HandleUndefined(t) PROVE FALSE
  BY <1>5, LiveBehind, EventTimerAssumption
     DEF EventTimerAssumption, HandleUndefined, BatchInv
<1>6. CASE CallAgain
  <2>1. /\ loop = "callback" /\ loop' = "callback"
        /\ left > 0 /\ left' = left - 1 /\ current' = current
        /\ owed' = [owed EXCEPT ![current] = @ - 1]
        /\ UNCHANGED <<phase, armed, count, batch>>
    BY <1>6 DEF CallAgain, GoesOn, Call, structVars
  <2>2. TurnInv' /\ BatchInv' /\ AliveInv'
    BY <2>1 DEF TurnInv, BatchInv, AliveInv, LoopType
  <2>3. ExpirationsAccounted'
    BY <2>1, EventTimerAssumption
       DEF EventTimerAssumption, ExpirationsAccounted, Due, KernelType, LoopType
  <2> QED BY <2>2, <2>3
<1>7. ASSUME CallUndefined PROVE FALSE
  BY <1>7 DEF CallUndefined, GoesOn, TurnInv
<1> QED BY <1>1, <1>2, <1>3, <1>4, <1>5, <1>6, <1>7 DEF LoopStep

LEMMA TimerInit == Init => TimerInv
BY DEF Init, TimerInv, TurnInv, BatchInv, AliveInv, ExpirationsAccounted, Due

\* Every step keeps the invariant.
LEMMA TimerStep ==
  ASSUME TypeOK, DescriptorsExact, TimerInv, (Next /\ SparesTurn) \/ UNCHANGED vars
  PROVE  TimerInv'
<1>1. KernelType /\ StructType /\ LoopType
  BY DEF TypeOK, KernelType, StructType, LoopType
<1>2. CASE UNCHANGED vars
  BY <1>2 DEF vars, TimerInv, TurnInv, BatchInv, AliveInv, ExpirationsAccounted, Due
<1> QED BY <1>1, <1>2, LoopStepTimer, AppStepTimer, ExpireTimer DEF Next

\* The inductive invariant holds of every application that spares what is due.
LEMMA TimersOfSparing == Spec /\ [][SparesTurn]_vars => []TimerInv
<1>1. TypeOK /\ DescriptorsExact /\ TimerInv /\ [Next]_vars /\ [SparesTurn]_vars
        => TimerInv'
  BY TimerStep
<1> QED BY <1>1, TimerInit, TimersTypeCorrect, DescriptorsAreExact, PTL DEF Spec

\* The least that timers need of callbacks, whatever else they do to their own
\* timer and to others: every expiration is handled exactly once, and no timer
\* is used that was destroyed.
THEOREM SparedTimersAreSafe ==
  Spec /\ [][SparesTurn]_vars => [](ExpirationsAccounted /\ DestroyedIsNotUsed)
<1>1. TimerInv => ExpirationsAccounted /\ DestroyedIsNotUsed
  BY DEF TimerInv, TurnInv, DestroyedIsNotUsed
<1> QED BY <1>1, TimersOfSparing, PTL

\* The inductive invariant holds of every disciplined application, which spares
\* what is due.
THEOREM TimersCorrect ==
  ASSUME Disciplined
  PROVE  Spec => []TimerInv /\ [][SparesTurn]_vars
<1>1. TypeOK /\ TimerInv => SparesTurn
  BY DisciplinedSpares DEF TypeOK, LoopType
<1>2. TypeOK /\ DescriptorsExact /\ TimerInv /\ [Next]_vars => TimerInv'
  BY <1>1, TimerStep
<1> QED BY <1>1, <1>2, TimerInit, TimersTypeCorrect, DescriptorsAreExact, PTL DEF Spec

\* Every expiration is handled exactly once: however timers are set again while
\* they wait for their turn in a batch, no timeout is lost or counted twice.
THEOREM EveryExpirationAccounted ==
  ASSUME Disciplined
  PROVE  Spec => []ExpirationsAccounted
<1>1. TimerInv => ExpirationsAccounted
  BY DEF TimerInv
<1> QED BY <1>1, TimersCorrect, PTL

\* No callback is called of a timer that was destroyed.
THEOREM DestroyedIsLeftAlone ==
  ASSUME Disciplined
  PROVE  Spec => []DestroyedIsNotUsed
<1>1. TimerInv => DestroyedIsNotUsed
  BY DEF TimerInv, TurnInv, DestroyedIsNotUsed
<1> QED BY <1>1, TimersCorrect, PTL

=============================================================================
