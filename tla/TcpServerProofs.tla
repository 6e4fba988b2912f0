--------------------------- MODULE TcpServerProofs ---------------------------
(***************************************************************************)
(* Proof that the TCP server is an application the machine can withstand,  *)
(* for any number of connections, any batch size and any backlog, and what *)
(* follows for it from the theorems about the machine; that it forgets no  *)
(* connection but those it failed to add, and that none of its handlers    *)
(* blocks.                                                                 *)
(***************************************************************************)
EXTENDS TcpServer, DispatchProofs

\* Once its handler has deleted a connection, it is not registered any more.
ServerInv ==
  /\ socket \in Fds
  /\ at \in {"delete", "close"} => loop = "handler"
  /\ at = "close" => interest[Current] = NULL

\* A file descriptor that appears in the program has its descriptor.
LEMMA EdOfType ==
  ASSUME NEW fd \in Fds
  PROVE  EdOf(fd) \in Eds /\ EdFd[EdOf(fd)] = fd
<1>1. \E ed \in Eds : EdFd[ed] = fd
  BY TcpServerAssumption DEF TcpServerAssumption
<1>2. QED
  BY <1>1 DEF EdOf

\* A handler runs for the file descriptor of a descriptor.
LEMMA CurrentType ==
  ASSUME LoopType, loop = "handler"
  PROVE  Current \in Fds
BY EventMachineAssumption DEF EventMachineAssumption, LoopType, Current

\* What the other side does is an arrival, or not seen by the machine.
LEMMA NoticedIsArrival ==
  ASSUME NEW fd \in Fds, Noticed(fd)
  PROVE  [Next]_vars /\ UNCHANGED <<loop, interest, events, next>>
BY DEF Noticed, Arrive, Next, vars, loopVars

\* The steps of main and of the handlers are those of an application.
LEMMA MainRespects ==
  ASSUME MainStep
  PROVE  [Next]_vars
<1> USE DEF Next, AppStep
<1>1. Listening \in Fds
  BY TcpServerAssumption DEF TcpServerAssumption
<1>2. CASE MainListens \/ MainAdds
  BY <1>1, <1>2, EdOfType DEF MainListens, MainAdds
<1>3. CASE MainFails \/ MainRuns \/ Serve \/ Return
  BY <1>3 DEF MainFails, MainRuns, Serve, Return
<1>4. QED
  BY <1>2, <1>3 DEF MainStep

LEMMA HandlerRespects ==
  ASSUME LoopType, ServerInv, HandlerStep
  PROVE  [Next]_vars
<1> USE DEF Next, AppStep
<1>1. CASE AcceptFails \/ Accept \/ OldFreed
  BY <1>1 DEF AcceptFails, Accept, OldFreed
<1>2. CASE Register
  BY <1>2, EdOfType DEF Register, ServerInv
<1>3. ASSUME NEW fd \in Connections, AcceptReturns(fd) \/ ReadFails(fd) \/ Read(fd)
      PROVE  [Next]_vars
  BY <1>3 DEF AcceptReturns, ReadFails, Read, Reads, Connections
<1>4. CASE ConnectionDeleted
  BY <1>4, CurrentType DEF ConnectionDeleted, ServerInv
<1>5. CASE ConnectionClosed
  <2>1. loop = "handler" /\ interest[Current] = NULL /\ Close(Current)
    BY <1>5 DEF ConnectionClosed, ServerInv
  <2>2. CloseFd(Current)
    BY <2>1 DEF CloseFd, AppRuns, MayTouch, Current
  <2>3. QED
    BY <2>1, <2>2, CurrentType
<1>6. QED
  BY <1>1, <1>2, <1>3, <1>4, <1>5 DEF HandlerStep

LEMMA PeerRespects ==
  ASSUME PeerStep
  PROVE  [Next]_vars /\ UNCHANGED <<loop, interest, events, next, serverVars>>
<1>1. Listening \in Fds /\ Connections \subseteq Fds
  BY TcpServerAssumption DEF TcpServerAssumption, Connections
<1>2. CASE Connects
  BY <1>1, <1>2, NoticedIsArrival DEF Connects
<1>3. ASSUME NEW fd \in Connections, Sends(fd) \/ Disconnects(fd)
      PROVE  [Next]_vars /\ UNCHANGED <<loop, interest, events, next, serverVars>>
  BY <1>1, <1>3, NoticedIsArrival DEF Sends, Disconnects
<1>4. QED
  BY <1>2, <1>3 DEF PeerStep

\* A server step is a step of the machine, or not seen by it.
LEMMA ServerRespects ==
  ASSUME LoopType, ServerInv, [ServerNext]_allVars
  PROVE  [Next]_vars
<1>1. CASE UNCHANGED allVars
  BY <1>1 DEF allVars
<1>2. QED
  BY <1>1, MainRespects, HandlerRespects, PeerRespects DEF ServerNext

\* event_machine_delete cannot be refused in a handler: its connection is not
\* registered afterwards.
LEMMA DeletedIsNotRegistered ==
  ASSUME AppType, LoopType, Registered, loop = "handler", ConnectionDeleted
  PROVE  loop' = "handler" /\ interest'[Current'] = NULL
<1>1. Current \in Fds
  BY CurrentType
<1>2. CASE CtlApplies("EVENT_DELETE", Current)
  <2>1. Delete(Current)
    BY <1>2 DEF ConnectionDeleted
  <2>2. interest' = [interest EXCEPT ![Current] = NULL] /\ UNCHANGED loopVars
    BY <2>1 DEF Delete
  <2>3. Current' = Current /\ loop' = loop
    BY <2>2 DEF loopVars, Current
  <2>4. QED
    BY <1>1, <2>2, <2>3 DEF AppType, Storage
<1>3. CASE ~CtlApplies("EVENT_DELETE", Current)
  <2>1. UNCHANGED vars
    BY <1>3 DEF ConnectionDeleted
  <2>2. interest[Current] = NULL
    BY <1>1, <1>3, TcpServerAssumption
       DEF TcpServerAssumption, CtlApplies, Registered
  <2>3. QED
    BY <2>1, <2>2 DEF vars, Current
<1>4. QED
  BY <1>2, <1>3

\* Every step preserves the invariant.
LEMMA ServerInvStep ==
  ASSUME AppType, LoopType, Registered, ServerInv, [ServerNext]_allVars
  PROVE  ServerInv'
<1>1. CASE MainStep
  <2>1. at' \notin {"delete", "close"} /\ socket' = socket
    BY <1>1 DEF MainStep, MainListens, MainFails, MainAdds, MainRuns, Serve, Return, Moves
  <2>2. QED
    BY <2>1 DEF ServerInv
<1>2. CASE AcceptFails \/ Accept \/ Register \/ ConnectionClosed \/ OldFreed
  <2>1. at' \notin {"delete", "close"} /\ socket' = socket
    BY <1>2 DEF AcceptFails, Accept, Register, ConnectionClosed, OldFreed, Moves
  <2>2. QED
    BY <2>1 DEF ServerInv
<1>3. ASSUME NEW fd \in Connections, AcceptReturns(fd) \/ ReadFails(fd) PROVE ServerInv'
  <2>1. at' \notin {"delete", "close"} /\ socket' \in {socket, fd}
    BY <1>3 DEF AcceptReturns, ReadFails, Moves
  <2>2. QED
    BY <2>1 DEF ServerInv, Connections
<1>4. ASSUME NEW fd \in Connections, Read(fd) PROVE ServerInv'
  <2>1. at' # "close" /\ socket' = socket
    BY <1>4 DEF Read, Reads, Moves
  <2>2. loop' = "handler"
    BY <1>4 DEF Read, Reads, Handles, ReadInput, vars, loopVars
  <2>3. QED
    BY <2>1, <2>2 DEF ServerInv
<1>5. CASE ConnectionDeleted
  <2>1. loop = "handler"
    BY <1>5 DEF ConnectionDeleted, ServerInv
  <2>2. at' = "close" /\ socket' = socket
    BY <1>5 DEF ConnectionDeleted
  <2>3. QED
    BY <1>5, <2>1, <2>2, DeletedIsNotRegistered DEF ServerInv
<1>6. CASE PeerStep
  <2>1. UNCHANGED <<loop, interest, events, next, serverVars>>
    BY <1>6, PeerRespects
  <2>2. QED
    BY <2>1 DEF ServerInv, Current, serverVars
<1>7. CASE UNCHANGED allVars
  BY <1>7 DEF allVars, vars, serverVars, ServerInv, Current
<1>8. QED
  BY <1>1, <1>2, <1>3, <1>4, <1>5, <1>6, <1>7 DEF ServerNext, HandlerStep

\* The inductive invariant, with those of the machine it rests on.
LEMMA ServerCorrect == ServerSpec => [](TypeOK /\ RegistrationInv /\ ServerInv)
<1> DEFINE Inv == TypeOK /\ RegistrationInv /\ ServerInv
<1>0. StorageWorks
  BY TcpServerAssumption DEF TcpServerAssumption, StorageWorks
<1>1. ServerInit => Inv
  <2>1. ServerInit => ServerInv
    BY TcpServerAssumption DEF TcpServerAssumption, ServerInit, ServerInv
  <2>2. QED
    BY <2>1, RegistrationInit, InitTypeOK DEF ServerInit
<1>2. Inv /\ [ServerNext]_allVars => Inv'
  <2> SUFFICES ASSUME TypeOK, RegistrationInv, ServerInv, [ServerNext]_allVars PROVE Inv'
    OBVIOUS
  <2>1. AppType /\ LoopType /\ Registered
    BY TypeHalves DEF RegistrationInv
  <2>2. [Next]_vars
    BY <2>1, ServerRespects
  <2>3. TypeOK'
    BY <2>2, NextTypeOK
  <2>4. RegistrationInv'
    BY <1>0, <2>1, <2>2, RegistrationStep
  <2>5. ServerInv'
    BY <2>1, ServerInvStep
  <2>6. QED
    BY <2>3, <2>4, <2>5
<1>3. QED
  BY <1>1, <1>2, PTL DEF ServerSpec

\* Every behaviour of the server is one of the machine with an application that
\* takes no liberties.
THEOREM ServerIsDisciplined == ServerSpec => RespectsMachine
<1>1. ServerInit => Init
  BY DEF ServerInit
<1>2. TypeOK /\ ServerInv /\ [ServerNext]_allVars => [Next]_vars
  BY ServerRespects, TypeHalves
<1>3. QED
  BY <1>1, <1>2, ServerCorrect, PTL DEF ServerSpec, RespectsMachine, Spec

\* Hence its loop follows no stale pointer, whatever its peers do.
THEOREM ServerIsSafe == ServerSpec => [](BatchFresh /\ NoUseAfterFree)
<1>1. Disciplined
  BY TcpServerAssumption DEF TcpServerAssumption, Disciplined
<1>2. QED
  BY <1>1, ServerIsDisciplined, BatchStaysFresh, NothingIsUsedAfterFree, PTL
     DEF RespectsMachine

\* Nor does the machine lose the event of a connection: what is edge triggered
\* and was taken off the queue with a batch reaches its handler, whatever the
\* handlers before it in the batch accept, delete and close.
THEOREM ServerLosesNoEvent == ServerSpec => NoEventLost
<1>1. StorageWorks
  BY TcpServerAssumption DEF TcpServerAssumption, StorageWorks
<1>2. QED
  BY <1>1, ServerIsDisciplined, NoEventIsLost, PTL DEF RespectsMachine

-----------------------------------------------------------------------------
(* No connection is forgotten.                                             *)

\* A connection that is about to be registered is not registered yet: its
\* number was not open before accept() returned it.
WatchInv ==
  /\ NoneForgotten
  /\ at = "register" => interest[socket] = NULL

\* A step that opens and registers nothing, while no handler is between two
\* calls about its connection, forgets nothing.
LEMMA WatchUnchanged ==
  ASSUME WatchInv, at \notin {"register", "close"}, at' # "register",
         UNCHANGED <<open, interest, lost>>
  PROVE  WatchInv'
BY DEF WatchInv, NoneForgotten

\* What the other side does is not seen by the books of the server.
LEMMA PeerLeavesBooks ==
  ASSUME PeerStep
  PROVE  UNCHANGED <<open, interest, loop, events, next, serverVars>>
<1>1. ASSUME NEW fd, Noticed(fd)
      PROVE  UNCHANGED <<open, interest, loop, events, next>>
  BY <1>1 DEF Noticed, Arrive, vars, loopVars
<1>2. QED
  BY <1>1 DEF PeerStep, Connects, Sends, Disconnects

\* The loop neither opens nor registers anything.
LEMMA LoopLeavesBooks ==
  ASSUME LoopStep \/ HandlerReturns \/ Start
  PROVE  UNCHANGED <<open, interest>>
BY DEF LoopStep, WaitReturns, WaitFails, HandleBreak, HandleBreakFails,
   CallHandler, UseFreed, BatchDone, EndBatch, HandlerReturns, Start, appVars

\* event_machine_add registers what it is given, or nothing.
LEMMA AddsOneOrNone ==
  ASSUME NEW fd \in Fds, Add(EdOf(fd))
  PROVE  /\ interest' \in {interest, [interest EXCEPT ![fd] = EdOf(fd)]}
         /\ UNCHANGED <<open, loopVars>>
BY EdOfType DEF Add

LEMMA MainWatches ==
  ASSUME AppType, WatchInv, MainStep
  PROVE  WatchInv'
<1>1. Listening \in Fds
  BY TcpServerAssumption DEF TcpServerAssumption
<1>2. CASE MainListens
  BY <1>2 DEF MainListens, OpenFd, Moves, WatchInv, NoneForgotten
<1>3. CASE MainAdds
  <2>1. \A fd \in open \ {Listening} : interest'[fd] = interest[fd]
    BY <1>1, <1>3, AddsOneOrNone DEF MainAdds, AppType, Storage
  <2>2. open' = open
    BY <1>1, <1>3, AddsOneOrNone DEF MainAdds
  <2>3. QED
    BY <1>3, <2>1, <2>2 DEF MainAdds, Moves, WatchInv, NoneForgotten
<1>4. CASE MainFails \/ MainRuns \/ Serve \/ Return
  BY <1>4, LoopLeavesBooks, WatchUnchanged
     DEF MainFails, MainRuns, Serve, Return, Moves, vars
<1>5. QED
  BY <1>2, <1>3, <1>4 DEF MainStep

LEMMA AcceptWatches ==
  ASSUME AppType, Registered, ServerInv, WatchInv,
         AcceptFails \/ Accept \/ Register \/ \E fd \in Connections : AcceptReturns(fd)
  PROVE  WatchInv'
<1>1. CASE AcceptFails \/ Accept
  BY <1>1, WatchUnchanged DEF AcceptFails, Accept, Handles, Moves, ReadInput, vars
<1>2. ASSUME NEW fd \in Connections, AcceptReturns(fd) PROVE WatchInv'
  <2>1. interest[fd] = NULL
    BY <1>2 DEF AcceptReturns, OpenFd, Registered, Connections
  <2>2. QED
    BY <1>2, <2>1 DEF AcceptReturns, OpenFd, WatchInv, NoneForgotten
<1>3. CASE Register
  <2>1. /\ at = "register" /\ at' = "return"
        /\ interest' \in {interest, [interest EXCEPT ![socket] = EdOf(socket)]}
        /\ open' = open
        /\ lost' = IF interest'[socket] = NULL THEN lost \cup {socket} ELSE lost
    BY <1>3, AddsOneOrNone DEF Register, ServerInv
  <2>2. interest[socket] = NULL
    BY <2>1 DEF WatchInv
  <2>3. \A fd \in open \ {socket} : interest'[fd] = interest[fd]
    BY <2>1 DEF AppType, Storage
  <2>4. interest'[socket] = EdOf(socket) \/ socket \in lost'
    BY <2>1, <2>2 DEF AppType, Storage, ServerInv
  <2>5. NoneForgotten'
    BY <2>1, <2>3, <2>4 DEF WatchInv, NoneForgotten
  <2>6. QED
    BY <2>1, <2>5 DEF WatchInv
<1>4. QED
  BY <1>1, <1>2, <1>3

LEMMA ConnectionWatches ==
  ASSUME AppType, LoopType, ServerInv, WatchInv,
         \/ \E fd \in Connections : ReadFails(fd) \/ Read(fd)
         \/ ConnectionDeleted \/ ConnectionClosed \/ OldFreed
  PROVE  WatchInv'
<1>1. ASSUME NEW fd \in Connections, ReadFails(fd) \/ Read(fd) PROVE WatchInv'
  <2>1. /\ at = "serve" /\ at' \in {"blocked", "delete", "return"} /\ lost' = lost
        /\ UNCHANGED <<open, interest>>
    BY <1>1 DEF ReadFails, Read, Reads, Handles, Moves, ReadInput, vars
  <2>2. QED
    BY <2>1, WatchUnchanged
<1>2. CASE ConnectionDeleted
  <2>1. Current \in Fds /\ Current' = Current /\ at = "delete" /\ at' = "close"
    BY <1>2, CurrentType DEF ConnectionDeleted, ServerInv, Delete, Current, vars, loopVars
  <2>2. \A fd \in open' \ {Current} : fd \in open /\ interest'[fd] = interest[fd]
    BY <1>2, <2>1 DEF ConnectionDeleted, Delete, AppType, Storage, vars
  <2>3. QED
    BY <1>2, <2>1, <2>2 DEF ConnectionDeleted, WatchInv, NoneForgotten
<1>3. CASE ConnectionClosed
  <2>1. Current \in Fds
    BY <1>3, CurrentType DEF ConnectionClosed, ServerInv
  <2>2. \A fd \in open' : fd \in open \ {Current} /\ interest'[fd] = interest[fd]
    BY <1>3, <2>1 DEF ConnectionClosed, Close, AppType, Storage
  <2>3. QED
    BY <1>3, <2>2 DEF ConnectionClosed, Moves, WatchInv, NoneForgotten
<1>4. CASE OldFreed
  BY <1>4, WatchUnchanged DEF OldFreed, Moves, vars
<1>5. QED
  BY <1>1, <1>2, <1>3, <1>4

LEMMA PeerWatches ==
  ASSUME WatchInv, PeerStep \/ UNCHANGED allVars
  PROVE  WatchInv'
<1>1. UNCHANGED <<open, interest, events, next, serverVars>>
  BY PeerLeavesBooks DEF allVars, vars
<1>2. QED
  BY <1>1 DEF WatchInv, NoneForgotten, Current, serverVars

\* Whatever fails, and however numbers are used again, each open connection is
\* watched, or its add has failed, or a handler is at work on it.
THEOREM NoConnectionIsForgotten == ServerSpec => []NoneForgotten
<1>1. ServerInit => WatchInv
  BY DEF ServerInit, Init, WatchInv, NoneForgotten
<1>2. TypeOK /\ RegistrationInv /\ ServerInv /\ WatchInv /\ [ServerNext]_allVars
        => WatchInv'
  BY MainWatches, AcceptWatches, ConnectionWatches, PeerWatches, TypeHalves
     DEF RegistrationInv, ServerNext, HandlerStep
<1>3. WatchInv => NoneForgotten
  BY DEF WatchInv
<1>4. QED
  BY <1>1, <1>2, <1>3, ServerCorrect, PTL DEF ServerSpec

-----------------------------------------------------------------------------
(* What becomes of a connection whose event_machine_add has failed.        *)

\* The open connections that nothing is reported of.
Unwatched == { fd \in Connections \cap open : interest[fd] = NULL }

\* A handler is never entered for a connection that was lost, and one that is
\* about to be registered was not lost before.
LostInv ==
  /\ lost \subseteq Unwatched
  /\ at \in {"accept", "register"} => loop = "handler" /\ Current = Listening
  /\ at = "register" => socket \in (Connections \cap open) \ lost
  /\ loop = "handler" => Current \notin lost

\* A step that opens, registers and loses nothing.
LEMMA LostUnchanged ==
  ASSUME LostInv, UNCHANGED <<open, interest, lost>>,
         at' \notin {"accept", "register"}, loop' = "handler" => Current' \notin lost
  PROVE  LostInv'
BY DEF LostInv, Unwatched

\* What is registered is no connection that was lost, so the handler of none is
\* entered.
LEMMA LoopLost ==
  ASSUME LoopType, DispatchInv, LostInv, LoopStep, loop' = "handler"
  PROVE  Current' \notin lost
<1> USE EventMachineAssumption DEF EventMachineAssumption
<1>1. PICK ed \in Eds : CallHandler(ed)
  BY DEF LoopStep, WaitReturns, WaitFails, HandleBreak, HandleBreakFails, AtEntry,
     UseFreed, BatchDone, EndBatch
<1>2. interest[EdFd[ed]] = ed
  BY <1>1, EntersFresh
<1>3. Current' = EdFd[ed]
  BY <1>1 DEF CallHandler, AtEntry, Current
<1>4. QED
  BY <1>2, <1>3 DEF LostInv, Unwatched

LEMMA MainLost ==
  ASSUME AppType, LoopType, DispatchInv, LostInv, MainStep
  PROVE  LostInv'
<1>1. Listening \in Fds
  BY TcpServerAssumption DEF TcpServerAssumption
<1>2. CASE MainListens
  BY <1>2 DEF MainListens, OpenFd, Moves, LostInv, Unwatched, loopVars, Current
<1>3. CASE MainAdds
  <2>1. /\ open' = open /\ UNCHANGED loopVars
        /\ \A fd \in Connections : interest'[fd] = interest[fd]
    BY <1>1, <1>3, AddsOneOrNone DEF MainAdds, Connections, AppType, Storage
  <2>2. QED
    BY <1>3, <2>1 DEF MainAdds, Moves, LostInv, Unwatched, loopVars, Current
<1>4. CASE MainFails
  BY <1>4, LostUnchanged DEF MainFails, Moves, vars, LostInv, Current
<1>5. CASE MainRuns \/ Return
  BY <1>5, LoopLeavesBooks, LostUnchanged DEF MainRuns, Return, Start, HandlerReturns, Moves
<1>6. CASE Serve
  BY <1>6, LoopLeavesBooks, LoopLost, LostUnchanged DEF Serve
<1>7. QED
  BY <1>2, <1>3, <1>4, <1>5, <1>6 DEF MainStep

LEMMA AcceptLost ==
  ASSUME AppType, ServerInv, LostInv,
         AcceptFails \/ Accept \/ Register \/ \E fd \in Connections : AcceptReturns(fd)
  PROVE  LostInv'
<1>1. CASE AcceptFails
  BY <1>1, LostUnchanged DEF AcceptFails, Moves, vars, LostInv, Current
<1>2. CASE Accept
  <2>1. /\ UNCHANGED <<open, interest, loop, events, next, lost>>
        /\ at' = "accept" /\ loop = "handler" /\ Current = Listening
    BY <1>2 DEF Accept, Handles, ReadInput, Moves, vars, loopVars
  <2>2. QED
    BY <2>1 DEF LostInv, Unwatched, Current
<1>3. ASSUME NEW fd \in Connections, AcceptReturns(fd) PROVE LostInv'
  <2>1. /\ UNCHANGED <<interest, loop, events, next, lost>>
        /\ at = "accept" /\ at' = "register" /\ socket' = fd
        /\ fd \notin open /\ open' = open \cup {fd}
    BY <1>3 DEF AcceptReturns, OpenFd, loopVars
  <2>2. QED
    BY <2>1 DEF LostInv, Unwatched, Current
<1>4. CASE Register
  <2>1. /\ at = "register" /\ at' = "return" /\ socket' = socket
        /\ interest' \in {interest, [interest EXCEPT ![socket] = EdOf(socket)]}
        /\ open' = open /\ UNCHANGED loopVars
        /\ lost' = IF interest'[socket] = NULL THEN lost \cup {socket} ELSE lost
    BY <1>4, AddsOneOrNone DEF Register, ServerInv
  <2>2. /\ socket \in (Connections \cap open) \ lost
        /\ Current = Listening /\ Current' = Current
    BY <2>1 DEF LostInv, loopVars, Current
  <2>3. \A fd \in lost : interest'[fd] = interest[fd]
    BY <2>1, <2>2 DEF AppType, Storage, LostInv, Unwatched
  <2>4. lost' \subseteq Unwatched'
    BY <2>1, <2>2, <2>3 DEF LostInv, Unwatched
  <2>5. Current' \notin lost'
    BY <2>2, <2>4 DEF Unwatched, Connections
  <2>6. QED
    BY <2>1, <2>4, <2>5 DEF LostInv
<1>5. QED
  BY <1>1, <1>2, <1>3, <1>4

LEMMA ConnectionLost ==
  ASSUME AppType, LoopType, ServerInv, LostInv,
         \/ \E fd \in Connections : ReadFails(fd) \/ Read(fd)
         \/ ConnectionDeleted \/ ConnectionClosed \/ OldFreed
  PROVE  LostInv'
<1>1. ASSUME NEW fd \in Connections, ReadFails(fd) \/ Read(fd) PROVE LostInv'
  <2>1. /\ at' \in {"blocked", "delete", "return"} /\ lost' = lost
        /\ UNCHANGED <<open, interest, loop, events, next>>
    BY <1>1 DEF ReadFails, Read, Reads, Moves, ReadInput, vars, loopVars
  <2>2. QED
    BY <2>1, LostUnchanged DEF LostInv, Current
<1>2. CASE ConnectionDeleted
  <2>1. /\ at' = "close" /\ lost' = lost
        /\ UNCHANGED <<open, loop, events, next>>
        /\ \A fd \in Fds : interest'[fd] \in {interest[fd], NULL}
    BY <1>2 DEF ConnectionDeleted, Delete, AppType, Storage, vars, loopVars
  <2>2. QED
    BY <2>1 DEF LostInv, Unwatched, Current, Connections
<1>3. CASE ConnectionClosed
  <2>1. /\ at' = "free" /\ lost' = lost /\ loop = "handler"
        /\ open' = open \ {Current} /\ UNCHANGED <<loop, events, next>>
        /\ \A fd \in Fds : interest'[fd] \in {interest[fd], NULL}
    BY <1>3 DEF ConnectionClosed, Close, Moves, ServerInv, AppType, Storage, loopVars
  <2>2. QED
    BY <2>1 DEF LostInv, Unwatched, Current, Connections
<1>4. CASE OldFreed
  BY <1>4, LostUnchanged DEF OldFreed, Moves, vars, LostInv, Current
<1>5. QED
  BY <1>1, <1>2, <1>3, <1>4

LEMMA PeerLost ==
  ASSUME LostInv, PeerStep \/ UNCHANGED allVars
  PROVE  LostInv'
<1>1. UNCHANGED <<open, interest, loop, events, next, serverVars>>
  BY PeerLeavesBooks DEF allVars, vars
<1>2. QED
  BY <1>1 DEF LostInv, Unwatched, Current, serverVars

\* What NoneForgotten makes an exception for is exactly what accept_handler
\* forgets: it does not close a connection whose event_machine_add has failed
\* (tcp-server.c, lines 140 to 145), which stays open, watched by nobody, for
\* ever; no handler that runs later closes it by mistake, and its number is not
\* given to another connection.
THEOREM LostIsNeverClosed ==
  ServerSpec => [](lost \subseteq Unwatched) /\ [][lost \subseteq lost']_allVars
<1>0. Disciplined
  BY TcpServerAssumption DEF TcpServerAssumption, Disciplined
<1>1. ServerInit => LostInv
  BY DEF ServerInit, Init, LostInv
<1>2. ServerSpec => []DispatchInv
  BY <1>0, ServerIsDisciplined, DispatchCorrect, PTL DEF RespectsMachine
<1>3. TypeOK /\ ServerInv /\ DispatchInv /\ LostInv /\ [ServerNext]_allVars => LostInv'
  BY MainLost, AcceptLost, ConnectionLost, PeerLost, TypeHalves DEF ServerNext, HandlerStep
<1>4. LostInv => lost \subseteq Unwatched
  BY DEF LostInv
<1>5. [ServerNext]_allVars => [lost \subseteq lost']_allVars
  <2>1. CASE PeerStep
    BY <2>1, PeerLeavesBooks DEF serverVars
  <2>2. CASE MainStep
    BY <2>2 DEF MainStep, MainListens, MainFails, MainAdds, MainRuns, Serve, Return, Moves
  <2>3. CASE HandlerStep
    BY <2>3 DEF HandlerStep, AcceptFails, Accept, Register, AcceptReturns, ReadFails,
       Read, Reads, ConnectionDeleted, ConnectionClosed, OldFreed, Moves
  <2>4. QED
    BY <2>1, <2>2, <2>3 DEF ServerNext
<1>6. QED
  BY <1>1, <1>2, <1>3, <1>4, <1>5, ServerCorrect, PTL DEF ServerSpec

-----------------------------------------------------------------------------
(* No handler blocks.                                                      *)

\* What the other side holds for each connection.
PeerType ==
  /\ peer \in [Connections -> {"none", "connected"} \cup Disconnected]
  /\ unread \in [Connections -> Nat]

\* A read() of fd returns at once.
HasWork(fd) == unread[fd] > 0 \/ peer[fd] # "connected"

\* The connections that a read() is to come for, although nothing more arrives.
Due == Connections \cap (input \cup Waiting \cup Entered)

\* Nothing but its own handler takes from a connection what it is due for.
WorkInv ==
  /\ PeerType
  /\ NeverBlocked
  /\ \A fd \in Due : HasWork(fd)

\* Descriptors of connections are the edge triggered ones.
LEMMA EdgeOfConnection ==
  ASSUME NEW ed \in Eds
  PROVE  ed \in Edge <=> EdFd[ed] \in Connections
BY EventMachineAssumption, TcpServerAssumption
   DEF EventMachineAssumption, TcpServerAssumption, Connections

\* A step that makes no connection due, and takes nothing from one that is.
LEMMA WorkKept ==
  ASSUME WorkInv, PeerType', at' # "blocked", Due' \subseteq Due,
         \A fd \in Due' : HasWork(fd) => HasWork(fd)'
  PROVE  WorkInv'
BY DEF WorkInv, NeverBlocked

\* The same if the other side is left alone.
LEMMA WorkUnchanged ==
  ASSUME WorkInv, UNCHANGED <<peer, unread>>, at' # "blocked", Due' \subseteq Due
  PROVE  WorkInv'
BY WorkKept DEF WorkInv, PeerType, HasWork

\* As long as the loop stays where it is, what waits in the batch stays.
LEMMA WaitingUnchanged ==
  ASSUME UNCHANGED loopVars
  PROVE  Waiting' = Waiting /\ Current' = Current /\ loop' = loop
BY DEF Waiting, Pending, Current, loopVars

\* A step outside the loop that no input comes with makes nothing due, unless
\* it is the return to the loop.
LEMMA DueShrinks ==
  ASSUME UNCHANGED loopVars, input' \subseteq input, at' = at \/ at' # "serve"
  PROVE  Due' \subseteq Due
<1>1. Entered' \subseteq Entered
  BY WaitingUnchanged DEF Entered
<1>2. QED
  BY <1>1, WaitingUnchanged DEF Due

\* epoll_wait reports a connection only when it has something to report.
LEMMA ReportedIsDue ==
  ASSUME AppType, LoopType, Registered, WaitReturns
  PROVE  Due' \subseteq Due
<1> USE EventMachineAssumption DEF EventMachineAssumption
<1>1. PICK n \in 1..MaxEvents : events' \in [1..n -> Ready]
  BY DEF WaitReturns
<1>2. Len(events') = n /\ next' = 1 /\ loop' = "dispatch" /\ input' \subseteq input
  BY <1>1, BatchType DEF WaitReturns
<1>3. \A ed \in Ready \cap Edge : EdFd[ed] \in input
  <2>1. \A ed \in Ready \cap Edge : \E fd \in input : ed = interest[fd] /\ ed # NULL
    BY DEF Ready, BreakReady
  <2>2. \A fd \in input : interest[fd] # NULL => EdFd[interest[fd]] = fd
    BY DEF AppType, Registered
  <2>3. QED
    BY <2>1, <2>2
<1>4. Waiting' \subseteq input
  <2>1. Pending' = 1..n
    BY <1>2 DEF Pending
  <2>2. QED
    BY <1>1, <1>3, <2>1 DEF Waiting
<1>5. QED
  BY <1>2, <1>4 DEF Due, Entered

\* The loop enters a handler for what waits in the batch, and drops the rest of
\* a batch only with the run.
LEMMA LoopIsDue ==
  ASSUME AppType, LoopType, Registered, LoopStep \/ HandlerReturns \/ Start
  PROVE  Due' \subseteq Due
<1> USE DEF appVars
<1>1. Len(events) \in Nat /\ next \in Nat \ {0}
  BY DEF LoopType
<1>2. ASSUME input' = input, loop' # "handler", events' = events,
             Pending' \subseteq Pending
      PROVE  Due' \subseteq Due
  BY <1>2 DEF Due, Waiting, Entered
<1>3. ASSUME input' = input, loop' # "handler", Pending' = {}
      PROVE  Due' \subseteq Due
  BY <1>3 DEF Due, Waiting, Entered
<1>4. CASE WaitFails \/ HandleBreakFails \/ BatchDone \/ Start
  <2>1. Pending' = {}
    <3>1. CASE WaitFails \/ Start
      BY <3>1 DEF WaitFails, Start, Pending
    <3>2. CASE HandleBreakFails
      BY <3>2 DEF HandleBreakFails, Pending
    <3>3. CASE BatchDone
      BY <3>3 DEF BatchDone, EndBatch, Pending
    <3>4. QED
      BY <1>4, <3>1, <3>2, <3>3
  <2>2. QED
    BY <1>3, <1>4, <2>1 DEF WaitFails, HandleBreakFails, BatchDone, EndBatch, Start
<1>5. CASE HandleBreak
  BY <1>1, <1>2, <1>5 DEF HandleBreak, AtEntry, Pending
<1>6. CASE HandlerReturns
  BY <1>1, <1>2, <1>6 DEF HandlerReturns, Pending
<1>7. ASSUME NEW ed \in Eds, UseFreed(ed) PROVE Due' \subseteq Due
  BY <1>1, <1>2, <1>7 DEF UseFreed, Pending
<1>8. ASSUME NEW ed \in Eds, CallHandler(ed) PROVE Due' \subseteq Due
  <2>1. /\ UNCHANGED <<input, events, next>>
        /\ loop = "dispatch" /\ loop' = "handler"
        /\ next <= Len(events) /\ events[next] = ed
    BY <1>8 DEF CallHandler, AtEntry
  <2>2. next \in Pending /\ Pending' \subseteq Pending
    BY <1>1, <2>1 DEF Pending
  <2>3. Waiting' \subseteq Waiting
    BY <2>1, <2>2 DEF Waiting
  <2>4. Entered' \subseteq {EdFd[ed]}
    BY <2>1 DEF Entered, Current
  <2>5. EdFd[ed] \in Connections => EdFd[ed] \in Waiting
    BY <2>1, <2>2, EdgeOfConnection DEF Waiting
  <2>6. QED
    BY <2>1, <2>3, <2>4, <2>5 DEF Due
<1>9. QED
  BY <1>4, <1>5, <1>6, <1>7, <1>8, ReportedIsDue DEF LoopStep

LEMMA MainWork ==
  ASSUME AppType, LoopType, Registered, WorkInv, MainStep
  PROVE  WorkInv'
<1> USE DEF Moves, peerVars
<1>1. at' # "blocked" /\ UNCHANGED <<peer, unread>>
  BY DEF MainStep, MainListens, MainFails, MainAdds, MainRuns, Serve, Return,
         WorkInv, NeverBlocked
<1>2. CASE MainListens \/ MainFails
  BY <1>1, <1>2, DueShrinks, WorkUnchanged DEF MainListens, OpenFd, MainFails, vars, loopVars
<1>3. CASE MainAdds
  BY <1>1, <1>3, DueShrinks, WorkUnchanged DEF MainAdds, Add
<1>4. CASE MainRuns \/ Serve \/ Return
  BY <1>1, <1>4, LoopIsDue, WorkUnchanged DEF MainRuns, Serve, Return
<1>5. QED
  BY <1>2, <1>3, <1>4 DEF MainStep

\* A number that accept() returns is not due: what it was reported for under
\* its last owner is not in the batch any more.
LEMMA FreshIsNotDue ==
  ASSUME AppType, LoopType, Registered, DispatchInv, ServerInv,
         NEW fd \in Connections, AcceptReturns(fd)
  PROVE  fd \notin Due'
<1> USE EventMachineAssumption DEF EventMachineAssumption
<1>1. fd \notin open /\ at' = "register" /\ input' = input /\ UNCHANGED loopVars
  BY DEF AcceptReturns, OpenFd
<1>2. fd \notin input
  BY <1>1 DEF AppType
<1>3. \A i \in Pending : events[i] \in Edge => EdFd[events[i]] \in open
  BY DEF DispatchInv, BatchFresh, Registered
<1>4. fd \notin Waiting'
  BY <1>1, <1>3, WaitingUnchanged DEF Waiting
<1>5. QED
  BY <1>1, <1>2, <1>4 DEF Due, Entered

LEMMA AcceptWork ==
  ASSUME AppType, LoopType, Registered, DispatchInv, ServerInv, WorkInv,
         AcceptFails \/ Accept \/ Register \/ \E fd \in Connections : AcceptReturns(fd)
  PROVE  WorkInv'
<1>1. CASE AcceptFails \/ Accept
  BY <1>1, DueShrinks, WorkUnchanged
     DEF AcceptFails, Accept, Moves, ReadInput, vars, peerVars, loopVars
<1>2. CASE Register
  BY <1>2, AddsOneOrNone, DueShrinks, WorkUnchanged DEF Register, Add, ServerInv, peerVars
<1>3. ASSUME NEW fd \in Connections, AcceptReturns(fd) PROVE WorkInv'
  <2>1. /\ peer' = [peer EXCEPT ![fd] = "connected"] /\ unread' = unread
        /\ at' = "register"
        /\ UNCHANGED <<input, loopVars>>
    BY <1>3 DEF AcceptReturns, OpenFd
  <2>2. PeerType'
    BY <2>1 DEF WorkInv, PeerType
  <2>3. fd \notin Due'
    BY <1>3, FreshIsNotDue
  <2>4. \A c \in Due' : HasWork(c) => HasWork(c)'
    BY <2>1, <2>3 DEF HasWork, WorkInv, PeerType
  <2>5. QED
    BY <2>1, <2>2, <2>4, DueShrinks, WorkKept
<1>4. QED
  BY <1>1, <1>2, <1>3

\* The handler that runs has its connection for itself: it is in no other entry
\* of the batch.
LEMMA CurrentDoesNotWait ==
  ASSUME LoopType, DispatchInv, loop = "handler"
  PROVE  Current \notin Waiting
<1> USE EventMachineAssumption DEF EventMachineAssumption
<1>1. Len(events) \in Nat /\ next \in 1..Len(events) /\ events[next] \in Eds
  BY DEF LoopType
<1>2. Pending = (next + 1)..Len(events)
  BY DEF Pending
<1> SUFFICES ASSUME NEW i \in Pending, events[i] \in Edge, EdFd[events[i]] = Current
               PROVE  FALSE
  BY DEF Waiting
<1>3. i = next
  BY <1>1, <1>2 DEF DispatchInv, OneEach, Current
<1>4. QED
  BY <1>1, <1>2, <1>3

LEMMA ReadWork ==
  ASSUME LoopType, DispatchInv, WorkInv, NEW fd \in Connections, Read(fd)
  PROVE  WorkInv'
<1>1. /\ at = "serve" /\ loop = "handler" /\ Current = fd
      /\ unread' = [unread EXCEPT ![fd] = IF @ < 1 THEN 0 ELSE @ - 1]
      /\ peer' = peer
      /\ UNCHANGED loopVars
      /\ input' = IF unread'[fd] = 0 /\ peer[fd] = "connected"
                  THEN input \ {fd} ELSE input
  BY DEF Read, Reads, Handles, ReadInput, vars, peerVars, loopVars, Current
<1>2. fd \in Due
  BY <1>1 DEF Due, Entered
<1>3. HasWork(fd)
  BY <1>2 DEF WorkInv
<1>4. at' \in {"delete", "return"}
  <2>1. ~(unread[fd] < 1 /\ peer[fd] = "connected")
    BY <1>3 DEF HasWork, WorkInv, PeerType
  <2>2. QED
    BY <2>1 DEF Read, Reads, Moves
<1>5. PeerType'
  BY <1>1 DEF WorkInv, PeerType
<1>6. fd \in Due' => HasWork(fd)'
  <2>1. fd \notin Waiting'
    BY <1>1, CurrentDoesNotWait, WaitingUnchanged
  <2>2. fd \in Due' => fd \in input'
    BY <1>4, <2>1 DEF Due, Entered
  <2>3. fd \in input' => ~(unread'[fd] = 0 /\ peer[fd] = "connected")
    BY <1>1
  <2>4. unread'[fd] \in Nat /\ peer'[fd] = peer[fd]
    BY <1>1, <1>5 DEF PeerType
  <2>5. QED
    BY <2>2, <2>3, <2>4 DEF HasWork
<1>7. \A c \in Due' : HasWork(c) => HasWork(c)'
  BY <1>1, <1>6 DEF HasWork, WorkInv, PeerType
<1>8. Due' \subseteq Due
  BY <1>1, <1>4, DueShrinks
<1>9. QED
  BY <1>4, <1>5, <1>7, <1>8, WorkKept

LEMMA ConnectionWork ==
  ASSUME LoopType, DispatchInv, WorkInv,
         \/ \E fd \in Connections : ReadFails(fd) \/ Read(fd)
         \/ ConnectionDeleted \/ ConnectionClosed \/ OldFreed
  PROVE  WorkInv'
<1>1. ASSUME NEW fd \in Connections, ReadFails(fd) PROVE WorkInv'
  <2>1. /\ peer' = [peer EXCEPT ![fd] = IF fd \in gone THEN "abandoned" ELSE "dead"]
        /\ unread' = unread /\ at' = "return" /\ UNCHANGED <<input, loopVars>>
    BY <1>1 DEF ReadFails, Moves, vars, loopVars
  <2>2. PeerType' /\ \A c \in Connections : HasWork(c) => HasWork(c)'
    BY <2>1 DEF WorkInv, PeerType, HasWork, Disconnected
  <2>3. QED
    BY <2>1, <2>2, DueShrinks, WorkKept DEF Due
<1>2. CASE ConnectionDeleted \/ OldFreed
  <2>1. at' \in {"close", "return", "undefined"} /\ UNCHANGED <<input, loopVars, peer, unread>>
    BY <1>2 DEF ConnectionDeleted, Delete, OldFreed, Moves, vars, loopVars, peerVars
  <2>2. QED
    BY <2>1, DueShrinks, WorkUnchanged
<1>3. CASE ConnectionClosed
  <2>1. /\ peer' = [peer EXCEPT ![Current] = "none"]
        /\ unread' = [unread EXCEPT ![Current] = 0]
        /\ at' = "free" /\ input' \subseteq input /\ UNCHANGED loopVars
    BY <1>3 DEF ConnectionClosed, Close, Moves
  <2>2. PeerType' /\ \A c \in Connections : HasWork(c) => HasWork(c)'
    BY <2>1 DEF WorkInv, PeerType, HasWork
  <2>3. QED
    BY <2>1, <2>2, DueShrinks, WorkKept DEF Due
<1>4. QED
  BY <1>1, <1>2, <1>3, ReadWork

\* What the other side does leaves something to report: data, or an end that
\* read() reports too.
LEMMA PeerWork ==
  ASSUME WorkInv, PeerStep
  PROVE  WorkInv'
<1>1. UNCHANGED <<loopVars, at>>
  BY DEF PeerStep, Connects, Sends, Disconnects, Noticed, Arrive, vars, loopVars, serverVars
<1>2. CASE Connects
  <2>1. input' \subseteq input \cup {Listening} /\ UNCHANGED <<peer, unread>>
    BY <1>2 DEF Connects, Noticed, Arrive, vars
  <2>2. Due' \subseteq Due
    BY <1>1, <2>1, WaitingUnchanged DEF Due, Entered, Connections
  <2>3. QED
    BY <1>1, <2>1, <2>2, WorkUnchanged DEF WorkInv, NeverBlocked
<1>3. ASSUME NEW fd \in Connections, Sends(fd) \/ Disconnects(fd) PROVE WorkInv'
  <2>1. PeerType' /\ HasWork(fd)'
    BY <1>3 DEF Sends, Disconnects, WorkInv, PeerType, HasWork, Disconnected
  <2>2. \A c \in Connections \ {fd} : HasWork(c) => HasWork(c)'
    BY <1>3 DEF Sends, Disconnects, WorkInv, PeerType, HasWork
  <2>3. input' \subseteq input \cup {fd}
    BY <1>3 DEF Sends, Disconnects, Noticed, Arrive, vars
  <2>4. Due' \subseteq Due \cup {fd} /\ Due' \subseteq Connections
    BY <1>1, <2>3, WaitingUnchanged DEF Due, Entered
  <2>5. QED
    BY <1>1, <2>1, <2>2, <2>4 DEF WorkInv, NeverBlocked
<1>4. QED
  BY <1>2, <1>3 DEF PeerStep

\* The inductive invariant, with those it rests on.
LEMMA WorkCorrect == ServerSpec => []WorkInv
<1>0. Disciplined
  BY TcpServerAssumption DEF TcpServerAssumption, Disciplined
<1>1. ServerInit => WorkInv
  <2> SUFFICES ASSUME ServerInit PROVE WorkInv
    OBVIOUS
  <2>1. PeerType /\ NeverBlocked
    BY DEF ServerInit, PeerType, NeverBlocked
  <2>2. Due = {}
    BY DEF ServerInit, Init, Due, Waiting, Pending, Entered
  <2>3. QED
    BY <2>1, <2>2 DEF WorkInv
<1>2. ServerSpec => []DispatchInv
  BY <1>0, ServerIsDisciplined, DispatchCorrect, PTL DEF RespectsMachine
<1>3. TypeOK /\ RegistrationInv /\ ServerInv /\ DispatchInv /\ WorkInv
        /\ [ServerNext]_allVars => WorkInv'
  <2> SUFFICES ASSUME AppType, LoopType, Registered, ServerInv, DispatchInv,
                      WorkInv, [ServerNext]_allVars
               PROVE  WorkInv'
    BY TypeHalves DEF RegistrationInv
  <2>1. CASE UNCHANGED allVars
    <3>1. UNCHANGED <<peer, unread, at, input, loopVars>>
      BY <2>1 DEF allVars, vars, peerVars, serverVars, loopVars
    <3>2. QED
      BY <3>1, DueShrinks, WorkUnchanged DEF WorkInv, NeverBlocked
  <2>2. QED
    BY <2>1, MainWork, AcceptWork, ConnectionWork, PeerWork DEF ServerNext, HandlerStep
<1>4. QED
  BY <1>1, <1>2, <1>3, ServerCorrect, PTL DEF ServerSpec

\* One report of epoll_wait is good for one read(): although the sockets block,
\* no handler blocks the loop, whatever the peers do in between and whatever
\* numbers are used again.
THEOREM NoHandlerBlocks == ServerSpec => []NeverBlocked
<1>1. WorkInv => NeverBlocked
  BY DEF WorkInv
<1>2. QED
  BY <1>1, WorkCorrect, PTL

-----------------------------------------------------------------------------
(* No disconnect is missed.                                                *)

\* How the server knows, or will know, that the peer of fd is gone.
Known(fd) ==
  \/ fd \in input
  \/ fd \in gone /\ fd \in Waiting \cup Entered
  \/ at \in {"delete", "close"} /\ Current = fd
  \/ at \in Halted

\* A step after which everything is known that was, if nobody disconnects.
LEMMA KnownKept ==
  ASSUME ShutdownIsKnown,
         \A fd \in Connections : Disconnecting(fd)' =>
           Known(fd)' \/ (Disconnecting(fd) /\ (Known(fd) => Known(fd)'))
  PROVE  ShutdownIsKnown'
BY DEF ShutdownIsKnown, Known

\* A step outside the loop that takes no input from a connection.
LEMMA KnownOutside ==
  ASSUME UNCHANGED <<loopVars, gone>>, at' = at \/ at \notin {"delete", "close"} \cup Halted,
         NEW fd \in Connections, Known(fd),
         fd \in input => fd \in input',
         at' = at \/ fd \notin Entered
  PROVE  Known(fd)'
<1>1. Entered' = Entered \/ fd \notin Entered
  BY WaitingUnchanged DEF Entered
<1>2. QED
  BY <1>1, WaitingUnchanged DEF Known

\* A round of the loop: epoll_wait reports a connection with a mask that says
\* whether it was shut down, and what it has reported is handled.
LEMMA ServeKnown ==
  ASSUME AppType, LoopType, RegistrationInv, DispatchInv, Serve,
         NEW fd \in Connections, Disconnecting(fd), Known(fd)
  PROVE  Known(fd)'
<1> USE EventMachineAssumption DEF EventMachineAssumption
<1>1. Len(events) \in Nat /\ next \in Nat \ {0} /\ at = "serve" /\ LoopStep
  BY DEF LoopType, Serve
<1>2. CASE loop' = "failed"
  BY <1>2 DEF Serve, Known, Halted
<1>3. CASE WaitReturns
  <2>1. fd \in input
    BY <1>1, <1>3 DEF WaitReturns, Known, Waiting, Pending, Entered, Halted
  <2>2. fd \in gone'
    BY <1>3 DEF WaitReturns, Serve, ReportedGone, Disconnecting
  <2>3. PICK n \in 1..MaxEvents :
          /\ events' \in [1..n -> Ready]
          /\ input' = input \ {EdFd[e] : e \in Edge \cap {events'[i] : i \in 1..n}}
    BY <1>3 DEF WaitReturns
  <2>4. Pending' = 1..n
    BY <1>3, <2>3, BatchType DEF WaitReturns, Pending
  <2>5. fd \in input' \cup Waiting'
    BY <2>1, <2>3, <2>4 DEF Waiting
  <2>6. QED
    BY <2>2, <2>5 DEF Known
<1>4. CASE loop = "dispatch" /\ loop' # "failed"
  <2>1. gone' = gone /\ fd \notin Entered /\ fd \in input \cup (gone \cap Waiting)
    BY <1>1, <1>4 DEF Serve, Known, Entered, Halted
  <2>2. CASE HandleBreak
    <3>1. Pending \subseteq Pending' \cup {next} /\ events[next] \notin Edge
      BY <1>1, <2>2 DEF HandleBreak, AtEntry, Pending
    <3>2. QED
      BY <2>1, <2>2, <3>1 DEF HandleBreak, appVars, Waiting, Known
  <2>3. CASE BatchDone
    <3>1. Waiting = {} /\ input' = input
      BY <1>1, <2>3 DEF BatchDone, EndBatch, Pending, Waiting, appVars
    <3>2. QED
      BY <2>1, <3>1 DEF Known
  <2>4. ASSUME NEW ed \in Eds, CallHandler(ed) PROVE Known(fd)'
    <3>1. /\ UNCHANGED <<input, events, next>>
          /\ Pending \subseteq Pending' \cup {next}
          /\ events[next] = ed /\ loop' = "handler"
      BY <1>1, <2>4 DEF CallHandler, AtEntry, Pending, appVars
    <3>2. Entered' = {EdFd[ed]}
      BY <1>1, <3>1 DEF Serve, Entered, Current
    <3>3. Waiting \subseteq Waiting' \cup Entered'
      BY <3>1, <3>2 DEF Waiting
    <3>4. QED
      BY <2>1, <3>1, <3>3 DEF Known
  <2>5. QED
    BY <1>1, <1>4, <2>2, <2>3, <2>4, NothingFreed
       DEF LoopStep, WaitReturns, WaitFails, HandleBreakFails
<1>5. QED
  BY <1>1, <1>2, <1>3, <1>4
     DEF LoopStep, WaitFails, HandleBreak, HandleBreakFails, AtEntry, CallHandler,
         UseFreed, BatchDone, EndBatch

\* main, and the return of a handler.
LEMMA MainKnown ==
  ASSUME AppType, LoopType, RegistrationInv, DispatchInv, ShutdownIsKnown, MainStep
  PROVE  ShutdownIsKnown'
<1>1. peer' = peer
  BY DEF MainStep, MainListens, MainFails, MainAdds, MainRuns, Serve, Return, peerVars
<1> SUFFICES ASSUME NEW fd \in Connections, Disconnecting(fd), Known(fd)
             PROVE  Known(fd)'
  BY <1>1, KnownKept DEF Disconnecting
<1>2. CASE MainListens \/ MainFails \/ MainAdds
  <2>1. /\ UNCHANGED <<input, loopVars, gone>>
        /\ at \in {"listen", "add"}
    BY <1>2 DEF MainListens, MainFails, MainAdds, OpenFd, Add, Moves, vars, loopVars
  <2>2. QED
    BY <2>1, KnownOutside DEF Halted, Entered
<1>3. CASE MainRuns
  <2>1. Waiting = {} /\ Entered = {} /\ input' = input
    BY <1>3 DEF MainRuns, Start, Returned, Waiting, Pending, Entered, appVars
  <2>2. QED
    BY <1>3, <2>1 DEF MainRuns, Known, Halted
<1>4. CASE Return
  <2>1. Len(events) \in Nat /\ next \in Nat \ {0}
    BY DEF LoopType
  <2>2. /\ Entered = {} /\ UNCHANGED <<input, gone>> /\ at = "return"
        /\ Pending' = Pending /\ events' = events
    BY <1>4, <2>1 DEF Return, HandlerReturns, Moves, Pending, Entered, appVars
  <2>3. QED
    BY <2>2 DEF Known, Halted, Waiting
<1>5. QED
  BY <1>2, <1>3, <1>4, ServeKnown DEF MainStep

\* accept_handler: it reads from no connection, and a new one is connected.
LEMMA AcceptKnown ==
  ASSUME AppType, LoopType, ServerInv, WorkInv, ShutdownIsKnown,
         AcceptFails \/ Accept \/ Register \/ \E fd \in Connections : AcceptReturns(fd)
  PROVE  ShutdownIsKnown'
<1>1. \A fd \in Connections : Disconnecting(fd)' => Disconnecting(fd)
  BY DEF AcceptFails, Accept, Register, AcceptReturns, WorkInv, PeerType, peerVars,
         Disconnecting, Disconnected
<1> SUFFICES ASSUME NEW fd \in Connections, Known(fd) PROVE Known(fd)'
  BY <1>1, KnownKept
<1>2. UNCHANGED <<loopVars, gone>>
  BY AddsOneOrNone
     DEF AcceptFails, Accept, Register, AcceptReturns, Moves, ReadInput, OpenFd,
         ServerInv, vars, loopVars
<1>3. at \in {"serve", "accept", "register"} /\ (at = "serve" => Current = Listening)
  BY DEF AcceptFails, Accept, Register, AcceptReturns, Handles
<1>4. fd # Listening
  BY DEF Connections
<1>5. fd \in input => fd \in input'
  <2>1. CASE Accept
    BY <1>3, <1>4, <2>1 DEF Accept, ReadInput, Handles, Current, vars
  <2>2. QED
    BY <2>1 DEF AcceptFails, Register, Add, AcceptReturns, OpenFd, vars
<1>6. fd \notin Entered
  BY <1>3, <1>4 DEF Entered
<1>7. QED
  BY <1>2, <1>3, <1>5, <1>6, KnownOutside DEF Halted

\* connection_hadnler: when the mask of the report does not say that its
\* connection is gone, but it is, then another report is to come.
LEMMA ConnectionKnown ==
  ASSUME LoopType, DispatchInv, ServerInv, WorkInv, ShutdownIsKnown,
         \/ \E fd \in Connections : ReadFails(fd) \/ Read(fd)
         \/ ConnectionDeleted \/ ConnectionClosed \/ OldFreed
  PROVE  ShutdownIsKnown'
<1>1. ASSUME NEW fd \in Connections, Read(fd) PROVE ShutdownIsKnown'
  <2>1. /\ at = "serve" /\ loop = "handler" /\ Current = fd /\ peer' = peer
        /\ at' \in {"blocked", IF fd \in gone THEN "delete" ELSE "return"}
        /\ gone' = gone
    BY <1>1 DEF Read, Reads, Handles, Moves
  <2>2. /\ UNCHANGED loopVars
        /\ input' = input \/ (peer[fd] = "connected" /\ input' = input \ {fd})
    BY <1>1, <2>1 DEF Read, Reads, ReadInput, vars, loopVars, Current
  <2>3. ASSUME NEW c \in Connections, Disconnecting(c), Known(c) PROVE Known(c)'
    <3>1. CASE c # fd
      BY <2>1, <2>2, <2>3, <3>1, WaitingUnchanged DEF Known, Entered, Halted
    <3>2. CASE c = fd
      BY <2>1, <2>2, <2>3, <3>2, WaitingUnchanged DEF Known, Halted, Disconnecting, Disconnected
    <3>3. QED
      BY <3>1, <3>2
  <2>4. QED
    BY <2>1, <2>3, KnownKept DEF Disconnecting
<1>2. ASSUME NEW fd \in Connections, ReadFails(fd) PROVE ShutdownIsKnown'
  <2>1. /\ at = "serve" /\ Current = fd /\ peer[fd] = "reset"
        /\ peer' = [peer EXCEPT ![fd] = IF fd \in gone THEN "abandoned" ELSE "dead"]
        /\ UNCHANGED <<input, loopVars, gone>>
    BY <1>2 DEF ReadFails, Handles, Moves, vars, loopVars
  <2>2. \A c \in Connections \ {fd} : Disconnecting(c)' => Disconnecting(c)
    BY <2>1 DEF WorkInv, PeerType, Disconnecting
  <2>3. \A c \in Connections \ {fd} : Known(c) => Known(c)'
    BY <2>1, KnownOutside DEF Entered, Halted
  <2>4. Disconnecting(fd) /\ (Disconnecting(fd)' => fd \notin gone)
    BY <2>1 DEF WorkInv, PeerType, Disconnecting, Disconnected
  <2>5. Disconnecting(fd)' => Known(fd)'
    BY <2>1, <2>4 DEF ShutdownIsKnown, Known, Halted
  <2>6. QED
    BY <2>2, <2>3, <2>5, KnownKept
<1>3. CASE ConnectionDeleted
  <2>1. /\ at = "delete" /\ at' = "close"
        /\ UNCHANGED <<input, peer, gone, loopVars>>
    BY <1>3 DEF ConnectionDeleted, Delete, vars, peerVars, loopVars
  <2>2. \A c \in Connections : Known(c) => Known(c)'
    BY <2>1, WaitingUnchanged DEF Known, Entered, Halted
  <2>3. QED
    BY <2>1, <2>2, KnownKept DEF Disconnecting
<1>4. CASE ConnectionClosed
  <2>1. /\ at = "close" /\ at' = "free" /\ UNCHANGED <<loopVars, gone>>
        /\ peer' = [peer EXCEPT ![Current] = "none"]
        /\ input' = input \ {Current}
    BY <1>4 DEF ConnectionClosed, Close, Moves
  <2>2. \A c \in Connections :
          Disconnecting(c)' => c # Current /\ Disconnecting(c)
    BY <2>1 DEF WorkInv, PeerType, Disconnecting, Disconnected
  <2>3. \A c \in Connections : c # Current /\ Known(c) => Known(c)'
    BY <2>1, WaitingUnchanged DEF Known, Entered, Halted
  <2>4. QED
    BY <2>2, <2>3, KnownKept
<1>5. CASE OldFreed
  <2>1. /\ at = "free" /\ UNCHANGED <<input, peer, gone, loopVars>>
    BY <1>5 DEF OldFreed, Moves, vars, peerVars, loopVars
  <2>2. \A c \in Connections : Known(c) => Known(c)'
    BY <2>1, KnownOutside DEF Entered, Halted
  <2>3. QED
    BY <2>1, <2>2, KnownKept DEF Disconnecting
<1>6. QED
  BY <1>1, <1>2, <1>3, <1>4, <1>5

\* A disconnect is noticed by the kernel at once.
LEMMA PeerKnown ==
  ASSUME ShutdownIsKnown, WorkInv, PeerStep \/ UNCHANGED allVars
  PROVE  ShutdownIsKnown'
<1>1. UNCHANGED <<loopVars, at, gone>> /\ input \subseteq input'
  BY DEF PeerStep, Connects, Sends, Disconnects, Noticed, Arrive, vars, loopVars,
         serverVars, allVars
<1>2. \A c \in Connections : Known(c) => Known(c)'
  BY <1>1, KnownOutside
<1>3. \A c \in Connections : Disconnecting(c)' => Disconnecting(c) \/ c \in input'
  BY DEF PeerStep, Connects, Sends, Disconnects, Noticed, Arrive, vars, peerVars,
         allVars, WorkInv, PeerType, Disconnecting
<1>4. QED
  BY <1>2, <1>3, KnownKept DEF Known

\* The safety behind DisconnectIsHandled: whenever the peer shuts a connection
\* down or resets it, the server will be told, or has been told and has yet to
\* act on it, unless its read() has failed behind a mask that said so.
THEOREM NoShutdownIsMissed == ServerSpec => []ShutdownIsKnown
<1>0. Disciplined
  BY TcpServerAssumption DEF TcpServerAssumption, Disciplined
<1>1. ServerInit => ShutdownIsKnown
  BY DEF ServerInit, ShutdownIsKnown, Disconnecting, Disconnected
<1>2. ServerSpec => []DispatchInv
  BY <1>0, ServerIsDisciplined, DispatchCorrect, PTL DEF RespectsMachine
<1>3. TypeOK /\ RegistrationInv /\ ServerInv /\ DispatchInv /\ WorkInv
        /\ ShutdownIsKnown /\ [ServerNext]_allVars => ShutdownIsKnown'
  BY MainKnown, AcceptKnown, ConnectionKnown, PeerKnown, TypeHalves
     DEF ServerNext, HandlerStep
<1>4. QED
  BY <1>1, <1>2, <1>3, ServerCorrect, WorkCorrect, PTL DEF ServerSpec

=============================================================================
