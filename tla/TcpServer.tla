------------------------------ MODULE TcpServer ------------------------------
(***************************************************************************)
(* example/tcp-server.c on the event machine: main, accept_handler and     *)
(* connection_hadnler, as the application of module EventMachine, with its *)
(* peers.  There is no descriptor storage, the listening socket is level   *)
(* triggered, connections are edge triggered, and all of them block.       *)
(*                                                                         *)
(* Nothing calls event_machine_terminate: what main does after its run has *)
(* ended well is never reached.                                            *)
(***************************************************************************)
EXTENDS EventMachine

CONSTANTS
  Listening,  \* listening_socket
  Backlog,    \* the second argument of listen()
  MaxUnread   \* bound on the buffers that wait to be read from a connection

Connections == Fds \ {Listening}

ASSUME TcpServerAssumption ==
  /\ Listening \in Fds
  /\ \A fd \in Fds : \E ed \in Eds : EdFd[ed] = fd
  /\ Edge = { ed \in Eds : EdFd[ed] # Listening }
  /\ ~HasInsert /\ ~Kqueue /\ Liberties = {}
  /\ Backlog \in Nat \ {0}
  /\ MaxUnread \in Nat \ {0}

VARIABLES
  at,       \* what main, or the handler it is in, does next
  socket,   \* socket of accept_handler
  oldEd,    \* old_ed of connection_hadnler: "null" or "wild"
  gone,     \* the connections that epoll_wait has reported with EPOLLERR or
            \* EPOLLRDHUP in the current batch
  peer,     \* state of the other side of a connection
  unread,   \* buffers that wait to be read from a connection
  backlog,  \* connections that wait to be accepted
  lost      \* connections whose event_machine_add has failed

peerVars   == <<peer, unread, backlog>>
serverVars == <<at, socket, oldEd, gone, lost>>
allVars    == <<vars, peerVars, serverVars>>

\* "serve": in event_machine_run, or at the entry of a handler.  "blocked": in a
\* read() that nothing ends.  "undefined": what old_ed held was freed.
Halted == {"exit", "blocked", "undefined"}

\* "dead": the reset was told by a read() that failed.  "abandoned": so it was,
\* to the very handler whose mask had said that the peer is gone.
Disconnected == {"shutdown", "reset", "dead", "abandoned"}

\* The descriptor of main, or the one that malloc() gave for a connection.
EdOf(fd) == CHOOSE ed \in Eds : EdFd[ed] = fd

\* The file descriptor of the handler that runs.
Current == EdFd[events[next]]

-----------------------------------------------------------------------------
(* The other side.                                                         *)

Noticed(fd) == IF fd \in input THEN UNCHANGED vars ELSE Arrive(fd)

Connects ==
  /\ at \notin Halted
  /\ Listening \in open
  /\ backlog < Backlog
  /\ backlog' = backlog + 1
  /\ Noticed(Listening)
  /\ UNCHANGED <<peer, unread, serverVars>>

Sends(fd) ==
  /\ at \notin Halted
  /\ peer[fd] = "connected"
  /\ unread[fd] < MaxUnread
  /\ unread' = [unread EXCEPT ![fd] = @ + 1]
  /\ Noticed(fd)
  /\ UNCHANGED <<peer, backlog, serverVars>>

\* What has arrived before a shutdown or a reset can still be read.
Disconnects(fd) ==
  /\ at \notin Halted
  /\ \/ /\ peer[fd] = "connected"
        /\ peer' = [peer EXCEPT ![fd] = "shutdown"]
     \/ /\ peer[fd] \in {"connected", "shutdown"}
        /\ peer' = [peer EXCEPT ![fd] = "reset"]
  /\ Noticed(fd)
  /\ UNCHANGED <<unread, backlog, serverVars>>

-----------------------------------------------------------------------------
(* main.                                                                   *)

Moves(point) == at' = point /\ UNCHANGED <<socket, oldEd, gone, lost>>

MainListens ==
  /\ at = "listen"
  /\ OpenFd(Listening)
  /\ Moves("add")
  /\ UNCHANGED peerVars

\* socket(), bind(), listen() or event_machine_init fails.
MainFails ==
  /\ at \in {"listen", "add"}
  /\ Moves("exit")
  /\ UNCHANGED <<vars, peerVars>>

MainAdds ==
  /\ at = "add"
  /\ Add(EdOf(Listening))
  /\ Moves(IF interest'[Listening] = NULL THEN "exit" ELSE "run")
  /\ UNCHANGED peerVars

MainRuns ==
  /\ at = "run"
  /\ Start
  /\ Moves("serve")
  /\ UNCHANGED peerVars

\* Variant: the mask of a connection lacks EPOLLRDHUP.
ReportedGoneByError(fd) == peer[fd] = "reset"

\* epoll_wait reports fd with EPOLLERR or EPOLLRDHUP.
ReportedGone(fd) == peer[fd] \in Disconnected

\* event_machine_run goes on; when it fails, main exits.
Serve ==
  /\ at = "serve"
  /\ LoopStep
  /\ at' = IF loop' = "failed" THEN "exit" ELSE at
  /\ gone' = IF loop = "wait" THEN { fd \in Connections : ReportedGone(fd) } ELSE gone
  /\ UNCHANGED <<socket, oldEd, lost, peerVars>>

\* A handler returns to the loop.
Return ==
  /\ at = "return"
  /\ HandlerReturns
  /\ Moves("serve")
  /\ UNCHANGED peerVars

-----------------------------------------------------------------------------
(* accept_handler.                                                         *)

Handles(fd) == at = "serve" /\ loop = "handler" /\ Current = fd

\* malloc() or accept() fails.
AcceptFails ==
  /\ Handles(Listening)
  /\ Moves("return")
  /\ UNCHANGED <<vars, peerVars>>

\* accept() takes a connection off the backlog,
Accept ==
  /\ Handles(Listening)
  /\ backlog > 0
  /\ open # Fds
  /\ backlog' = backlog - 1
  /\ IF backlog' = 0 THEN ReadInput ELSE UNCHANGED vars
  /\ Moves("accept")
  /\ UNCHANGED <<peer, unread>>

\* and gives it a number.
AcceptReturns(fd) ==
  /\ at = "accept"
  /\ OpenFd(fd)
  /\ peer' = [peer EXCEPT ![fd] = "connected"]
  /\ socket' = fd
  /\ at' = "register"
  /\ UNCHANGED <<oldEd, gone, lost, unread, backlog>>

\* event_machine_add.  When it fails, the handler returns all the same.
Register ==
  /\ at = "register"
  /\ Add(EdOf(socket))
  /\ lost' = IF interest'[socket] = NULL THEN lost \cup {socket} ELSE lost
  /\ at' = "return"
  /\ UNCHANGED <<socket, oldEd, gone, peerVars>>

-----------------------------------------------------------------------------
(* connection_hadnler.                                                     *)

\* Behind the last data of a connection that was reset, read() fails once, and
\* the handler returns before it looks for a disconnect.
ReadFails(fd) ==
  /\ Handles(fd)
  /\ peer[fd] = "reset" /\ unread[fd] = 0
  /\ peer' = [peer EXCEPT ![fd] = IF fd \in gone THEN "abandoned" ELSE "dead"]
  /\ Moves("return")
  /\ UNCHANGED <<vars, unread, backlog>>

\* The handler reads n times, into a buffer that holds all of what was sent at
\* a time.  On an open connection without input, read() does not return.
Reads(fd, n) ==
  /\ Handles(fd)
  /\ peer[fd] = "reset" => unread[fd] > 0
  /\ unread' = [unread EXCEPT ![fd] = IF @ < n THEN 0 ELSE @ - n]
  /\ Moves(IF unread[fd] < n /\ peer[fd] = "connected" THEN "blocked"
           ELSE IF fd \in gone THEN "delete" ELSE "return")
  /\ IF unread'[fd] = 0 /\ peer[fd] = "connected" THEN ReadInput ELSE UNCHANGED vars
  /\ UNCHANGED <<peer, backlog>>

\* Variant: the handler reads again, to empty an edge triggered socket.
ReadTwice(fd) == Reads(fd, 2)

Read(fd) == Reads(fd, 1)

\* Variant: it is left to close() to take the socket out of the queue.
ConnectionNotDeleted ==
  /\ at = "delete"
  /\ oldEd' \in {"null", "wild"}
  /\ at' = "close"
  /\ UNCHANGED <<vars, socket, gone, lost, peerVars>>

\* event_machine_delete(em, socket, &old_ed).  Nothing is stored in old_ed: it
\* holds what was on the stack.
ConnectionDeleted ==
  /\ at = "delete"
  /\ IF CtlApplies("EVENT_DELETE", Current) THEN Delete(Current) ELSE UNCHANGED vars
  /\ oldEd' \in {"null", "wild"}
  /\ at' = "close"
  /\ UNCHANGED <<socket, gone, lost, peerVars>>

\* Variant: the socket stays open.
ConnectionStaysOpen ==
  /\ at = "close"
  /\ Moves("free")
  /\ UNCHANGED <<vars, peerVars>>

ConnectionClosed ==
  /\ at = "close"
  /\ Close(Current)
  /\ peer' = [peer EXCEPT ![Current] = "none"]
  /\ unread' = [unread EXCEPT ![Current] = 0]
  /\ Moves("free")
  /\ UNCHANGED backlog

\* What old_ed points to is freed, unless it is NULL.
OldFreed ==
  /\ at = "free"
  /\ Moves(IF oldEd = "null" THEN "return" ELSE "undefined")
  /\ UNCHANGED <<vars, peerVars>>

-----------------------------------------------------------------------------

ServerInit ==
  /\ Init
  /\ at = "listen"
  /\ socket = Listening
  /\ oldEd = "null"
  /\ gone = {}
  /\ peer = [fd \in Connections |-> "none"]
  /\ unread = [fd \in Connections |-> 0]
  /\ backlog = 0
  /\ lost = {}

MainStep == MainListens \/ MainFails \/ MainAdds \/ MainRuns \/ Serve \/ Return

HandlerStep ==
  \/ AcceptFails \/ Accept \/ Register
  \/ \E fd \in Connections : AcceptReturns(fd) \/ ReadFails(fd) \/ Read(fd)
  \/ ConnectionDeleted \/ ConnectionClosed \/ OldFreed

PeerStep ==
  \/ Connects
  \/ \E fd \in Connections : Sends(fd) \/ Disconnects(fd)

ServerNext == MainStep \/ HandlerStep \/ PeerStep

ServerSpec == ServerInit /\ [][ServerNext]_allVars

\* The process is scheduled, and epoll passes nothing over for ever.
ServerFairSpec ==
  /\ ServerSpec
  /\ WF_allVars(MainStep \/ HandlerStep)
  /\ \A ed \in Eds : SF_allVars(Serve /\ Reports(ed))

-----------------------------------------------------------------------------
(* Properties.                                                             *)

\* The server is an application that the machine can withstand: a connection is
\* deleted before it is closed, and a handler touches nothing but its own file
\* descriptor (tcp-server.c, lines 84 to 93).  What is proved of EventMachine
\* for such applications holds for it.
RespectsMachine == Spec

\* No handler blocks the loop, although the sockets do: one report of epoll_wait
\* is good for one read(), even if the peer or an earlier handler of the batch
\* came in between (lines 67 to 70).
NeverBlocked == at # "blocked"

\* Every open connection is watched with its own descriptor, unless
\* event_machine_add has failed for it or a handler is at work on it.
NoneForgotten ==
  \A fd \in open \ ({Listening} \cup lost) :
    \/ interest[fd] = EdOf(fd)
    \/ at = "register" /\ socket = fd
    \/ at = "close" /\ Current = fd

\* Reported in the batch, and the handler was not entered yet.
Waiting == { EdFd[events[i]] : i \in { j \in Pending : events[j] \in Edge } }

\* The handler was entered and has not read yet.
Entered == IF at = "serve" /\ loop = "handler" THEN {Current} ELSE {}

\* The peer is gone, and connection_hadnler may still come to act on it.
Disconnecting(fd) == peer[fd] \in Disconnected \ {"abandoned"}

\* A connection that was shut down or reset is still to be reported, or it waits
\* for its handler with a mask that says so, or it is about to be closed: whenever
\* the peer disconnects, before a report, behind one or while the handler reads,
\* with data on its way or without, connection_hadnler does not miss it, although
\* an edge is reported once and the mask is older than the read() (lines 67 to
\* 93).  The only exception is the read() that fails behind a mask that says so.
ShutdownIsKnown ==
  \A fd \in Connections :
    Disconnecting(fd) =>
      \/ fd \in input
      \/ fd \in gone /\ fd \in Waiting \cup Entered
      \/ at \in {"delete", "close"} /\ Current = fd
      \/ at \in Halted

\* A connection whose peer has shut it down or reset it is closed in the end, with
\* the same exception.
DisconnectIsHandled ==
  \A fd \in Connections :
    (Disconnecting(fd) /\ interest[fd] # NULL)
      ~> (fd \notin open \/ peer[fd] = "abandoned" \/ at \in Halted)

\* event_machine_delete "always returns NULL if caller supplies non-NULL pointer"
\* where there is no descriptor storage, and connection_hadnler relies on it.
OldIsNull == at \in {"close", "free"} => oldEd = "null"

=============================================================================
