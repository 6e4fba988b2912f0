---------------------------- MODULE MCTcpServer ----------------------------
(* An instance of TcpServer for TLC: room for two connections.             *)
EXTENDS TcpServer, TLC

CONSTANTS ls, c1, c2, edLs, ed1, ed2

MCEdFd == edLs :> ls @@ ed1 :> c1 @@ ed2 :> c2

=============================================================================
