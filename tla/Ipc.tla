-------------------------------- MODULE Ipc --------------------------------
(***************************************************************************)
(* One connection of the Unix socket between elark and the local daemon:   *)
(* Conn, Client and Server of internal/ipc/ipc.go, as operators on records.*)
(*                                                                         *)
(* A message is its type (an input is a stdin, resize or signal message,   *)
(* which take the same way): the request id in it is that of the           *)
(* connection's own client (elark takes one per process), and its bytes    *)
(* are not told apart.  What the client writes always fits the socket's    *)
(* buffer, what the daemon writes fits until SocketSize messages have not  *)
(* been read.                                                              *)
(***************************************************************************)
EXTENDS Integers, Sequences

CONSTANT SocketSize   \* messages that fit the socket towards the client

ASSUME SocketAssumption == SocketSize \in Nat \ {0}

ClientMessages == {"start_session", "input", "close", "close_conn"}
ServerMessages == {"start_ack", "stdout", "exit", "error"}

\* The directions of the socket and which of its ends are still open.
Socket == [up : Seq(ClientMessages), down : Seq(ServerMessages),
           client : BOOLEAN, server : BOOLEAN]

NoSocket == [up |-> << >>, down |-> << >>, client |-> FALSE, server |-> FALSE]

\* Dial, and the first message the client writes.
Dialled(message) == [up |-> <<message>>, down |-> << >>, client |-> TRUE, server |-> TRUE]

-----------------------------------------------------------------------------
(***************************************************************************)
(* Conn.Write.  A write fails when either end is closed, and waits while   *)
(* the socket is full.                                                     *)
(***************************************************************************)
Connected(s) == s.client /\ s.server

ClientWrites(s, message) == IF Connected(s) THEN [s EXCEPT !.up = Append(@, message)] ELSE s

ServerWrites(s, message) == IF Connected(s) THEN [s EXCEPT !.down = Append(@, message)] ELSE s

ServerMayWrite(s) == ~Connected(s) \/ Len(s.down) < SocketSize

(***************************************************************************)
(* Conn.Read.  What was written before the other end was closed is still   *)
(* read, then reading fails; it fails at once when the own end is closed.  *)
(***************************************************************************)
ClientReads(s) == s.client /\ s.down # << >>
ClientReadFails(s) == ~s.client \/ (s.down = << >> /\ ~s.server)

ServerReads(s) == s.server /\ s.up # << >>
ServerReadFails(s) == ~s.server \/ (s.up = << >> /\ ~s.client)

(***************************************************************************)
(* Conn.Close.                                                             *)
(***************************************************************************)
ClientCloses(s) == [s EXCEPT !.client = FALSE, !.down = << >>]
ServerCloses(s) == [s EXCEPT !.server = FALSE, !.up = << >>]
=============================================================================
