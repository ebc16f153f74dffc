-------------------------------- MODULE Local --------------------------------
(***************************************************************************)
(* The requesting side: the elark processes (cmd/elark/main.go), the       *)
(* threads of the IPC server that serve them (internal/ipc/ipc.go), the    *)
(* local daemon (internal/daemon/local.go) and the local half of           *)
(* session.Manager (internal/session/session.go).                          *)
(*                                                                         *)
(* Manager.mu is held while events are written to a client, and writing    *)
(* can block.  As in module Remote, todo is what its holder still has to   *)
(* do, and the mutex is free when todo is empty.                           *)
(*                                                                         *)
(* The session, its connection and its request id all belong to one elark  *)
(* process, by which they are called here.  The outbound manager is what   *)
(* module Outbound shows of it; the remote side is the frames it sends in  *)
(* reply, which arrive at any time once the root message is posted, lost,  *)
(* repeated and in any order, in messages of consecutive frames.  How long *)
(* the remote is silent is not timed: its heartbeat can always be late.    *)
(***************************************************************************)
EXTENDS Ipc, RecvWindow, SequencesExt

CONSTANTS
    Runs,       \* elark processes that run a command
    Kills,      \* elark kill processes
    Scripts,    \* what the remote side can answer to a command
    MaxInputs,  \* bound: inputs that are typed and signals, per run
    CanStop     \* whether the daemon can be stopped

ASSUME LocalAssumption ==
    /\ Runs \intersect Kills = {}
    /\ MaxInputs \in Nat /\ CanStop \in BOOLEAN

Clients == Runs \union Kills

VARIABLES
    elark,      \* run: the process, its interrupt and what it has printed
    socket,     \* client: its connection to the daemon
    thread,     \* client: the goroutine in serveConn and what it does
    root,       \* run: its job in the outbound manager
    session,    \* run: its local session, "none", "open" or "closed"
    conn,       \* run: its connection in the outbound manager
    callbacks,  \* OnDrained and OnDrop calls that have not run yet
    window,     \* run: the receive window of the session
    script,     \* run: the frames the remote answers with
    todo,       \* what the holder of Manager.mu still has to do
    target,     \* kill: the run whose connection it names
    daemon,     \* "running", "stopping", "closed" (the IPC server), "stopped"
    told        \* history: what a session has told its client: "events", the "end", or "more"

vars == <<elark, socket, thread, root, session, conn, callbacks, window, script, todo, target,
          daemon, told>>

Ends == {"exit", "error", "close", "malformed"}   \* frames that end a session
Frames == {"start_ack", "stdout"} \union Ends

\* The remote side does not run out of sequence numbers, and the exit is the
\* end of the output that it sends (NoOutputAfterExit of module Remote).
ASSUME ScriptsAssumption ==
    \A s \in Scripts :
        /\ s \in Seq(Frames) /\ Len(s) \in 1 .. MaxSeq - 1
        /\ \A i, j \in 1 .. Len(s) : i < j /\ s[i] = "exit" => s[j] # "stdout"

Codes == {"none", "exit code", "1", "send stdin", "130", "killed"}

Free == todo = << >>
Running(r) == elark[r].pc \in {"stdin", "receive"}

\* The event a frame becomes (a malformed one becomes an error), and the
\* message that the event is for the client (ipcSubscriber.Deliver).
MessageOf(event) == IF event \in Ends \ {"exit"} THEN "error" ELSE event

Deliver(event, r) == [op |-> "deliver", run |-> r, event |-> event, seq |-> 0]
Offer(seq, r) == [op |-> "offer", run |-> r, event |-> "", seq |-> seq]
Close(r) == [op |-> "close", run |-> r, event |-> "", seq |-> 0]

Init ==
    /\ elark = [r \in Runs |-> [pc |-> "new", tty |-> FALSE, acked |-> FALSE, interrupt |-> "none",
                                inputs |-> 0, printed |-> 0, code |-> "none"]]
    /\ socket = [c \in Clients |-> NoSocket]
    /\ thread = [c \in Clients |-> "none"]
    /\ root = [r \in Runs |-> "none"]
    /\ session = [r \in Runs |-> "none"]
    /\ conn = [r \in Runs |-> [state |-> "none", queue |-> << >>, closing |-> FALSE, closed |-> FALSE]]
    /\ callbacks = {}
    /\ window = [r \in Runs |-> NewRecvWindow]
    /\ script \in [Runs -> Scripts]
    /\ todo = << >>
    /\ target = [k \in Kills |-> k]
    /\ daemon = "running"
    /\ told = [r \in Runs |-> "events"]

-----------------------------------------------------------------------------
(***************************************************************************)
(* The elark process: runRemote and forwardSignals.                        *)
(***************************************************************************)

\* Returning from runRemote closes the connection and ends the process.
Exit(r, code) ==
    /\ elark' = [elark EXCEPT ![r] = [@ EXCEPT !.pc = "exited", !.code = code, !.tty = FALSE,
                                               !.acked = FALSE, !.inputs = 0]]
    /\ socket' = [socket EXCEPT ![r] = ClientCloses(@)]

\* Dial and the start message, with a PTY and a terminal as stdin or without.
\* What is piped in is read to its end before anything that the daemon says.
StartElark(r) ==
    /\ elark[r].pc = "new"
    /\ IF daemon \in {"running", "stopping"}
       THEN /\ \E tty \in BOOLEAN, pc \in {"stdin", "receive"} :
                   /\ tty => pc = "receive"
                   /\ elark' = [elark EXCEPT ![r].tty = tty, ![r].pc = pc]
            /\ socket' = [socket EXCEPT ![r] = Dialled("start_session")]
       ELSE Exit(r, "1")
    /\ UNCHANGED <<thread, root, session, conn, callbacks, window, script, todo, target, daemon, told>>

\* The end of what is piped in; it is sent if there was anything.
StdinEnds(r) ==
    /\ elark[r].pc = "stdin"
    /\ \/ /\ socket' = [socket EXCEPT ![r] = ClientWrites(@, "input")]
          /\ elark' = IF Connected(socket[r]) THEN [elark EXCEPT ![r].pc = "receive"]
                      ELSE [elark EXCEPT ![r] = [@ EXCEPT !.pc = "exited", !.code = "send stdin",
                                                          !.inputs = 0]]
       \/ /\ elark' = [elark EXCEPT ![r].pc = "receive"]
          /\ UNCHANGED socket
    /\ UNCHANGED <<thread, root, session, conn, callbacks, window, script, todo, target, daemon, told>>

\* A signal that is forwarded (SIGTERM, SIGWINCH, an interrupt that is not a
\* close) or, after the start_ack, what forwardRawTerminalStdin has read.
ForwardInput(r) ==
    /\ Running(r)
    /\ elark[r].inputs < MaxInputs
    /\ elark[r].interrupt = "none"
    /\ socket' = [socket EXCEPT ![r] = ClientWrites(@, "input")]
    /\ elark' = [elark EXCEPT ![r].inputs = @ + 1]
    /\ UNCHANGED <<thread, root, session, conn, callbacks, window, script, todo, target, daemon, told>>

\* closeForInterrupt: first the exit code is set, then the close is written
\* and the connection closed, while the main goroutine goes on.
Interrupt(r) ==
    /\ Running(r)
    /\ elark[r].interrupt = "none"
    /\ elark[r].tty => ~elark[r].acked
    /\ elark' = [elark EXCEPT ![r].interrupt = "set"]
    /\ UNCHANGED <<socket, thread, root, session, conn, callbacks, window, script, todo, target,
                   daemon, told>>

\* Mutant: the connection is closed without a close message.
InterruptSilently(r) ==
    /\ Running(r)
    /\ elark[r].interrupt = "set"
    /\ elark' = [elark EXCEPT ![r].interrupt = "written"]
    /\ socket' = [socket EXCEPT ![r] = ClientCloses(@)]
    /\ UNCHANGED <<thread, root, session, conn, callbacks, window, script, todo, target, daemon, told>>

InterruptCloses(r) ==
    /\ Running(r)
    /\ elark[r].interrupt = "set"
    /\ elark' = [elark EXCEPT ![r].interrupt =
                    IF Connected(socket[r]) THEN "written" ELSE "closed"]
    /\ socket' = [socket EXCEPT ![r] = ClientCloses(ClientWrites(@, "close"))]
    /\ UNCHANGED <<thread, root, session, conn, callbacks, window, script, todo, target, daemon, told>>

ReceiveMessage(r) ==
    /\ elark[r].pc = "receive"
    /\ ClientReads(socket[r])
    /\ LET message == Head(socket[r].down)
           rest == [socket EXCEPT ![r].down = Tail(@)]
       IN  \/ /\ message = "start_ack"
              /\ elark' = [elark EXCEPT ![r].acked = TRUE]
              /\ socket' = rest
           \/ /\ message = "stdout"
              /\ elark' = [elark EXCEPT ![r].printed = @ + 1]
              /\ socket' = rest
           \/ message = "exit" /\ Exit(r, "exit code")
           \/ message = "error" /\ Exit(r, "1")
    /\ UNCHANGED <<thread, root, session, conn, callbacks, window, script, todo, target, daemon, told>>

\* Mutant: only an error of the daemon is thought of.
ReceiveFailsPlain(r) ==
    /\ elark[r].pc = "receive"
    /\ ClientReadFails(socket[r])
    /\ Exit(r, "1")
    /\ UNCHANGED <<thread, root, session, conn, callbacks, window, script, todo, target, daemon, told>>

ReceiveFails(r) ==
    /\ elark[r].pc = "receive"
    /\ ClientReadFails(socket[r])
    /\ Exit(r, IF elark[r].interrupt # "none" THEN "130" ELSE "1")
    /\ UNCHANGED <<thread, root, session, conn, callbacks, window, script, todo, target, daemon, told>>

\* SIGKILL, the terminal is closed, or the output cannot be written.
Killed(r) ==
    /\ Running(r)
    /\ Exit(r, "killed")
    /\ UNCHANGED <<thread, root, session, conn, callbacks, window, script, todo, target, daemon, told>>

\* elark kill names a connection, writes its message and leaves (runKill).
StartKill(k, r) ==
    /\ socket[k] = NoSocket
    /\ thread[k] = "none"
    /\ daemon \in {"running", "stopping"}
    /\ session[r] = "open"
    /\ target' = [target EXCEPT ![k] = r]
    /\ socket' = [socket EXCEPT ![k] = ClientCloses(Dialled("close_conn"))]
    /\ UNCHANGED <<elark, thread, root, session, conn, callbacks, window, script, todo, daemon, told>>

-----------------------------------------------------------------------------
(***************************************************************************)
(* The thread of a client in the daemon: serveConn, dispatch and the       *)
(* handlers of Local.  It handles one message at a time.                   *)
(***************************************************************************)
Goes(c, pc) == thread' = [thread EXCEPT ![c] = pc]

\* The run whose session a message of the client is about.
Subject(c) == IF c \in Kills THEN target[c] ELSE c

Accept(c) ==
    /\ thread[c] = "none"
    /\ socket[c].server
    /\ daemon \in {"running", "stopping"}
    /\ Goes(c, "accepted")
    /\ UNCHANGED <<elark, socket, root, session, conn, callbacks, window, script, todo, target,
                   daemon, told>>

\* The connection is entered in Server.conns, where Close finds it.
Serve(c) ==
    /\ thread[c] = "accepted"
    /\ Goes(c, "read")
    /\ UNCHANGED <<elark, socket, root, session, conn, callbacks, window, script, todo, target,
                   daemon, told>>

\* StartLocalSession enters the root message in the outbound manager.
ReadStart(r) ==
    /\ thread[r] = "read"
    /\ ServerReads(socket[r])
    /\ Head(socket[r].up) = "start_session"
    /\ socket' = [socket EXCEPT ![r].up = Tail(@)]
    /\ Goes(r, "opening")
    /\ root' = [root EXCEPT ![r] = "queued"]
    /\ UNCHANGED <<elark, session, conn, callbacks, window, script, todo, target, daemon, told>>

\* OpenRoot returns.
RootOpened(r) ==
    /\ thread[r] = "opening"
    /\ \/ root[r] = "posted" /\ Goes(r, "register")
       \/ root[r] = "failed" /\ Goes(r, "answer")
    /\ UNCHANGED <<elark, socket, root, session, conn, callbacks, window, script, todo, target,
                   daemon, told>>

RegisterLocal(r) ==
    /\ Free
    /\ thread[r] = "register"
    /\ session' = [session EXCEPT ![r] = "open"]
    /\ conn' = [conn EXCEPT ![r].state = "open"]
    /\ Goes(r, "read")
    /\ UNCHANGED <<elark, socket, root, callbacks, window, script, todo, target, daemon, told>>

\* sendLocalFrame and sendLocalConnFrame look the session up under the mutex.
ReadInput(c) ==
    /\ Free
    /\ thread[c] = "read"
    /\ ServerReads(socket[c])
    /\ LET message == Head(socket[c].up)
           closes == message \in {"close", "close_conn"}
       IN  /\ message # "start_session"
           /\ Goes(c, IF session[Subject(c)] = "open"
                      THEN IF closes THEN "enqueue close" ELSE "enqueue input"
                      ELSE IF closes THEN "answer close" ELSE "answer")
    /\ socket' = [socket EXCEPT ![c].up = Tail(@)]
    /\ UNCHANGED <<elark, root, session, conn, callbacks, window, script, todo, target, daemon, told>>

Enqueues == {"enqueue input", "enqueue close"}
FrameOf(pc) == IF pc = "enqueue close" THEN "close" ELSE "input"

\* Outbound.Enqueue, without the mutex: the connection may be gone by now.
Enqueue(c) ==
    LET r == Subject(c)
        frame == FrameOf(thread[c])
    IN  /\ thread[c] \in Enqueues
        /\ IF conn[r].state = "open"
           THEN /\ conn' = [conn EXCEPT ![r].queue = Append(@, frame)]
                /\ Goes(c, IF frame = "close" THEN "mark" ELSE "read")
           ELSE /\ UNCHANGED conn
                /\ Goes(c, IF frame = "close" THEN "answer close" ELSE "answer")
        /\ UNCHANGED <<elark, socket, root, session, callbacks, window, script, todo, target,
                       daemon, told>>

Drained(r) == [conn EXCEPT ![r].state = "gone", ![r].queue = << >>]

\* MarkCloseAfterDrained.
MarkClose(c) ==
    LET r == Subject(c)
        empty == conn[r].state = "open" /\ conn[r].queue = << >>
    IN  /\ thread[c] = "mark"
        /\ conn' = IF empty THEN Drained(r)
                   ELSE [conn EXCEPT ![r].closing = (conn[r].state = "open") \/ @]
        /\ callbacks' = IF empty THEN callbacks \union {<<"drained", r>>} ELSE callbacks
        /\ Goes(c, "read")
        /\ UNCHANGED <<elark, socket, root, session, window, script, todo, target, daemon, told>>

\* The error of a handler is written to the client; after a close that
\* failed the connection is closed.
Answer(c) ==
    /\ thread[c] \in {"answer", "answer close"}
    /\ ServerMayWrite(socket[c])
    /\ LET answered == ServerWrites(socket[c], "error")
       IN  IF thread[c] = "answer close" /\ c \in Runs
           THEN /\ socket' = [socket EXCEPT ![c] = ServerCloses(answered)]
                /\ Goes(c, "gone")
           ELSE /\ socket' = [socket EXCEPT ![c] = answered]
                /\ Goes(c, "read")
    /\ UNCHANGED <<elark, root, session, conn, callbacks, window, script, todo, target, daemon, told>>

\* The client has gone, or the server has closed the connection: the thread
\* ends, the session stays.
ReadFails(c) ==
    /\ thread[c] = "read"
    /\ ServerReadFails(socket[c])
    /\ socket' = [socket EXCEPT ![c] = ServerCloses(@)]
    /\ Goes(c, "gone")
    /\ UNCHANGED <<elark, root, session, conn, callbacks, window, script, todo, target, daemon, told>>

-----------------------------------------------------------------------------
(***************************************************************************)
(* The outbound manager: module Outbound.                                  *)
(***************************************************************************)
PostRoot(r) ==
    /\ root[r] = "queued"
    /\ daemon = "running"
    /\ root' = [root EXCEPT ![r] = "posted"]
    /\ UNCHANGED <<elark, socket, thread, session, conn, callbacks, window, script, todo, target,
                   daemon, told>>

RootFails(r) ==
    /\ root[r] = "queued"
    /\ root' = [root EXCEPT ![r] = "failed"]
    /\ UNCHANGED <<elark, socket, thread, session, conn, callbacks, window, script, todo, target,
                   daemon, told>>

PostFrame(r) ==
    LET posting == [conn EXCEPT ![r].queue = Tail(@), ![r].closed = @ \/ Head(conn[r].queue) = "close"]
        drains == conn[r].closing /\ Len(conn[r].queue) = 1
    IN  /\ conn[r].state = "open"
        /\ conn[r].queue # << >>
        /\ daemon = "running"
        /\ conn' = [posting EXCEPT ![r].state = IF drains THEN "gone" ELSE "open"]
        /\ callbacks' = IF drains THEN callbacks \union {<<"drained", r>>} ELSE callbacks
        /\ UNCHANGED <<elark, socket, thread, root, session, window, script, todo, target, daemon,
                       told>>

\* A send fails for good.
DropConn(r) ==
    /\ conn[r].state = "open"
    /\ daemon = "running"
    /\ conn' = Drained(r)
    /\ callbacks' = callbacks \union {<<"dropped", r>>}
    /\ UNCHANGED <<elark, socket, thread, root, session, window, script, todo, target, daemon, told>>

-----------------------------------------------------------------------------
(***************************************************************************)
(* The local half of session.Manager: callbacks of the outbound manager,   *)
(* messages of the remote, the ticker.                                     *)
(***************************************************************************)

\* Mutant: the session is closed but its connection is left.
CloseKeepsConn(r) ==
    /\ session' = [session EXCEPT ![r] = IF @ = "open" THEN "closed" ELSE @]
    /\ window' = [window EXCEPT ![r] = NewRecvWindow]
    /\ UNCHANGED conn

\* closeLocalLocked.
CloseSession(r) ==
    /\ session' = [session EXCEPT ![r] = IF @ = "open" THEN "closed" ELSE @]
    /\ conn' = IF session[r] = "open" THEN Drained(r) ELSE conn
    /\ window' = [window EXCEPT ![r] = NewRecvWindow]

\* OnDrained: CloseLocalConn, which tells the client nothing.
OnDrained(r) ==
    /\ Free
    /\ <<"drained", r>> \in callbacks
    /\ callbacks' = callbacks \ {<<"drained", r>>}
    /\ CloseSession(r)
    /\ UNCHANGED <<elark, socket, thread, root, script, todo, target, daemon, told>>

\* Mutant: a session that is over is told of the drop all the same.
OnDropAlways(r) ==
    /\ Free
    /\ <<"dropped", r>> \in callbacks
    /\ callbacks' = callbacks \ {<<"dropped", r>>}
    /\ todo' = <<Deliver("error", r), Close(r)>>
    /\ UNCHANGED <<elark, socket, thread, root, session, conn, window, script, target, daemon, told>>

\* Mutant: like OnDrained.
OnDropSilent(r) ==
    /\ Free
    /\ <<"dropped", r>> \in callbacks
    /\ callbacks' = callbacks \ {<<"dropped", r>>}
    /\ todo' = <<Close(r)>>
    /\ UNCHANGED <<elark, socket, thread, root, session, conn, window, script, target, daemon, told>>

\* OnDrop: handleLocalOutboundDrop.
OnDrop(r) ==
    /\ Free
    /\ <<"dropped", r>> \in callbacks
    /\ callbacks' = callbacks \ {<<"dropped", r>>}
    /\ todo' = IF session[r] = "open" THEN <<Deliver("error", r), Close(r)>> ELSE << >>
    /\ UNCHANGED <<elark, socket, thread, root, session, conn, window, script, target, daemon, told>>

\* ReceiveLocal: a message with frames first .. last of the remote.  Without
\* a session the message is ignored and changes nothing.
ReceiveLocal(r, first, last) ==
    /\ Free
    /\ daemon = "running"
    /\ session[r] = "open"
    /\ root[r] = "posted"
    /\ first <= last /\ last <= Len(script[r])
    /\ todo' = [i \in 1 .. last - first + 1 |-> Offer(first + i - 1, r)]
    /\ UNCHANGED <<elark, socket, thread, root, session, conn, callbacks, window, script, target,
                   daemon, told>>

\* The events of frames first .. last: one that ends the session is the last.
EventsOf(r, first, last) ==
    LET ending == {i \in first .. last : script[r][i] \in Ends}
        upTo == IF ending = {} THEN last ELSE CHOOSE i \in ending : \A j \in ending : i <= j
    IN  [i \in 1 .. upTo - first + 1 |-> Deliver(script[r][first + i - 1], r)]

\* The next frame of the message is offered to the window.
OfferStep ==
    LET step == Head(todo)
        r == step.run
        w == window[r]
        result == OfferResult(w, step.seq)
    IN  /\ ~Free
        /\ step.op = "offer"
        /\ \/ /\ result = "gap_timeout"
              /\ window' = [window EXCEPT ![r] = CheckGapTimeoutAt(w)]
              /\ todo' = <<Deliver("error", r), Close(r)>>
           \/ /\ result = "duplicate"
              /\ window' = [window EXCEPT ![r] = CheckGapTimeoutAt(w)]
              /\ todo' = Tail(todo)
           \/ /\ result = "buffered"
              /\ window' = [window EXCEPT ![r] = Buffered(CheckGapTimeoutAt(w), step.seq)]
              /\ todo' = Tail(todo)
           \/ /\ result = "delivered"
              /\ \E last \in Seqs :
                    /\ Completes(CheckGapTimeoutAt(w), step.seq, last)
                    /\ window' = [window EXCEPT ![r] = Advanced(CheckGapTimeoutAt(w), last)]
                    /\ todo' = EventsOf(r, step.seq, last) \o Tail(todo)
        /\ UNCHANGED <<elark, socket, thread, root, session, conn, callbacks, script, target,
                       daemon, told>>

\* The history of what a session gave to its client.
Tell(r, event) ==
    [told EXCEPT ![r] = IF @ # "events" THEN "more"
                        ELSE IF event \in Ends THEN "end" ELSE "events"]

\* Mutant: what does not fit the socket is thrown away.
DeliverStepLossy ==
    LET step == Head(todo)
        r == step.run
    IN  /\ ~Free
        /\ step.op = "deliver"
        /\ socket' = IF ServerMayWrite(socket[r])
                     THEN [socket EXCEPT ![r] = ServerWrites(@, MessageOf(step.event))] ELSE socket
        /\ told' = Tell(r, step.event)
        /\ todo' = IF step.event \in Ends THEN <<Close(r)>>
                   ELSE IF Connected(socket[r]) THEN Tail(todo)
                   ELSE << >>
        /\ UNCHANGED <<elark, thread, root, session, conn, callbacks, window, script, target, daemon>>

\* Mutant: the write does not wait.
DeliverStepFull ==
    LET step == Head(todo)
        r == step.run
    IN  /\ ~Free
        /\ step.op = "deliver"
        /\ socket' = [socket EXCEPT ![r] = ServerWrites(@, MessageOf(step.event))]
        /\ told' = Tell(r, step.event)
        /\ todo' = IF step.event \in Ends THEN <<Close(r)>> ELSE Tail(todo)
        /\ UNCHANGED <<elark, thread, root, session, conn, callbacks, window, script, target, daemon>>

\* Mutant: the write waits for a client that has gone.
DeliverStepStubborn ==
    LET step == Head(todo)
        r == step.run
    IN  /\ ~Free
        /\ step.op = "deliver"
        /\ Len(socket[r].down) < SocketSize
        /\ Connected(socket[r])
        /\ socket' = [socket EXCEPT ![r] = ServerWrites(@, MessageOf(step.event))]
        /\ told' = Tell(r, step.event)
        /\ todo' = IF step.event \in Ends THEN <<Close(r)>> ELSE Tail(todo)
        /\ UNCHANGED <<elark, thread, root, session, conn, callbacks, window, script, target, daemon>>

\* ipcSubscriber.Deliver.  It waits for a client that does not read, until
\* the daemon is stopped.  When it fails the rest of the message is given
\* up, but an event that ends the session does so all the same.
DeliverStep ==
    LET step == Head(todo)
        r == step.run
        writes == Connected(socket[r]) /\ Len(socket[r].down) < SocketSize
    IN  /\ ~Free
        /\ step.op = "deliver"
        /\ writes \/ ~Connected(socket[r]) \/ daemon # "running"
        /\ socket' = IF writes THEN [socket EXCEPT ![r] = ServerWrites(@, MessageOf(step.event))]
                     ELSE socket
        /\ told' = Tell(r, step.event)
        /\ todo' = IF step.event \in Ends THEN <<Close(r)>>
                   ELSE IF writes THEN Tail(todo)
                   ELSE << >>
        /\ UNCHANGED <<elark, thread, root, session, conn, callbacks, window, script, target, daemon>>

CloseStep ==
    /\ ~Free
    /\ Head(todo).op = "close"
    /\ CloseSession(Head(todo).run)
    /\ todo' = << >>
    /\ UNCHANGED <<elark, socket, thread, root, callbacks, script, target, daemon, told>>

\* Tick finds a gap that has timed out, or that the remote has been silent
\* for too long.
Tick(r) ==
    /\ Free
    /\ session[r] = "open"
    /\ daemon = "running"
    /\ window' = [window EXCEPT ![r] = CheckGapTimeoutAt(@)]
    /\ todo' = <<Deliver("error", r), Close(r)>>
    /\ UNCHANGED <<elark, socket, thread, root, session, conn, callbacks, script, target, daemon, told>>

Elapse(r) ==
    /\ window[r].gapOpen
    /\ session[r] = "open"
    /\ window' = [window EXCEPT ![r] = Aged(@)]
    /\ UNCHANGED <<elark, socket, thread, root, session, conn, callbacks, script, todo, target,
                   daemon, told>>

-----------------------------------------------------------------------------
(***************************************************************************)
(* Stopping the daemon: runForeground and Local.run cancel their context,  *)
(* which ends the event source, the ticker and chatQueue.run; then the IPC *)
(* server is closed, which waits for its threads.                          *)
(***************************************************************************)
Stop ==
    /\ CanStop
    /\ daemon = "running"
    /\ daemon' = "stopping"
    /\ UNCHANGED <<elark, socket, thread, root, session, conn, callbacks, window, script, todo,
                   target, told>>

\* Mutant: only the listener is closed.
CloseListener ==
    /\ daemon = "stopping"
    /\ daemon' = "closed"
    /\ socket' = [c \in Clients |-> IF thread[c] # "none" THEN socket[c]
                                    ELSE ServerCloses(socket[c])]
    /\ UNCHANGED <<elark, thread, root, session, conn, callbacks, window, script, todo, target, told>>

\* The listener is closed, which resets the connections that nobody has
\* accepted, and the connections in Server.conns.
CloseServer ==
    /\ daemon = "stopping"
    /\ daemon' = "closed"
    /\ socket' = [c \in Clients |-> IF thread[c] = "accepted" THEN socket[c]
                                    ELSE ServerCloses(socket[c])]
    /\ UNCHANGED <<elark, thread, root, session, conn, callbacks, window, script, todo, target, told>>

Stopped ==
    /\ daemon = "closed"
    /\ \A c \in Clients : thread[c] \in {"none", "gone"}
    /\ daemon' = "stopped"
    /\ UNCHANGED <<elark, socket, thread, root, session, conn, callbacks, window, script, todo,
                   target, told>>

-----------------------------------------------------------------------------
Elark(r) ==
    \/ StartElark(r) \/ StdinEnds(r) \/ ForwardInput(r) \/ Interrupt(r) \/ InterruptCloses(r)
    \/ ReceiveMessage(r) \/ ReceiveFails(r) \/ Killed(r)

Thread(c) ==
    \/ Accept(c) \/ Serve(c) \/ ReadInput(c) \/ Enqueue(c) \/ MarkClose(c) \/ Answer(c)
    \/ ReadFails(c)
    \/ c \in Runs /\ (ReadStart(c) \/ RootOpened(c) \/ RegisterLocal(c))

OutboundManager(r) == PostRoot(r) \/ RootFails(r) \/ PostFrame(r) \/ DropConn(r)

Holder == OfferStep \/ DeliverStep \/ CloseStep

Next ==
    \/ \E r \in Runs : \/ Elark(r) \/ OutboundManager(r)
                       \/ OnDrained(r) \/ OnDrop(r) \/ Tick(r) \/ Elapse(r)
                       \/ \E first, last \in Seqs : ReceiveLocal(r, first, last)
                       \/ \E k \in Kills : StartKill(k, r)
    \/ \E c \in Clients : Thread(c)
    \/ Holder
    \/ Stop \/ CloseServer \/ Stopped

Spec == Init /\ [][Next]_vars

\* Goroutines go on, elark reads what it is sent, and what is piped into it ends
\* some day.  That the queue is sent is an assumption about Lark, not a promise
\* of the code: its requests have no timeout, and while Lark does not answer one
\* nothing below has to happen (Silence of module Outbound).
FairSpec ==
    /\ Spec
    /\ WF_vars(Holder)
    /\ \A c \in Clients : SF_vars(Thread(c))
    /\ \A r \in Runs :
          /\ WF_vars(PostRoot(r)) /\ WF_vars(PostFrame(r))
          /\ SF_vars(OnDrained(r)) /\ SF_vars(OnDrop(r))
          /\ WF_vars(ReceiveMessage(r)) /\ WF_vars(ReceiveFails(r))
          /\ WF_vars(InterruptCloses(r)) /\ WF_vars(StdinEnds(r))
    /\ WF_vars(CloseServer) /\ WF_vars(Stopped)
-----------------------------------------------------------------------------
Pcs == {"none", "accepted", "read", "opening", "register", "mark", "answer", "answer close", "gone"}
           \union Enqueues

TypeOK ==
    /\ elark \in [Runs -> [pc : {"new", "stdin", "receive", "exited"}, tty : BOOLEAN, acked : BOOLEAN,
                           interrupt : {"none", "set", "written", "closed"},
                           inputs : 0 .. MaxInputs, printed : 0 .. MaxSeq, code : Codes]]
    /\ socket \in [Clients -> Socket]
    /\ \A c \in Clients : Len(socket[c].down) <= SocketSize
    /\ thread \in [Clients -> Pcs]
    /\ root \in [Runs -> {"none", "queued", "posted", "failed"}]
    /\ session \in [Runs -> {"none", "open", "closed"}]
    /\ conn \in [Runs -> [state : {"none", "open", "gone"}, queue : Seq({"input", "close"}),
                          closing : BOOLEAN, closed : BOOLEAN]]
    /\ callbacks \subseteq {"drained", "dropped"} \X Runs
    /\ window \in [Runs -> Window]
    /\ script \in [Runs -> Scripts]
    /\ todo \in Seq([op : {"offer", "deliver", "close"}, run : Runs, event : Frames \union {""},
                     seq : 0 .. MaxSeq])
    /\ target \in [Kills -> Clients]
    /\ daemon \in {"running", "stopping", "closed", "stopped"}
    /\ told \in [Runs -> {"events", "end", "more"}]

\* An elark that reports the exit code of the command has printed all its
\* output first, whatever the chat loses, repeats or reorders, and however
\* slowly elark reads: the receive window, the write that waits, and the
\* socket, together.
ExitCodeAfterOutput ==
    \A r \in Runs : elark[r].code = "exit code" =>
        elark[r].printed = Cardinality({i \in DOMAIN script[r] : script[r][i] = "stdout"})

\* A session ends once and tells its client nothing more: an exit, an error
\* of the remote, a gap, a silent peer and a dropped connection race for it,
\* and each of them must find out that it came too late.
NothingAfterEnd == \A r \in Runs : told[r] # "more"

\* The local sessions and the connections of the outbound manager are the
\* same but for the callback that is to close the session, so no connection
\* goes on with heartbeats for a session that is over and no session waits
\* on a connection that has gone (RegisterLocal, closeLocalLocked).
SessionsMatchConnections ==
    \A r \in Runs :
        /\ conn[r].state = "open" => session[r] = "open"
        /\ session[r] = "open" /\ conn[r].state = "gone" =>
              \/ \E cause \in {"drained", "dropped"} : <<cause, r>> \in callbacks
              \/ \E i \in DOMAIN todo : todo[i].run = r /\ todo[i].op \in {"deliver", "close"}

\* An elark that was interrupted and has closed its connection exits with
\* 130, though its main goroutine only sees a read that fails (or, while it
\* still sends what was piped in, a write).
InterruptReported ==
    \A r \in Runs :
        elark[r].interrupt \in {"written", "closed"} /\ elark[r].pc = "exited" =>
            elark[r].code \in {"130", "send stdin", "killed"}

\* Ctrl-C ends the command: once the close is written, also while the root
\* message is still being sent, it is posted in the end unless the session is
\* over anyway, though the elark that wrote it has long gone.  Lark has answered
\* the root message then, and is assumed to answer the rest.
InterruptReachesRemote ==
    \A r \in Runs :
        (elark[r].interrupt = "written" /\ root[r] = "posted") ~>
            (conn[r].closed \/ session[r] = "closed" \/ daemon # "running")

\* The mutex of all sessions is given back, when the clients read what they
\* are sent or go away.
MutexReleased == (todo # << >>) ~> (todo = << >>)

\* A session that is over has its elark exit: it is told, or its connection
\* is closed.  Only elark kill leaves it waiting for ever: the close is posted,
\* OnDrained closes the session, and no event says so.
ElarkIsTold ==
    \A r \in Runs :
        (session[r] = "closed") ~> (elark[r].pc = "exited" \/ \E k \in Kills : target[k] = r)

\* A daemon that is told to stop does, unless a handler still waits for its
\* root message, which nobody sends any more, or a connection was accepted
\* that Server.Close could not find: for these two Close waits for ever.
StopCompletes ==
    (daemon = "stopping") ~>
        \/ daemon = "stopped"
        \/ \E r \in Runs : root[r] = "queued"
        \/ daemon = "closed" /\ \E c \in Clients : thread[c] = "accepted" /\ socket[c].server

=============================================================================
