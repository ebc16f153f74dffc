----------------------------- MODULE LocalProofs -----------------------------
(***************************************************************************)
(* Theorems about the requesting side, for any number of elark and elark   *)
(* kill processes, any answers of the remote side within its contract, and *)
(* a socket of any size.                                                   *)
(***************************************************************************)
EXTENDS Local, FiniteSetTheorems, SequenceTheorems, WellFoundedInduction, TLAPS

(***************************************************************************)
(* The inductive invariant.  Its parts are about what the holder of        *)
(* Manager.mu has to do, the start of a session, what a session tells its  *)
(* client, its connection, its window, the output on its way to the        *)
(* client, and an elark that was interrupted.                              *)
(***************************************************************************)

\* The steps of one message: events, then frames that are still to be
\* offered; or the end of a session.  They are all of one session.
TodoInv ==
    todo # << >> =>
        LET r == todo[1].run
        IN  /\ session[r] = "open"
            /\ \A i \in 1 .. Len(todo) :
                  /\ todo[i].run = r
                  /\ todo[i].op = "offer" => todo[i].seq \in 1 .. Len(script[r])
                  /\ todo[i].op = "deliver" => todo[i].event \in Frames /\ todo[i].seq = 0
            /\ \A i, j \in 1 .. Len(todo) : i < j =>
                  /\ todo[i].op = "offer" => todo[j].op = "offer"
                  /\ todo[i].op = "deliver" /\ todo[i].event \in Ends => todo[j].op # "deliver"
                  /\ todo[j].op = "close" => todo[i].op = "deliver" /\ todo[i].event \in Ends
                  /\ todo[i].op # "close"

\* The close that ends the session of r is due.
CloseIsDue(r) == todo # << >> /\ todo[Len(todo)] = Close(r)

\* A session is started by the first message of its client, once.
StartInv(r) ==
    /\ elark[r].pc = "new" => /\ socket[r] = NoSocket /\ thread[r] = "none" /\ root[r] = "none"
                              /\ elark[r].printed = 0
    /\ \A i \in 1 .. Len(socket[r].up) :
          socket[r].up[i] = "start_session" => i = 1 /\ root[r] = "none"
    /\ root[r] = "none" => session[r] = "none" /\ thread[r] \notin {"opening", "register"}
    /\ thread[r] \in {"opening", "register"} => session[r] = "none"

ToldInv(r) ==
    /\ told[r] # "more"
    /\ session[r] = "none" => told[r] = "events"
    /\ session[r] = "open" /\ told[r] # "events" => todo = <<Close(r)>>

ConnInv(r) ==
    /\ session[r] = "none" => conn[r].state = "none"
    /\ conn[r].state = "open" => session[r] = "open"
    /\ session[r] = "open" =>
          \/ conn[r].state = "open"
          \/ \E cause \in {"drained", "dropped"} : <<cause, r>> \in callbacks
          \/ CloseIsDue(r)

\* Nothing is pending that the remote did not number.
WindowInv(r) ==
    /\ window[r].next \in 1 .. Len(script[r]) + 1
    /\ window[r].pending \subseteq 1 .. Len(script[r])
    /\ session[r] # "open" => window[r] = NewRecvWindow

\* How much output there is in a sequence of messages, among the first n
\* frames of the answer to r, and in the events for r that are to be
\* delivered.
Places(s, x) == {i \in 1 .. Len(s) : s[i] = x}
HowMany(s, x) == Cardinality(Places(s, x))
Stdouts(messages) == HowMany(messages, "stdout")
Answered(r, n) == Cardinality({i \in 1 .. n : script[r][i] = "stdout"})
Due(r, what) == Places(todo, Deliver(what, r))
Output(r) == elark[r].printed + Stdouts(socket[r].down) + Cardinality(Due(r, "stdout"))

\* The holder of the mutex has not given up on r.
InHand(r) ==
    /\ session[r] = "open"
    /\ told[r] = "events"
    /\ Connected(socket[r])
    /\ daemon = "running" \/ (todo # << >> /\ todo[1].run = r)
    /\ \A what \in Ends : Due(r, what) = {}

CountInv(r) ==
    /\ session[r] = "none" => elark[r].printed = 0 /\ Stdouts(socket[r].down) = 0
    /\ Output(r) <= Answered(r, IF session[r] = "open" THEN window[r].next - 1 ELSE Len(script[r]))
    /\ InHand(r) => Output(r) = Answered(r, window[r].next - 1)
    /\ Connected(socket[r]) /\ Due(r, "exit") # {} => Output(r) = Answered(r, Len(script[r]))

ExitInv(r) ==
    /\ \A i \in 1 .. Len(socket[r].down) : socket[r].down[i] = "exit" =>
          /\ told[r] # "events"
          /\ elark[r].printed + Stdouts(socket[r].down) = Answered(r, Len(script[r]))
          /\ \A j \in i .. Len(socket[r].down) : socket[r].down[j] # "stdout"
    /\ elark[r].code = "exit code" =>
          elark[r].pc = "exited" /\ elark[r].printed = Answered(r, Len(script[r]))

InterruptInv(r) ==
    /\ elark[r].pc = "new" => elark[r].interrupt = "none"
    /\ elark[r].interrupt \in {"written", "closed"} => ~socket[r].client
    /\ elark[r].interrupt \in {"written", "closed"} /\ elark[r].pc = "exited" =>
          elark[r].code \in {"130", "send stdin", "killed"}

KillInv(k) == socket[k].server \/ thread[k] # "none" => target[k] \in Runs

-----------------------------------------------------------------------------
Process == [pc : {"new", "stdin", "receive", "exited"}, tty : BOOLEAN, acked : BOOLEAN,
            interrupt : {"none", "set", "written", "closed"},
            inputs : 0 .. MaxInputs, printed : Nat, code : Codes]
Connection == [state : {"none", "open", "gone"}, queue : Seq({"input", "close"}),
               closing : BOOLEAN, closed : BOOLEAN]
Step == [op : {"offer", "deliver", "close"}, run : Runs, event : Frames \union {""},
         seq : 0 .. MaxSeq]

ElarkTypes == elark \in [Runs -> Process]
SocketTypes ==
    /\ socket \in [Clients -> Socket]
    /\ \A c \in Clients : Len(socket[c].down) <= SocketSize
ThreadTypes ==
    /\ thread \in [Clients -> Pcs]
    /\ root \in [Runs -> {"none", "queued", "posted", "failed"}]
    /\ target \in [Kills -> Clients]
    /\ daemon \in {"running", "stopping", "closed", "stopped"}
SessionTypes ==
    /\ session \in [Runs -> {"none", "open", "closed"}]
    /\ conn \in [Runs -> Connection]
    /\ callbacks \subseteq {"drained", "dropped"} \X Runs
ScriptTypes ==
    /\ script \in [Runs -> Scripts]
    /\ told \in [Runs -> {"events", "end", "more"}]
WindowTypes == window \in [Runs -> Window]
TodoTypes == todo \in Seq(Step)

\* The types, but for how much an elark can print (CountInv).
LocalTypes ==
    /\ ElarkTypes /\ SocketTypes /\ ThreadTypes /\ SessionTypes /\ ScriptTypes /\ WindowTypes
    /\ TodoTypes

LocalInv ==
    /\ LocalTypes
    /\ TodoInv
    /\ \A r \in Runs : /\ StartInv(r) /\ ToldInv(r) /\ ConnInv(r) /\ WindowInv(r)
                       /\ CountInv(r) /\ ExitInv(r) /\ InterruptInv(r)
    /\ \A k \in Kills : KillInv(k)

-----------------------------------------------------------------------------
(***************************************************************************)
(* Every step keeps the types.                                             *)
(***************************************************************************)
LEMMA SocketOps ==
    ASSUME NEW s \in Socket
    PROVE  /\ ClientCloses(s) \in Socket /\ ServerCloses(s) \in Socket
           /\ \A m \in ClientMessages : ClientWrites(s, m) \in Socket /\ Dialled(m) \in Socket
           /\ \A m \in ServerMessages : ServerWrites(s, m) \in Socket
           /\ NoSocket \in Socket
<1>1. /\ ClientCloses(s) \in Socket /\ ServerCloses(s) \in Socket /\ NoSocket \in Socket
  <2>1. << >> \in Seq(ClientMessages) /\ << >> \in Seq(ServerMessages)
    OBVIOUS
  <2>2. ClientCloses(s) \in Socket
    BY <2>1 DEF Socket, ClientCloses
  <2>3. ServerCloses(s) \in Socket
    BY <2>1 DEF Socket, ServerCloses
  <2>4. NoSocket \in Socket
    BY <2>1 DEF Socket, NoSocket
  <2> QED BY <2>2, <2>3, <2>4
<1>2. ASSUME NEW m \in ClientMessages PROVE ClientWrites(s, m) \in Socket /\ Dialled(m) \in Socket
  <2>1. Append(s.up, m) \in Seq(ClientMessages) /\ <<m>> \in Seq(ClientMessages)
    BY DEF Socket
  <2>2. [s EXCEPT !.up = Append(@, m)] \in Socket
    BY <2>1 DEF Socket
  <2> QED BY <2>1, <2>2 DEF Socket, ClientWrites, Dialled
<1>3. ASSUME NEW m \in ServerMessages PROVE ServerWrites(s, m) \in Socket
  <2>1. Append(s.down, m) \in Seq(ServerMessages)
    BY DEF Socket
  <2>2. [s EXCEPT !.down = Append(@, m)] \in Socket
    BY <2>1 DEF Socket
  <2> QED BY <2>2 DEF ServerWrites
<1> QED BY <1>1, <1>2, <1>3

\* What the operations of a socket do to its parts.
LEMMA SocketFields ==
    ASSUME NEW s \in Socket
    PROVE  /\ ClientCloses(s).down = << >> /\ ClientCloses(s).up = s.up
           /\ ClientCloses(s).client = FALSE /\ ClientCloses(s).server = s.server
           /\ ServerCloses(s).down = s.down /\ ServerCloses(s).up = << >>
           /\ ServerCloses(s).client = s.client /\ ServerCloses(s).server = FALSE
           /\ \A m : /\ ClientWrites(s, m).down = s.down
                     /\ ClientWrites(s, m).up = IF Connected(s) THEN Append(s.up, m) ELSE s.up
                     /\ ClientWrites(s, m).client = s.client
                     /\ ClientWrites(s, m).server = s.server
                     /\ ServerWrites(s, m).down = IF Connected(s) THEN Append(s.down, m) ELSE s.down
                     /\ ServerWrites(s, m).up = s.up
                     /\ ServerWrites(s, m).client = s.client
                     /\ ServerWrites(s, m).server = s.server
  BY DEF Socket, ClientCloses, ServerCloses, ClientWrites, ServerWrites

LEMMA SameSocket ==
    ASSUME NEW s \in Socket, NEW t \in Socket,
           s.up = t.up, s.down = t.down, s.client = t.client, s.server = t.server
    PROVE  s = t
  BY DEF Socket

\* A socket is replaced by one that is not fuller.
LEMMA SocketUpdate ==
    ASSUME SocketTypes, NEW c \in Clients, NEW s \in Socket, Len(s.down) <= SocketSize,
           socket' = [socket EXCEPT ![c] = s]
    PROVE  SocketTypes'
  BY DEF SocketTypes

LEMMA ElarkUpdate ==
    ASSUME ElarkTypes, NEW r \in Runs, NEW k \in Process, elark' = [elark EXCEPT ![r] = k]
    PROVE  ElarkTypes'
  BY DEF ElarkTypes

\* An elark stays one whatever it does.
LEMMA ProcessOps ==
    ASSUME NEW p \in Process
    PROVE  /\ \A pc \in {"stdin", "receive"}, tty \in BOOLEAN : [p EXCEPT !.tty = tty, !.pc = pc] \in Process
           /\ [p EXCEPT !.pc = "receive"] \in Process
           /\ [p EXCEPT !.pc = "exited", !.code = "send stdin", !.inputs = 0] \in Process
           /\ p.inputs < MaxInputs => [p EXCEPT !.inputs = @ + 1] \in Process
           /\ \A i \in {"set", "written", "closed"} : [p EXCEPT !.interrupt = i] \in Process
           /\ [p EXCEPT !.acked = TRUE] \in Process
           /\ [p EXCEPT !.printed = @ + 1] \in Process
           /\ \A code \in Codes : [p EXCEPT !.pc = "exited", !.code = code, !.tty = FALSE,
                                            !.acked = FALSE, !.inputs = 0] \in Process
<1>1. 0 \in 0 .. MaxInputs /\ "send stdin" \in Codes
  BY LocalAssumption DEF Codes
<1>2. ASSUME NEW pc \in {"stdin", "receive"}, NEW tty \in BOOLEAN
      PROVE  [p EXCEPT !.tty = tty, !.pc = pc] \in Process
  BY DEF Process
<1>3. [p EXCEPT !.pc = "receive"] \in Process
  BY DEF Process
<1>4. [p EXCEPT !.pc = "exited", !.code = "send stdin", !.inputs = 0] \in Process
  BY <1>1 DEF Process
<1>5. ASSUME p.inputs < MaxInputs PROVE [p EXCEPT !.inputs = @ + 1] \in Process
  <2>1. p.inputs + 1 \in 0 .. MaxInputs
    BY <1>5, LocalAssumption DEF Process
  <2> QED BY <2>1 DEF Process
<1>6. ASSUME NEW i \in {"set", "written", "closed"} PROVE [p EXCEPT !.interrupt = i] \in Process
  BY DEF Process
<1>7. [p EXCEPT !.acked = TRUE] \in Process
  BY DEF Process
<1>8. [p EXCEPT !.printed = @ + 1] \in Process
  <2>1. p.printed + 1 \in Nat
    BY DEF Process
  <2> QED BY <2>1 DEF Process
<1>9. ASSUME NEW code \in Codes
      PROVE  [p EXCEPT !.pc = "exited", !.code = code, !.tty = FALSE, !.acked = FALSE, !.inputs = 0]
                \in Process
  BY <1>1 DEF Process
<1> QED BY <1>2, <1>3, <1>4, <1>5, <1>6, <1>7, <1>8, <1>9

LEMMA ExitTypes ==
    ASSUME ElarkTypes, SocketTypes, NEW r \in Runs, NEW code \in Codes, Exit(r, code)
    PROVE  ElarkTypes' /\ SocketTypes'
<1> DEFINE k == [elark[r] EXCEPT !.pc = "exited", !.code = code, !.tty = FALSE,
                                 !.acked = FALSE, !.inputs = 0]
<1>1. elark[r] \in Process /\ elark' = [elark EXCEPT ![r] = k]
  BY DEF Exit, ElarkTypes
<1>2. k \in Process
  BY <1>1, ProcessOps
<1>3. /\ r \in Clients /\ socket[r] \in Socket
      /\ socket' = [socket EXCEPT ![r] = ClientCloses(socket[r])]
  BY DEF Exit, SocketTypes, Clients
<1>4. ClientCloses(socket[r]) \in Socket /\ ClientCloses(socket[r]).down = << >>
  BY <1>3, SocketOps, SocketFields
<1>5. Len(<< >>) <= SocketSize
  BY SocketAssumption
<1> HIDE DEF k
<1> QED BY <1>1, <1>2, <1>3, <1>4, <1>5, ElarkUpdate, SocketUpdate

\* A step of an elark changes its process and its end of the socket.
LEMMA ElarkStepTypes ==
    ASSUME ElarkTypes, SocketTypes, NEW r \in Runs, Elark(r)
    PROVE  ElarkTypes' /\ SocketTypes'
<1> DEFINE p == elark[r]
           s == socket[r]
<1>1. /\ p \in Process /\ r \in Clients /\ s \in Socket /\ Len(s.down) <= SocketSize
  BY DEF ElarkTypes, SocketTypes, Clients
<1>2. Codes = {"none", "exit code", "1", "send stdin", "130", "killed"}
  BY DEF Codes
<1>3. /\ ClientWrites(s, "input") \in Socket /\ ClientWrites(s, "close") \in Socket
      /\ ClientCloses(ClientWrites(s, "close")) \in Socket
      /\ Dialled("start_session") \in Socket
  <2>1. "input" \in ClientMessages /\ "close" \in ClientMessages /\ "start_session" \in ClientMessages
    BY DEF ClientMessages
  <2> QED BY <1>1, <2>1, SocketOps
<1>4. /\ ClientWrites(s, "input").down = s.down
      /\ ClientCloses(ClientWrites(s, "close")).down = << >>
      /\ Dialled("start_session").down = << >> /\ Len(<< >>) <= SocketSize
  <2>1. ClientWrites(s, "input").down = s.down
    BY <1>1, SocketFields
  <2>2. ClientCloses(ClientWrites(s, "close")).down = << >>
    BY <1>3, SocketFields
  <2>3. Dialled("start_session").down = << >>
    BY DEF Dialled
  <2>4. Len(<< >>) <= SocketSize
    BY SocketAssumption
  <2> QED BY <2>1, <2>2, <2>3, <2>4
<1> HIDE DEF p, s
<1>5. CASE StartElark(r)
  <2>1. CASE daemon \in {"running", "stopping"}
    <3>1. PICK tty \in BOOLEAN, pc \in {"stdin", "receive"} :
             elark' = [elark EXCEPT ![r].tty = tty, ![r].pc = pc]
      BY <1>5, <2>1 DEF StartElark
    <3>2. [p EXCEPT !.tty = tty, !.pc = pc] \in Process
      BY <1>1, ProcessOps
    <3>3. elark' = [elark EXCEPT ![r] = [p EXCEPT !.tty = tty, !.pc = pc]]
      BY <3>1 DEF ElarkTypes, p
    <3>4. socket' = [socket EXCEPT ![r] = Dialled("start_session")]
      BY <1>5, <2>1 DEF StartElark
    <3> QED BY <1>1, <1>3, <1>4, <3>2, <3>3, <3>4, ElarkUpdate, SocketUpdate
  <2>2. CASE daemon \notin {"running", "stopping"}
    BY <1>2, <1>5, <2>2, ExitTypes DEF StartElark
  <2> QED BY <2>1, <2>2
<1>6. CASE StdinEnds(r)
  <2>1. SocketTypes'
    <3>1. \/ socket' = [socket EXCEPT ![r] = ClientWrites(s, "input")]
          \/ UNCHANGED socket
      BY <1>6 DEF StdinEnds, s
    <3>2. CASE UNCHANGED socket BY <3>2 DEF SocketTypes
    <3> QED BY <1>1, <1>3, <1>4, <3>1, <3>2, SocketUpdate
  <2>2. \/ elark' = [elark EXCEPT ![r] = [p EXCEPT !.pc = "receive"]]
        \/ elark' = [elark EXCEPT ![r] = [p EXCEPT !.pc = "exited", !.code = "send stdin",
                                                    !.inputs = 0]]
    BY <1>6 DEF StdinEnds, p
  <2>3. /\ [p EXCEPT !.pc = "receive"] \in Process
        /\ [p EXCEPT !.pc = "exited", !.code = "send stdin", !.inputs = 0] \in Process
    BY <1>1, ProcessOps
  <2> QED BY <1>1, <2>1, <2>2, <2>3, ElarkUpdate
<1>7. CASE ForwardInput(r)
  <2>1. elark' = [elark EXCEPT ![r] = [p EXCEPT !.inputs = @ + 1]] /\ p.inputs < MaxInputs
    BY <1>7 DEF ForwardInput, p
  <2>2. [p EXCEPT !.inputs = @ + 1] \in Process
    BY <1>1, <2>1, ProcessOps
  <2>3. socket' = [socket EXCEPT ![r] = ClientWrites(s, "input")]
    BY <1>7 DEF ForwardInput, s
  <2> QED BY <1>1, <1>3, <1>4, <2>1, <2>2, <2>3, ElarkUpdate, SocketUpdate
<1>8. CASE Interrupt(r)
  <2>1. elark' = [elark EXCEPT ![r] = [p EXCEPT !.interrupt = "set"]] /\ UNCHANGED socket
    BY <1>8 DEF Interrupt, p
  <2>2. [p EXCEPT !.interrupt = "set"] \in Process
    BY <1>1, ProcessOps
  <2>3. SocketTypes' BY <2>1 DEF SocketTypes
  <2> QED BY <2>1, <2>2, <2>3, ElarkUpdate
<1>9. CASE InterruptCloses(r)
  <2>1. PICK i \in {"written", "closed"} : elark' = [elark EXCEPT ![r] = [p EXCEPT !.interrupt = i]]
    BY <1>9 DEF InterruptCloses, p
  <2>2. [p EXCEPT !.interrupt = i] \in Process
    BY <1>1, ProcessOps
  <2>3. socket' = [socket EXCEPT ![r] = ClientCloses(ClientWrites(s, "close"))]
    BY <1>9 DEF InterruptCloses, s
  <2> QED BY <1>1, <1>3, <1>4, <2>1, <2>2, <2>3, ElarkUpdate, SocketUpdate
<1>10. CASE ReceiveMessage(r)
  <2> DEFINE rest == [s EXCEPT !.down = Tail(@)]
  <2>1. s.down # << >> /\ s.down \in Seq(ServerMessages)
    BY <1>1, <1>10 DEF ReceiveMessage, ClientReads, s, Socket
  <2>2. Tail(s.down) \in Seq(ServerMessages) /\ Len(Tail(s.down)) <= SocketSize
    BY <1>1, <2>1, SocketAssumption
  <2>3. rest \in Socket /\ rest.down = Tail(s.down)
    BY <1>1, <2>2 DEF Socket
  <2>4. \/ /\ elark' = [elark EXCEPT ![r] = [p EXCEPT !.acked = TRUE]]
           /\ socket' = [socket EXCEPT ![r] = rest]
        \/ /\ elark' = [elark EXCEPT ![r] = [p EXCEPT !.printed = @ + 1]]
           /\ socket' = [socket EXCEPT ![r] = rest]
        \/ Exit(r, "exit code") \/ Exit(r, "1")
    BY <1>10 DEF ReceiveMessage, p, s
  <2>5. [p EXCEPT !.acked = TRUE] \in Process /\ [p EXCEPT !.printed = @ + 1] \in Process
    BY <1>1, ProcessOps
  <2> HIDE DEF rest
  <2>6. CASE Exit(r, "exit code") BY <1>2, <2>6, ExitTypes
  <2>7. CASE Exit(r, "1") BY <1>2, <2>7, ExitTypes
  <2> QED BY <1>1, <2>2, <2>3, <2>4, <2>5, <2>6, <2>7, ElarkUpdate, SocketUpdate
<1>11. CASE ReceiveFails(r)
  <2>1. PICK code \in Codes : Exit(r, code)
    BY <1>2, <1>11 DEF ReceiveFails
  <2> QED BY <2>1, ExitTypes
<1>12. CASE Killed(r)
  BY <1>2, <1>12, ExitTypes DEF Killed
<1> QED BY <1>5, <1>6, <1>7, <1>8, <1>9, <1>10, <1>11, <1>12 DEF Elark

\* What a step of an elark leaves alone.
LEMMA ElarkStepLeaves ==
    ASSUME NEW r \in Runs, Elark(r), ElarkTypes, SocketTypes
    PROVE  /\ UNCHANGED <<thread, root, session, conn, callbacks, window, script, todo, target, daemon,
                          told>>
           /\ \A q \in Runs : q # r => elark'[q] = elark[q]
           /\ \A c \in Clients : c # r => socket'[c] = socket[c]
  BY DEF Elark, StartElark, StdinEnds, ForwardInput, Interrupt, InterruptCloses, ReceiveMessage,
         ReceiveFails, Killed, Exit, ElarkTypes, SocketTypes

LEMMA ThreadUpdate ==
    ASSUME thread \in [Clients -> Pcs], NEW c, NEW pc \in Pcs, Goes(c, pc)
    PROVE  thread' \in [Clients -> Pcs]
  BY DEF Goes

\* A message of a client is about a run.
LEMMA SubjectIsRun ==
    ASSUME NEW c \in Clients, thread[c] # "none", \A k \in Kills : KillInv(k)
    PROVE  Subject(c) \in Runs
  BY DEF Subject, KillInv, Clients

LEMMA ConnectionOps ==
    ASSUME NEW k \in Connection
    PROVE  /\ \A frame \in {"input", "close"} : [k EXCEPT !.queue = Append(@, frame)] \in Connection
           /\ [k EXCEPT !.state = "gone", !.queue = << >>] \in Connection
           /\ [k EXCEPT !.state = "open"] \in Connection
           /\ \A b \in BOOLEAN : [k EXCEPT !.closing = b] \in Connection
           /\ k.queue # << >> => \A b \in BOOLEAN, state \in {"gone", "open"} :
                 [k EXCEPT !.queue = Tail(@), !.closed = b, !.state = state] \in Connection
<1>1. k.queue \in Seq({"input", "close"}) /\ << >> \in Seq({"input", "close"})
  BY DEF Connection
<1>2. ASSUME NEW frame \in {"input", "close"}
      PROVE  [k EXCEPT !.queue = Append(@, frame)] \in Connection
  <2>1. Append(k.queue, frame) \in Seq({"input", "close"})
    BY <1>1
  <2> QED BY <2>1 DEF Connection
<1>3. [k EXCEPT !.state = "gone", !.queue = << >>] \in Connection
  BY <1>1 DEF Connection
<1>4. [k EXCEPT !.state = "open"] \in Connection
  BY DEF Connection
<1>5. ASSUME NEW b \in BOOLEAN PROVE [k EXCEPT !.closing = b] \in Connection
  BY DEF Connection
<1>6. ASSUME k.queue # << >>, NEW b \in BOOLEAN, NEW state \in {"gone", "open"}
      PROVE  [k EXCEPT !.queue = Tail(@), !.closed = b, !.state = state] \in Connection
  <2>1. Tail(k.queue) \in Seq({"input", "close"})
    BY <1>1, <1>6
  <2> QED BY <2>1 DEF Connection
<1> QED BY <1>2, <1>3, <1>4, <1>5, <1>6

LEMMA ConnectionUpdate ==
    ASSUME conn \in [Runs -> Connection], NEW r \in Runs, NEW k \in Connection,
           conn' = [conn EXCEPT ![r] = k]
    PROVE  conn' \in [Runs -> Connection]
  OBVIOUS

\* What a thread does to its socket leaves what the client has to read,
\* but for an answer, which fits.
LEMMA ThreadStepSocket ==
    ASSUME SocketTypes, NEW c \in Clients, Thread(c)
    PROVE  SocketTypes'
<1> DEFINE s == socket[c]
<1>1. s \in Socket /\ Len(s.down) <= SocketSize
  BY DEF SocketTypes
<1> HIDE DEF s
<1>2. ASSUME s.server, s.up # << >>, socket' = [socket EXCEPT ![c].up = Tail(@)] PROVE SocketTypes'
  <2>1. Tail(s.up) \in Seq(ClientMessages)
    BY <1>1, <1>2 DEF Socket
  <2>2. [s EXCEPT !.up = Tail(@)] \in Socket /\ [s EXCEPT !.up = Tail(@)].down = s.down
    BY <1>1, <2>1 DEF Socket
  <2>3. socket' = [socket EXCEPT ![c] = [s EXCEPT !.up = Tail(@)]]
    BY <1>2 DEF s
  <2> HIDE DEF s
  <2> QED BY <1>1, <2>2, <2>3, SocketUpdate
<1>3. CASE ReadInput(c)
  BY <1>2, <1>3 DEF ReadInput, ServerReads, s
<1>4. CASE ReadStart(c)
  BY <1>2, <1>4 DEF ReadStart, ServerReads, s
<1>5. CASE Answer(c)
  <2> DEFINE a == ServerWrites(s, "error")
  <2>1. "error" \in ServerMessages
    BY DEF ServerMessages
  <2>2. a \in Socket
    BY <1>1, <2>1, SocketOps
  <2>3. Len(a.down) <= SocketSize
    <3>1. Len(Append(s.down, "error")) = Len(s.down) + 1 /\ Len(s.down) \in Nat
      BY <1>1, <2>1 DEF Socket
    <3>2. ServerMayWrite(s)
      BY <1>5 DEF Answer, s
    <3>3. a.down = IF Connected(s) THEN Append(s.down, "error") ELSE s.down
      BY <1>1, SocketFields
    <3>4. CASE Connected(s)
      <4>1. Len(s.down) < SocketSize /\ a.down = Append(s.down, "error")
        BY <3>2, <3>3, <3>4 DEF ServerMayWrite
      <4> HIDE DEF a
      <4> QED BY <3>1, <4>1, SocketAssumption
    <3>5. CASE ~Connected(s)
      <4>1. a.down = s.down
        BY <3>3, <3>5
      <4> HIDE DEF a
      <4> QED BY <1>1, <4>1
    <3> QED BY <3>4, <3>5
  <2> HIDE DEF a
  <2>4. ServerCloses(a) \in Socket /\ ServerCloses(a).down = a.down
    BY <2>2, SocketOps, SocketFields
  <2>5. \/ socket' = [socket EXCEPT ![c] = ServerCloses(a)]
        \/ socket' = [socket EXCEPT ![c] = a]
    BY <1>5 DEF Answer, a, s
  <2> QED BY <2>2, <2>3, <2>4, <2>5, SocketUpdate
<1>6. CASE ReadFails(c)
  <2>1. socket' = [socket EXCEPT ![c] = ServerCloses(s)]
    BY <1>6 DEF ReadFails, s
  <2>2. ServerCloses(s) \in Socket /\ ServerCloses(s).down = s.down
    BY <1>1, SocketOps, SocketFields
  <2> QED BY <1>1, <2>1, <2>2, SocketUpdate
<1>7. CASE UNCHANGED socket
  BY <1>7 DEF SocketTypes
<1> QED
  BY <1>3, <1>4, <1>5, <1>6, <1>7
     DEF Thread, Accept, Serve, Enqueue, MarkClose, RootOpened, RegisterLocal

LEMMA ThreadStepTypes ==
    ASSUME SocketTypes, ThreadTypes, SessionTypes, \A k \in Kills : KillInv(k),
           NEW c \in Clients, Thread(c)
    PROVE  SocketTypes' /\ ThreadTypes' /\ SessionTypes'
<1>1. SocketTypes'
  BY ThreadStepSocket
<1>2. /\ {"accepted", "read", "opening", "register", "mark", "answer", "answer close", "gone",
          "enqueue close", "enqueue input"} \subseteq Pcs
      /\ Enqueues = {"enqueue input", "enqueue close"}
  BY DEF Pcs, Enqueues
<1>3. thread' \in [Clients -> Pcs]
  <2>1. \E pc \in {"accepted", "read", "opening", "register", "mark", "answer", "answer close",
                   "gone", "enqueue close", "enqueue input"} : Goes(c, pc)
    <3>1. CASE Accept(c) BY <3>1 DEF Accept
    <3>2. CASE Serve(c) BY <3>2 DEF Serve
    <3>3. CASE ReadInput(c) BY <3>3 DEF ReadInput
    <3>4. CASE Enqueue(c) BY <3>4 DEF Enqueue
    <3>5. CASE MarkClose(c) BY <3>5 DEF MarkClose
    <3>6. CASE Answer(c) BY <3>6 DEF Answer
    <3>7. CASE ReadFails(c) BY <3>7 DEF ReadFails
    <3>8. CASE ReadStart(c) BY <3>8 DEF ReadStart
    <3>9. CASE RootOpened(c) BY <3>9 DEF RootOpened
    <3>10. CASE RegisterLocal(c) BY <3>10 DEF RegisterLocal
    <3> QED BY <3>1, <3>2, <3>3, <3>4, <3>5, <3>6, <3>7, <3>8, <3>9, <3>10 DEF Thread
  <2> QED BY <1>2, <2>1, ThreadUpdate DEF ThreadTypes
<1>4. ThreadTypes'
  <2>1. UNCHANGED <<target, daemon>> /\ (root' = root \/ root' = [root EXCEPT ![c] = "queued"])
    BY DEF Thread, Accept, Serve, ReadInput, Enqueue, MarkClose, Answer, ReadFails, ReadStart,
           RootOpened, RegisterLocal
  <2> QED BY <1>3, <2>1 DEF ThreadTypes
<1>5. SessionTypes'
  <2> DEFINE r == Subject(c)
             k == conn[r]
  <2>1. CASE Enqueue(c) \/ MarkClose(c)
    <3>1. r \in Runs
      BY <1>2, <2>1, SubjectIsRun DEF Enqueue, MarkClose
    <3>2. k \in Connection /\ k.closing \in BOOLEAN
      BY <3>1 DEF SessionTypes, Connection
    <3>3. /\ \A frame \in {"input", "close"} : [k EXCEPT !.queue = Append(@, frame)] \in Connection
          /\ [k EXCEPT !.state = "gone", !.queue = << >>] \in Connection
          /\ \A b \in BOOLEAN : [k EXCEPT !.closing = b] \in Connection
      BY <3>2, ConnectionOps
    <3>4. conn' \in [Runs -> Connection]
      <4>1. CASE Enqueue(c)
        <5>1. FrameOf(thread[c]) \in {"input", "close"}
          BY DEF FrameOf
        <5>2. \/ conn' = conn
              \/ conn' = [conn EXCEPT ![r] = [k EXCEPT !.queue = Append(@, FrameOf(thread[c]))]]
          BY <4>1 DEF Enqueue
        <5> HIDE DEF r, k
        <5> QED BY <3>1, <3>3, <5>1, <5>2, ConnectionUpdate DEF SessionTypes
      <4>2. CASE MarkClose(c)
        <5>1. PICK b \in BOOLEAN :
                 \/ conn' = [conn EXCEPT ![r] = [k EXCEPT !.state = "gone", !.queue = << >>]]
                 \/ conn' = [conn EXCEPT ![r] = [k EXCEPT !.closing = b]]
          <6> DEFINE b == (conn[r].state = "open") \/ k.closing
          <6>1. b \in BOOLEAN
            BY <3>2
          <6>2. \/ conn' = [conn EXCEPT ![r] = [k EXCEPT !.state = "gone", !.queue = << >>]]
                \/ conn' = [conn EXCEPT ![r] = [k EXCEPT !.closing = b]]
            BY <3>1, <4>2 DEF MarkClose, Drained, SessionTypes
          <6> QED BY <6>1, <6>2
        <5> HIDE DEF r, k
        <5> QED BY <3>1, <3>3, <5>1, ConnectionUpdate DEF SessionTypes
      <4> QED BY <2>1, <4>1, <4>2
    <3>5. callbacks' \subseteq {"drained", "dropped"} \X Runs /\ session' = session
      <4>1. /\ callbacks' = callbacks \/ callbacks' = callbacks \union {<<"drained", r>>}
            /\ session' = session
        BY <2>1 DEF Enqueue, MarkClose
      <4>2. <<"drained", r>> \in {"drained", "dropped"} \X Runs
        BY <3>1
      <4> HIDE DEF r, k
      <4> QED BY <4>1, <4>2 DEF SessionTypes
    <3> QED BY <3>4, <3>5 DEF SessionTypes
  <2>2. CASE c \in Runs /\ RegisterLocal(c)
    <3>1. conn[c] \in Connection /\ [conn[c] EXCEPT !.state = "open"] \in Connection
      BY <2>2, ConnectionOps DEF SessionTypes
    <3>2. conn' = [conn EXCEPT ![c] = [conn[c] EXCEPT !.state = "open"]]
      BY <2>2 DEF RegisterLocal
    <3>3. session' = [session EXCEPT ![c] = "open"] /\ UNCHANGED callbacks
      BY <2>2 DEF RegisterLocal
    <3> QED BY <2>2, <3>1, <3>2, <3>3, ConnectionUpdate DEF SessionTypes
  <2>3. CASE UNCHANGED <<session, conn, callbacks>>
    BY <2>3 DEF SessionTypes
  <2> QED
    BY <2>1, <2>2, <2>3
       DEF Thread, Accept, Serve, ReadInput, Answer, ReadFails, ReadStart, RootOpened
<1> QED BY <1>1, <1>4, <1>5

\* What a step of a thread leaves alone.
LEMMA ThreadStepLeaves ==
    ASSUME NEW c \in Clients, Thread(c), SocketTypes, ThreadTypes, SessionTypes
    PROVE  /\ UNCHANGED <<elark, window, script, todo, target, daemon, told>>
           /\ \A d \in Clients : d # c => socket'[d] = socket[d] /\ thread'[d] = thread[d]
           /\ \A r \in Runs : r # c => root'[r] = root[r] /\ session'[r] = session[r]
           /\ callbacks \subseteq callbacks'
  BY DEF Thread, Accept, Serve, ReadInput, Enqueue, MarkClose, Answer, ReadFails, ReadStart,
         RootOpened, RegisterLocal, Goes, SocketTypes, ThreadTypes, SessionTypes

LEMMA OutboundTypes ==
    ASSUME SessionTypes, ThreadTypes, NEW r \in Runs, OutboundManager(r)
    PROVE  SessionTypes' /\ ThreadTypes'
<1> DEFINE k == conn[r]
<1>1. k \in Connection /\ k.closed \in BOOLEAN
  BY DEF SessionTypes, Connection
<1>2. /\ [k EXCEPT !.state = "gone", !.queue = << >>] \in Connection
      /\ k.queue # << >> => \A b \in BOOLEAN, state \in {"gone", "open"} :
            [k EXCEPT !.queue = Tail(@), !.closed = b, !.state = state] \in Connection
  BY <1>1, ConnectionOps
<1>3. <<"drained", r>> \in {"drained", "dropped"} \X Runs /\ <<"dropped", r>> \in {"drained", "dropped"} \X Runs
  OBVIOUS
<1>4. CASE PostRoot(r) \/ RootFails(r)
  BY <1>4 DEF PostRoot, RootFails, SessionTypes, ThreadTypes
<1>5. CASE PostFrame(r)
  <2>1. PICK b \in BOOLEAN, state \in {"gone", "open"} :
           conn' = [conn EXCEPT ![r] = [k EXCEPT !.queue = Tail(@), !.closed = b, !.state = state]]
    <3> DEFINE b == k.closed \/ Head(k.queue) = "close"
               state == IF k.closing /\ Len(k.queue) = 1 THEN "gone" ELSE "open"
    <3>1. b \in BOOLEAN /\ state \in {"gone", "open"}
      BY <1>1
    <3>2. conn' = [conn EXCEPT ![r] = [k EXCEPT !.queue = Tail(@), !.closed = b, !.state = state]]
      BY <1>5 DEF PostFrame, SessionTypes
    <3> QED BY <3>1, <3>2
  <2>2. k.queue # << >> /\ UNCHANGED <<root, thread, target, daemon, session>>
    BY <1>5 DEF PostFrame
  <2>3. callbacks' = callbacks \/ callbacks' = callbacks \union {<<"drained", r>>}
    BY <1>5 DEF PostFrame
  <2> HIDE DEF k
  <2> QED BY <1>2, <1>3, <2>1, <2>2, <2>3, ConnectionUpdate DEF SessionTypes, ThreadTypes
<1>6. CASE DropConn(r)
  <2>1. /\ conn' = [conn EXCEPT ![r] = [k EXCEPT !.state = "gone", !.queue = << >>]]
        /\ callbacks' = callbacks \union {<<"dropped", r>>}
        /\ UNCHANGED <<root, thread, target, daemon, session>>
    BY <1>6 DEF DropConn, Drained, SessionTypes
  <2> HIDE DEF k
  <2> QED BY <1>2, <1>3, <2>1, ConnectionUpdate DEF SessionTypes, ThreadTypes
<1> QED BY <1>4, <1>5, <1>6 DEF OutboundManager

LEMMA OutboundLeaves ==
    ASSUME NEW r \in Runs, OutboundManager(r), SessionTypes, ThreadTypes
    PROVE  /\ UNCHANGED <<elark, socket, thread, session, window, script, todo, target, daemon, told>>
           /\ \A q \in Runs : root[q] # "queued" => root'[q] = root[q]
           /\ \A q \in Runs : root[q] = "queued" => root'[q] # "none"
           /\ callbacks \subseteq callbacks'
  BY DEF OutboundManager, PostRoot, RootFails, PostFrame, DropConn, SessionTypes, ThreadTypes

LEMMA WindowOps ==
    ASSUME NEW w \in Window
    PROVE  /\ CheckGapTimeoutAt(w) \in Window /\ Aged(w) \in Window /\ NewRecvWindow \in Window
           /\ \A seq \in Seqs : Buffered(w, seq) \in Window
           /\ \A last \in Seqs : Advanced(w, last) \in Window
<1>1. 0 \in 0 .. GapTimeout /\ 1 \in 0 .. MaxSeq /\ Seqs = 1 .. MaxSeq
  BY RecvWindowAssumption DEF Seqs
<1>2. /\ w.next \in 0 .. MaxSeq /\ w.pending \in SUBSET Seqs /\ w.gapOpen \in BOOLEAN
      /\ w.gapAge \in 0 .. GapTimeout
  BY DEF Window
<1>3. CheckGapTimeoutAt(w) \in Window
  BY <1>1, <1>2 DEF CheckGapTimeoutAt, closeGap, Window
<1>4. Aged(w) \in Window
  <2>1. w.gapAge < GapTimeout => w.gapAge + 1 \in 0 .. GapTimeout
    BY <1>2, RecvWindowAssumption
  <2> QED BY <1>2, <2>1 DEF Aged, Window
<1>5. NewRecvWindow \in Window
  BY <1>1 DEF NewRecvWindow, Window
<1>6. ASSUME NEW seq \in Seqs PROVE Buffered(w, seq) \in Window
  BY <1>1, <1>2 DEF Buffered, Window
<1>7. ASSUME NEW last \in Seqs PROVE Advanced(w, last) \in Window
  <2>1. Succ(last) \in 0 .. MaxSeq
    BY <1>1, <1>7, RecvWindowAssumption DEF Succ
  <2>2. w.pending \ (1 .. last) \in SUBSET Seqs
    BY <1>2
  <2> QED BY <1>1, <1>2, <2>1, <2>2 DEF Advanced, Window
<1> QED BY <1>3, <1>4, <1>5, <1>6, <1>7

LEMMA CloseSessionTypes ==
    ASSUME SessionTypes, WindowTypes, NEW r \in Runs, CloseSession(r), UNCHANGED callbacks
    PROVE  SessionTypes' /\ WindowTypes'
<1>1. conn[r] \in Connection /\ window[r] \in Window
  BY DEF SessionTypes, WindowTypes
<1>2. [conn[r] EXCEPT !.state = "gone", !.queue = << >>] \in Connection /\ NewRecvWindow \in Window
  BY <1>1, ConnectionOps, WindowOps
<1>3. \/ conn' = conn
      \/ conn' = [conn EXCEPT ![r] = [conn[r] EXCEPT !.state = "gone", !.queue = << >>]]
  BY DEF CloseSession, Drained, SessionTypes
<1>4. session' \in [Runs -> {"none", "open", "closed"}]
  BY DEF CloseSession, SessionTypes
<1>5. window' \in [Runs -> Window]
  BY <1>2 DEF CloseSession, WindowTypes
<1> QED BY <1>2, <1>3, <1>4, <1>5, ConnectionUpdate DEF SessionTypes, WindowTypes

LEMMA LeastElement ==
    ASSUME NEW T \in SUBSET Nat, T # {}
    PROVE  \E x \in T : \A y \in T : x <= y
<1>1. \E x \in T : \A y \in T : ~(<<y, x>> \in OpToRel(<, Nat))
  BY NatLessThanWellFounded, WFMin
<1>2. PICK x \in T : \A y \in T : ~(<<y, x>> \in OpToRel(<, Nat))
  BY <1>1
<1>3. ASSUME NEW y \in T PROVE x <= y
  <2>1. <<y, x>> \in Nat \X Nat
    OBVIOUS
  <2>2. ~(y < x)
    BY <1>2, <2>1 DEF OpToRel
  <2> QED BY <2>2
<1> QED BY <1>3

\* The events of consecutive frames: up to the first that ends the session.
LEMMA EventsOfShape ==
    ASSUME NEW r, script[r] \in Seq(Frames), NEW first \in 1 .. Len(script[r]),
           NEW last \in first .. Len(script[r])
    PROVE  \E upTo \in first .. last :
              /\ EventsOf(r, first, last) = [i \in 1 .. upTo - first + 1 |-> Deliver(script[r][first + i - 1], r)]
              /\ \A j \in first .. upTo - 1 : script[r][j] \notin Ends
              /\ upTo = last \/ script[r][upTo] \in Ends
<1> DEFINE ending == {i \in first .. last : script[r][i] \in Ends}
           upTo == IF ending = {} THEN last ELSE CHOOSE i \in ending : \A j \in ending : i <= j
<1>1. first \in Nat /\ last \in Nat /\ last >= first /\ Len(script[r]) \in Nat
  OBVIOUS
<1>2. EventsOf(r, first, last) = [i \in 1 .. upTo - first + 1 |-> Deliver(script[r][first + i - 1], r)]
  BY DEF EventsOf
<1>3. CASE ending = {}
  <2>1. upTo = last /\ last \in first .. last
    BY <1>1, <1>3
  <2>2. \A j \in first .. upTo - 1 : script[r][j] \notin Ends
    BY <1>1, <1>3, <2>1
  <2> HIDE DEF upTo, ending
  <2> QED BY <1>2, <2>1, <2>2
<1>4. CASE ending # {}
  <2>1. \E i \in ending : \A j \in ending : i <= j
    <3>1. ending \in SUBSET Nat
      BY <1>1
    <3> HIDE DEF ending
    <3> QED BY <1>4, <3>1, LeastElement
  <2>2. upTo \in ending /\ \A j \in ending : upTo <= j
    BY <1>4, <2>1
  <2>3. upTo \in first .. last /\ script[r][upTo] \in Ends
    BY <2>2
  <2>4. ASSUME NEW j \in first .. upTo - 1 PROVE script[r][j] \notin Ends
    <3>1. j \in ending => upTo <= j
      BY <2>2
    <3> HIDE DEF upTo
    <3>2. j \in first .. last /\ ~(upTo <= j)
      BY <1>1, <2>3
    <3> QED BY <3>1, <3>2
  <2> HIDE DEF upTo, ending
  <2> QED BY <1>2, <2>3, <2>4
<1> QED BY <1>3, <1>4

LEMMA StepKinds ==
    ASSUME NEW r \in Runs
    PROVE  /\ \A event \in Frames : Deliver(event, r) \in Step
           /\ \A seq \in 0 .. MaxSeq : Offer(seq, r) \in Step
           /\ Close(r) \in Step
<1>1. 0 \in 0 .. MaxSeq
  BY RecvWindowAssumption
<1> QED BY <1>1 DEF Step, Deliver, Offer, Close

\* The answers are sequences of frames that can all be numbered.
LEMMA ScriptFacts ==
    ASSUME ScriptTypes, NEW r \in Runs
    PROVE  /\ script[r] \in Seq(Frames) /\ Len(script[r]) \in 1 .. MaxSeq - 1
           /\ Len(script[r]) \in Nat /\ MaxSeq \in Nat \ {0} /\ Seqs = 1 .. MaxSeq
           /\ \A i, j \in 1 .. Len(script[r]) : i < j /\ script[r][i] = "exit" => script[r][j] # "stdout"
  BY ScriptsAssumption, RecvWindowAssumption DEF ScriptTypes, Seqs

LEMMA StepUpdate ==
    ASSUME TodoTypes, todo # << >>
    PROVE  /\ Tail(todo) \in Seq(Step) /\ Head(todo) \in Step /\ Head(todo) = todo[1]
           /\ Len(Tail(todo)) = Len(todo) - 1 /\ Len(todo) \in Nat \ {0}
           /\ \A i \in 1 .. Len(todo) - 1 : Tail(todo)[i] = todo[i + 1]
  BY DEF TodoTypes

\* The step that the holder of the mutex does next, and its session.
LEMMA HolderHead ==
    ASSUME TodoTypes, TodoInv, ScriptTypes, ~Free
    PROVE  LET step == Head(todo)
               r == step.run
           IN  /\ step \in Step /\ r \in Runs /\ r \in Clients /\ session[r] = "open"
               /\ step = todo[1]
               /\ step.op = "offer" => step.seq \in 1 .. Len(script[r]) /\ step.seq \in Seqs
               /\ step.op = "deliver" => step.event \in Frames
<1>1. todo # << >> /\ Head(todo) \in Step /\ Head(todo) = todo[1] /\ 1 \in 1 .. Len(todo)
  BY StepUpdate DEF Free
<1>2. Head(todo).run \in Runs /\ Head(todo).run \in Clients
  BY <1>1 DEF Step, Clients
<1>3. \A s \in 1 .. Len(script[Head(todo).run]) : s \in Seqs
  BY <1>2, ScriptFacts
<1> QED BY <1>1, <1>2, <1>3 DEF TodoInv

\* The frames that a frame completes are all frames of the remote.
LEMMA CompletesWithin ==
    ASSUME ScriptTypes, NEW r \in Runs, WindowInv(r), NEW seq \in 1 .. Len(script[r]),
           NEW w, w.pending \subseteq window[r].pending, NEW last \in Seqs, Completes(w, seq, last)
    PROVE  last \in seq .. Len(script[r])
<1>1. last \in seq .. MaxSeq /\ (seq + 1) .. last \subseteq 1 .. Len(script[r])
  BY DEF Completes, WindowInv
<1>2. Len(script[r]) \in Nat /\ MaxSeq \in Nat
  BY ScriptFacts
<1>3. CASE last = seq
  BY <1>2, <1>3
<1>4. CASE last # seq
  <2>1. last \in (seq + 1) .. last
    BY <1>1, <1>2, <1>4
  <2> QED BY <1>1, <1>2, <2>1
<1> QED BY <1>3, <1>4

\* A gap that has timed out leaves nothing pending; the next number stays.
LEMMA CheckedWindow ==
    ASSUME NEW w \in Window
    PROVE  /\ CheckGapTimeoutAt(w).next = w.next
           /\ CheckGapTimeoutAt(w).pending = IF GapExpired(w) THEN {} ELSE w.pending
           /\ CheckGapTimeoutAt(w).pending \subseteq w.pending
  BY DEF CheckGapTimeoutAt, closeGap, GapExpired, Window

\* What the holder of the mutex has to do stays a list of steps.
LEMMA HolderTypes ==
    ASSUME LocalTypes, TodoInv, \A r \in Runs : WindowInv(r), Holder
    PROVE  TodoTypes' /\ SocketTypes' /\ SessionTypes' /\ WindowTypes' /\ ScriptTypes'
<1> DEFINE step == Head(todo)
           r == step.run
           w == window[r]
<1>1. ~Free
  BY DEF Holder, OfferStep, DeliverStep, CloseStep
<1>2. /\ step \in Step /\ r \in Runs /\ r \in Clients /\ session[r] = "open"
      /\ step.op = "offer" => step.seq \in 1 .. Len(script[r]) /\ step.seq \in Seqs
      /\ step.op = "deliver" => step.event \in Frames
  BY <1>1, HolderHead DEF LocalTypes
<1>3. /\ Tail(todo) \in Seq(Step) /\ Deliver("error", r) \in Step /\ Close(r) \in Step
      /\ << >> \in Seq(Step)
  <2>1. "error" \in Frames
    BY DEF Frames, Ends
  <2>2. Deliver("error", r) \in Step /\ Close(r) \in Step
    BY <1>2, <2>1, StepKinds
  <2>3. Tail(todo) \in Seq(Step)
    BY <1>1, StepUpdate DEF LocalTypes, Free
  <2> QED BY <2>2, <2>3
<1>4. <<Deliver("error", r), Close(r)>> \in Seq(Step) /\ <<Close(r)>> \in Seq(Step)
  BY <1>3
<1>5. w \in Window /\ CheckGapTimeoutAt(w) \in Window
  BY <1>2, WindowOps DEF LocalTypes, WindowTypes
<1>6. CASE OfferStep
  <2> DEFINE v == CheckGapTimeoutAt(w)
  <2>1. SocketTypes' /\ SessionTypes' /\ ScriptTypes'
    BY <1>6 DEF OfferStep, LocalTypes, SocketTypes, SessionTypes, ScriptTypes
  <2>2. \/ window' = [window EXCEPT ![r] = v] /\ todo' = <<Deliver("error", r), Close(r)>>
        \/ window' = [window EXCEPT ![r] = v] /\ todo' = Tail(todo)
        \/ window' = [window EXCEPT ![r] = Buffered(v, step.seq)] /\ todo' = Tail(todo)
        \/ \E last \in Seqs :
              /\ Completes(v, step.seq, last)
              /\ window' = [window EXCEPT ![r] = Advanced(v, last)]
              /\ todo' = EventsOf(r, step.seq, last) \o Tail(todo)
    BY <1>6 DEF OfferStep
  <2>3. step.seq \in 1 .. Len(script[r]) /\ step.seq \in Seqs
    BY <1>2, <1>6 DEF OfferStep
  <2>4. Buffered(v, step.seq) \in Window /\ \A last \in Seqs : Advanced(v, last) \in Window
    BY <1>5, <2>3, WindowOps
  <2>5. ASSUME NEW last \in Seqs, Completes(v, step.seq, last)
        PROVE  EventsOf(r, step.seq, last) \in Seq(Step)
    <3>1. v.pending \subseteq window[r].pending
      BY <1>5, CheckedWindow
    <3> HIDE DEF v
    <3>2. last \in step.seq .. Len(script[r])
      BY <1>2, <2>3, <2>5, <3>1, CompletesWithin DEF LocalTypes
    <3>3. /\ script[r] \in Seq(Frames) /\ Len(script[r]) \in Nat
      BY <1>2, ScriptFacts DEF LocalTypes
    <3> HIDE DEF r, step
    <3> DEFINE first == step.seq
    <3>4. PICK upTo \in first .. last :
             /\ EventsOf(r, first, last) = [i \in 1 .. upTo - first + 1 |-> Deliver(script[r][first + i - 1], r)]
             /\ \A j \in first .. upTo - 1 : script[r][j] \notin Ends
             /\ upTo = last \/ script[r][upTo] \in Ends
      <4> HIDE DEF first
      <4>1. first \in 1 .. Len(script[r])
        BY <2>3 DEF first
      <4>2. last \in first .. Len(script[r])
        BY <3>2 DEF first
      <4> QED BY <3>3, <4>1, <4>2, EventsOfShape
    <3>5. \A i \in 1 .. upTo - first + 1 : script[r][first + i - 1] \in Frames
      BY <2>3, <3>2, <3>3, <3>4
    <3>6. \A i \in 1 .. upTo - first + 1 : Deliver(script[r][first + i - 1], r) \in Step
      BY <1>2, <3>5, StepKinds
    <3>7. upTo - first + 1 \in Nat
      BY <2>3, <3>2, <3>3, <3>4
    <3> QED BY <3>4, <3>6, <3>7
  <2>6. TodoTypes'
    <3> HIDE DEF v, r, step
    <3>1. \A last \in Seqs : Completes(v, step.seq, last) =>
             EventsOf(r, step.seq, last) \o Tail(todo) \in Seq(Step)
      BY <1>3, <2>5
    <3> QED BY <1>3, <1>4, <2>2, <3>1 DEF TodoTypes
  <2>7. WindowTypes'
    <3> HIDE DEF v, r, step
    <3> QED BY <1>5, <2>2, <2>4 DEF WindowTypes, LocalTypes, v
  <2> QED BY <2>1, <2>6, <2>7
<1>7. CASE DeliverStep
  <2>1. /\ SessionTypes' /\ WindowTypes' /\ todo' \in Seq(Step)
    BY <1>3, <1>4, <1>7 DEF DeliverStep, LocalTypes, SessionTypes, WindowTypes
  <2>2. SocketTypes'
    <3> DEFINE s == socket[r]
               m == MessageOf(step.event)
    <3>1. s \in Socket /\ Len(s.down) <= SocketSize
      BY <1>2 DEF LocalTypes, SocketTypes
    <3>2. m \in ServerMessages
      BY <1>2, <1>7 DEF DeliverStep, MessageOf, Frames, Ends, ServerMessages
    <3>3. CASE socket' = socket
      BY <3>3 DEF LocalTypes, SocketTypes
    <3>4. CASE socket' # socket
      <4>1. Connected(s) /\ Len(s.down) < SocketSize /\ socket' = [socket EXCEPT ![r] = ServerWrites(s, m)]
        BY <1>7, <3>4 DEF DeliverStep
      <4>2. ServerWrites(s, m) \in Socket /\ ServerWrites(s, m).down = Append(s.down, m)
        BY <3>1, <3>2, <4>1, SocketOps, SocketFields
      <4>3. Len(Append(s.down, m)) <= SocketSize
        <5>1. s.down \in Seq(ServerMessages)
          BY <3>1 DEF Socket
        <5> HIDE DEF s, m
        <5> QED BY <3>2, <4>1, <5>1, SocketAssumption
      <4> HIDE DEF s, m, r
      <4> QED BY <1>2, <4>1, <4>2, <4>3, SocketUpdate DEF LocalTypes
    <3> QED BY <3>3, <3>4
  <2>3. ScriptTypes'
    BY <1>7 DEF DeliverStep, Tell, LocalTypes, ScriptTypes
  <2> QED BY <2>1, <2>2, <2>3 DEF TodoTypes
<1>8. CASE CloseStep
  <2>1. CloseSession(r) /\ todo' = << >> /\ UNCHANGED <<socket, callbacks, script, told>>
    BY <1>8 DEF CloseStep
  <2>2. SessionTypes' /\ WindowTypes'
    BY <1>2, <2>1, CloseSessionTypes DEF LocalTypes
  <2> QED BY <1>3, <2>1, <2>2 DEF LocalTypes, SocketTypes, ScriptTypes, TodoTypes
<1> QED BY <1>6, <1>7, <1>8 DEF Holder

LEMMA CallbackTypes ==
    ASSUME LocalTypes, NEW r \in Runs, OnDrained(r) \/ OnDrop(r) \/ Tick(r) \/ Elapse(r)
    PROVE  TodoTypes' /\ SessionTypes' /\ WindowTypes'
<1>1. Deliver("error", r) \in Step /\ Close(r) \in Step
  <2>1. "error" \in Frames
    BY DEF Frames, Ends
  <2> QED BY <2>1, StepKinds
<1>2. <<Deliver("error", r), Close(r)>> \in Seq(Step) /\ << >> \in Seq(Step)
  BY <1>1
<1>3. window[r] \in Window /\ CheckGapTimeoutAt(window[r]) \in Window /\ Aged(window[r]) \in Window
  BY WindowOps DEF LocalTypes, WindowTypes
<1>4. CASE OnDrained(r)
  <2>1. \A cbs \in SUBSET callbacks : cbs \subseteq {"drained", "dropped"} \X Runs
    BY DEF LocalTypes, SessionTypes
  <2>2. /\ callbacks' \in SUBSET callbacks /\ UNCHANGED todo
        /\ session' = [session EXCEPT ![r] = IF @ = "open" THEN "closed" ELSE @]
        /\ conn' = IF session[r] = "open" THEN Drained(r) ELSE conn
        /\ window' = [window EXCEPT ![r] = NewRecvWindow]
    BY <1>4 DEF OnDrained, CloseSession
  <2>3. conn[r] \in Connection
    BY DEF LocalTypes, SessionTypes
  <2>4. [conn[r] EXCEPT !.state = "gone", !.queue = << >>] \in Connection
    BY <2>3, ConnectionOps
  <2>5. conn' \in [Runs -> Connection]
    BY <2>2, <2>4, ConnectionUpdate DEF Drained, LocalTypes, SessionTypes
  <2>6. session' \in [Runs -> {"none", "open", "closed"}]
    BY <2>2 DEF LocalTypes, SessionTypes
  <2>7. window' \in [Runs -> Window]
    BY <1>3, <2>2, WindowOps DEF LocalTypes, WindowTypes
  <2> QED BY <2>1, <2>2, <2>5, <2>6, <2>7 DEF LocalTypes, SessionTypes, WindowTypes, TodoTypes
<1>5. CASE OnDrop(r)
  BY <1>2, <1>5 DEF OnDrop, LocalTypes, TodoTypes, SessionTypes, WindowTypes
<1>6. CASE Tick(r)
  BY <1>2, <1>3, <1>6 DEF Tick, LocalTypes, TodoTypes, SessionTypes, WindowTypes
<1>7. CASE Elapse(r)
  BY <1>3, <1>7 DEF Elapse, LocalTypes, TodoTypes, SessionTypes, WindowTypes
<1> QED BY <1>4, <1>5, <1>6, <1>7

LEMMA ReceiveLocalTypes ==
    ASSUME LocalTypes, NEW r \in Runs, NEW first \in Seqs, NEW last \in Seqs, ReceiveLocal(r, first, last)
    PROVE  TodoTypes'
<1>1. /\ todo' = [i \in 1 .. last - first + 1 |-> Offer(first + i - 1, r)]
      /\ first <= last
  BY DEF ReceiveLocal
<1>2. last - first + 1 \in Nat /\ \A i \in 1 .. last - first + 1 : first + i - 1 \in 0 .. MaxSeq
  BY <1>1, RecvWindowAssumption DEF Seqs
<1>3. \A i \in 1 .. last - first + 1 : Offer(first + i - 1, r) \in Step
  BY <1>2, StepKinds
<1> QED BY <1>1, <1>2, <1>3 DEF TodoTypes

\* The actions, by what they change.
LEMMA NextCases ==
    ASSUME Next
    PROVE  \/ \E r \in Runs : \/ Elark(r) \/ OutboundManager(r)
                              \/ OnDrained(r) \/ OnDrop(r) \/ Tick(r) \/ Elapse(r)
                              \/ \E first, last \in Seqs : ReceiveLocal(r, first, last)
                              \/ \E k \in Kills : StartKill(k, r)
           \/ \E c \in Clients : Thread(c)
           \/ Holder
           \/ Stop \/ CloseServer \/ Stopped
  BY DEF Next

LEMMA StartKillTypes ==
    ASSUME LocalTypes, NEW r \in Runs, NEW k \in Kills, StartKill(k, r)
    PROVE  SocketTypes' /\ ThreadTypes'
<1>1. k \in Clients /\ r \in Clients
  BY DEF Clients
<1>2. /\ ClientCloses(Dialled("close_conn")) \in Socket
      /\ ClientCloses(Dialled("close_conn")).down = << >>
  <2>1. "close_conn" \in ClientMessages
    BY DEF ClientMessages
  <2>2. socket[k] \in Socket
    BY <1>1 DEF LocalTypes, SocketTypes
  <2>3. Dialled("close_conn") \in Socket
    BY <2>1, <2>2, SocketOps
  <2> QED BY <2>3, SocketOps, SocketFields
<1>3. Len(<< >>) <= SocketSize
  BY SocketAssumption
<1>4. SocketTypes'
  BY <1>1, <1>2, <1>3, SocketUpdate DEF StartKill, LocalTypes
<1>5. ThreadTypes'
  BY <1>1 DEF StartKill, LocalTypes, ThreadTypes
<1> QED BY <1>4, <1>5

LEMMA ServerTypes ==
    ASSUME LocalTypes, Stop \/ CloseServer \/ Stopped
    PROVE  SocketTypes' /\ ThreadTypes'
<1>1. CASE Stop \/ Stopped
  BY <1>1 DEF Stop, Stopped, LocalTypes, SocketTypes, ThreadTypes
<1>2. CASE CloseServer
  <2>1. socket' = [c \in Clients |-> IF thread[c] = "accepted" THEN socket[c] ELSE ServerCloses(socket[c])]
    BY <1>2 DEF CloseServer
  <2>2. \A c \in Clients : ServerCloses(socket[c]) \in Socket /\ ServerCloses(socket[c]).down = socket[c].down
    BY SocketOps, SocketFields DEF LocalTypes, SocketTypes
  <2>3. SocketTypes'
    BY <2>1, <2>2 DEF LocalTypes, SocketTypes
  <2>4. ThreadTypes'
    BY <1>2 DEF CloseServer, LocalTypes, ThreadTypes
  <2> QED BY <2>3, <2>4
<1> QED BY <1>1, <1>2

LEMMA NextTypes ==
    ASSUME LocalInv, Next
    PROVE  LocalTypes'
<1>1. /\ LocalTypes /\ TodoInv /\ (\A k \in Kills : KillInv(k)) /\ (\A r \in Runs : WindowInv(r))
      /\ ElarkTypes /\ SocketTypes /\ ThreadTypes /\ SessionTypes /\ ScriptTypes /\ WindowTypes
      /\ TodoTypes
  BY DEF LocalInv, LocalTypes
<1>2. ASSUME NEW r \in Runs, Elark(r) PROVE LocalTypes'
  <2>1. ElarkTypes' /\ SocketTypes'
    BY <1>1, <1>2, ElarkStepTypes
  <2>2. UNCHANGED <<thread, root, session, conn, callbacks, window, script, todo, target, daemon, told>>
    BY <1>1, <1>2, ElarkStepLeaves
  <2> QED
    BY <1>1, <2>1, <2>2 DEF LocalTypes, ThreadTypes, SessionTypes, ScriptTypes, WindowTypes, TodoTypes
<1>3. ASSUME NEW r \in Runs, OutboundManager(r) PROVE LocalTypes'
  <2>1. SessionTypes' /\ ThreadTypes'
    BY <1>1, <1>3, OutboundTypes
  <2>2. UNCHANGED <<elark, socket, window, script, todo, told>>
    BY <1>1, <1>3, OutboundLeaves
  <2> QED
    BY <1>1, <2>1, <2>2 DEF LocalTypes, ElarkTypes, SocketTypes, ScriptTypes, WindowTypes, TodoTypes
<1>4. ASSUME NEW r \in Runs, OnDrained(r) \/ OnDrop(r) \/ Tick(r) \/ Elapse(r) PROVE LocalTypes'
  <2>1. TodoTypes' /\ SessionTypes' /\ WindowTypes'
    BY <1>1, <1>4, CallbackTypes
  <2>2. UNCHANGED <<elark, socket, thread, root, script, target, daemon, told>>
    BY <1>4 DEF OnDrained, OnDrop, Tick, Elapse
  <2> QED BY <1>1, <2>1, <2>2 DEF LocalTypes, ElarkTypes, SocketTypes, ScriptTypes, ThreadTypes
<1>5. ASSUME NEW r \in Runs, NEW first \in Seqs, NEW last \in Seqs, ReceiveLocal(r, first, last)
      PROVE  LocalTypes'
  <2>1. TodoTypes'
    BY <1>1, <1>5, ReceiveLocalTypes
  <2>2. UNCHANGED <<elark, socket, thread, root, session, conn, callbacks, window, script, target,
                    daemon, told>>
    BY <1>5 DEF ReceiveLocal
  <2> QED
    BY <1>1, <2>1, <2>2
       DEF LocalTypes, ElarkTypes, SocketTypes, ScriptTypes, ThreadTypes, SessionTypes, WindowTypes
<1>6. ASSUME NEW r \in Runs, NEW k \in Kills, StartKill(k, r) PROVE LocalTypes'
  <2>1. SocketTypes' /\ ThreadTypes'
    BY <1>1, <1>6, StartKillTypes
  <2>2. UNCHANGED <<elark, session, conn, callbacks, window, script, todo, told>>
    BY <1>6 DEF StartKill
  <2> QED
    BY <1>1, <2>1, <2>2
       DEF LocalTypes, ElarkTypes, ScriptTypes, SessionTypes, WindowTypes, TodoTypes
<1>7. ASSUME NEW c \in Clients, Thread(c) PROVE LocalTypes'
  <2>1. SocketTypes' /\ ThreadTypes' /\ SessionTypes'
    BY <1>1, <1>7, ThreadStepTypes
  <2>2. UNCHANGED <<elark, window, script, todo, told>>
    BY <1>1, <1>7, ThreadStepLeaves
  <2> QED
    BY <1>1, <2>1, <2>2 DEF LocalTypes, ElarkTypes, ScriptTypes, WindowTypes, TodoTypes
<1>8. ASSUME Holder PROVE LocalTypes'
  <2>1. TodoTypes' /\ SocketTypes' /\ SessionTypes' /\ WindowTypes' /\ ScriptTypes'
    BY <1>1, <1>8, HolderTypes
  <2>2. UNCHANGED <<elark, thread, root, target, daemon>>
    BY <1>8 DEF Holder, OfferStep, DeliverStep, CloseStep
  <2> QED BY <1>1, <2>1, <2>2 DEF LocalTypes, ElarkTypes, ThreadTypes
<1>9. ASSUME Stop \/ CloseServer \/ Stopped PROVE LocalTypes'
  <2>1. SocketTypes' /\ ThreadTypes'
    BY <1>1, <1>9, ServerTypes
  <2>2. UNCHANGED <<elark, session, conn, callbacks, window, script, todo, told>>
    BY <1>9 DEF Stop, CloseServer, Stopped
  <2> QED
    BY <1>1, <2>1, <2>2
       DEF LocalTypes, ElarkTypes, ScriptTypes, SessionTypes, WindowTypes, TodoTypes
<1> QED BY <1>2, <1>3, <1>4, <1>5, <1>6, <1>7, <1>8, <1>9, NextCases

-----------------------------------------------------------------------------
(***************************************************************************)
(* What the holder of the mutex has to do.                                 *)
(***************************************************************************)
LEMMA SameScript ==
    ASSUME Next
    PROVE  script' = script
  BY DEF Next, Elark, StartElark, StdinEnds, ForwardInput, Interrupt, InterruptCloses,
         ReceiveMessage, ReceiveFails, Killed, StartKill, Thread, Accept, Serve, ReadStart, RootOpened,
         RegisterLocal, ReadInput, Enqueue, MarkClose, Answer, ReadFails, OutboundManager, PostRoot,
         RootFails, PostFrame, DropConn, OnDrained, OnDrop, ReceiveLocal, Tick, Elapse, Holder,
         OfferStep, DeliverStep, CloseStep, Stop, CloseServer, Stopped

LEMMA Concatenated ==
    ASSUME NEW S, NEW s \in Seq(S), NEW t \in Seq(S), NEW n, Len(s) = n
    PROVE  /\ s \o t \in Seq(S)
           /\ Len(s \o t) = n + Len(t)
           /\ \A i \in 1 .. n : (s \o t)[i] = s[i]
           /\ \A i \in n + 1 .. Len(s \o t) : (s \o t)[i] = t[i - n]
  OBVIOUS

\* What an offer that is delivered leaves to do: n events, the last of
\* which may end the session, and then what was left before.
LEMMA DeliveredTodo ==
    ASSUME LocalTypes, TodoInv, \A r \in Runs : WindowInv(r), ~Free, Head(todo).op = "offer",
           NEW last \in Seqs,
           Completes(CheckGapTimeoutAt(window[Head(todo).run]), Head(todo).seq, last),
           todo' = EventsOf(Head(todo).run, Head(todo).seq, last) \o Tail(todo)
    PROVE  LET r == Head(todo).run
               seq == Head(todo).seq
           IN  /\ last \in seq .. Len(script[r])
               /\ \E n \in 1 .. last - seq + 1 :
                     /\ Len(todo') = n + Len(todo) - 1
                     /\ \A i \in 1 .. n : todo'[i] = Deliver(script[r][seq + i - 1], r)
                     /\ \A i \in n + 1 .. Len(todo') : todo'[i] = todo[i - n + 1]
                     /\ \A i \in 1 .. n - 1 : script[r][seq + i - 1] \notin Ends
                     /\ n = last - seq + 1 \/ script[r][seq + n - 1] \in Ends
<1> DEFINE r == Head(todo).run
           seq == Head(todo).seq
           v == CheckGapTimeoutAt(window[r])
<1>1. r \in Runs /\ seq \in 1 .. Len(script[r])
  BY HolderHead DEF LocalTypes
<1>2. script[r] \in Seq(Frames) /\ Len(script[r]) \in Nat
  BY <1>1, ScriptFacts DEF LocalTypes
<1>3. last \in seq .. Len(script[r])
  <2>1. v.pending \subseteq window[r].pending
    BY <1>1, CheckedWindow DEF LocalTypes, WindowTypes
  <2>2. Completes(v, seq, last)
    OBVIOUS
  <2> HIDE DEF v, r, seq
  <2> QED BY <1>1, <2>1, <2>2, CompletesWithin DEF LocalTypes
<1>4. /\ Tail(todo) \in Seq(Step) /\ Len(Tail(todo)) = Len(todo) - 1 /\ Len(todo) \in Nat \ {0}
      /\ \A i \in 1 .. Len(todo) - 1 : Tail(todo)[i] = todo[i + 1]
  BY StepUpdate DEF LocalTypes, Free
<1>5. todo' = EventsOf(r, seq, last) \o Tail(todo)
  OBVIOUS
<1> HIDE DEF r, seq, v
<1>6. PICK upTo \in seq .. last :
         /\ EventsOf(r, seq, last) = [i \in 1 .. upTo - seq + 1 |-> Deliver(script[r][seq + i - 1], r)]
         /\ \A j \in seq .. upTo - 1 : script[r][j] \notin Ends
         /\ upTo = last \/ script[r][upTo] \in Ends
  BY <1>1, <1>2, <1>3, EventsOfShape
<1> DEFINE n == upTo - seq + 1
           e == EventsOf(r, seq, last)
<1>7. n \in 1 .. last - seq + 1 /\ n \in Nat /\ seq \in Nat /\ upTo = seq + n - 1
  BY <1>1, <1>2, <1>3, <1>6
<1>8. /\ e = [i \in 1 .. n |-> Deliver(script[r][seq + i - 1], r)]
  BY <1>6
<1> HIDE DEF e, n
<1>9. e \in Seq(Step) /\ Len(e) = n /\ \A i \in 1 .. n : e[i] = Deliver(script[r][seq + i - 1], r)
  <2>1. \A i \in 1 .. n : script[r][seq + i - 1] \in Frames
    BY <1>1, <1>2, <1>3, <1>7
  <2>2. \A i \in 1 .. n : Deliver(script[r][seq + i - 1], r) \in Step
    BY <1>1, <2>1, StepKinds
  <2> QED BY <1>7, <1>8, <2>2
<1>10. /\ Len(todo') = n + Len(todo) - 1
       /\ \A i \in 1 .. n : todo'[i] = e[i]
       /\ \A i \in n + 1 .. Len(todo') : todo'[i] = Tail(todo)[i - n]
  <2>1. todo' = e \o Tail(todo)
    BY <1>5 DEF e
  <2>2. /\ Len(e \o Tail(todo)) = n + Len(Tail(todo))
        /\ \A i \in 1 .. n : (e \o Tail(todo))[i] = e[i]
        /\ \A i \in n + 1 .. Len(e \o Tail(todo)) : (e \o Tail(todo))[i] = Tail(todo)[i - n]
    <3> DEFINE t == Tail(todo)
    <3>1. e \in Seq(Step) /\ Len(e) = n /\ t \in Seq(Step)
      BY <1>4, <1>9
    <3> HIDE DEF t
    <3>2. /\ Len(e \o t) = n + Len(t)
          /\ \A i \in 1 .. n : (e \o t)[i] = e[i]
          /\ \A i \in n + 1 .. Len(e \o t) : (e \o t)[i] = t[i - n]
      BY <3>1, Concatenated
    <3> QED BY <3>2 DEF t
  <2>3. Len(todo') = n + Len(todo) - 1
    BY <1>4, <1>7, <2>1, <2>2
  <2> QED BY <2>1, <2>2, <2>3
<1>11. \A i \in n + 1 .. Len(todo') : todo'[i] = todo[i - n + 1]
  BY <1>4, <1>7, <1>10
<1>12. \A i \in 1 .. n - 1 : script[r][seq + i - 1] \notin Ends
  BY <1>1, <1>2, <1>6, <1>7
<1>13. n = last - seq + 1 \/ script[r][seq + n - 1] \in Ends
  BY <1>1, <1>2, <1>3, <1>6, <1>7
<1> QED BY <1>3, <1>7, <1>9, <1>10, <1>11, <1>12, <1>13 DEF r, seq

\* The holder's list is empty, as it was or one step shorter, the events of a
\* delivered frame in front of it, the frames of a message that came in, or
\* the end of a session.
LEMMA NextTodo ==
    ASSUME LocalInv, Next
    PROVE  \/ todo' = todo /\ (Free \/ \A r \in Runs : session[r] = "open" => session'[r] = "open")
           \/ todo' = << >>
           \/ \E r \in Runs :
                 /\ session[r] = "open" /\ session' = session
                 /\ todo' = <<Deliver("error", r), Close(r)>> \/ (todo' = <<Close(r)>> /\ told'[r] # "events")
           \/ \E r \in Runs, first, last \in Seqs : ReceiveLocal(r, first, last)
           \/ ~Free /\ todo' = Tail(todo) /\ session' = session /\ Head(todo).op # "close"
           \/ /\ ~Free /\ Head(todo).op = "offer" /\ session' = session
              /\ \E last \in Seqs :
                    /\ Completes(CheckGapTimeoutAt(window[Head(todo).run]), Head(todo).seq, last)
                    /\ todo' = EventsOf(Head(todo).run, Head(todo).seq, last) \o Tail(todo)
<1>1. ElarkTypes /\ SocketTypes /\ SessionTypes /\ ThreadTypes /\ ScriptTypes /\ TodoTypes /\ TodoInv
  BY DEF LocalInv, LocalTypes
<1>2. ASSUME NEW r \in Runs, Elark(r) PROVE UNCHANGED <<todo, session>>
  BY <1>1, <1>2, ElarkStepLeaves
<1>3. ASSUME NEW r \in Runs, OutboundManager(r) PROVE UNCHANGED <<todo, session>>
  BY <1>1, <1>3, OutboundLeaves
<1>4. ASSUME NEW r \in Runs, OnDrained(r) PROVE todo' = todo /\ Free
  BY <1>4 DEF OnDrained
<1>5. ASSUME NEW r \in Runs, OnDrop(r)
      PROVE  \/ todo' = << >>
             \/ session[r] = "open" /\ session' = session /\ todo' = <<Deliver("error", r), Close(r)>>
  BY <1>5 DEF OnDrop
<1>6. ASSUME NEW r \in Runs, Tick(r)
      PROVE  session[r] = "open" /\ session' = session /\ todo' = <<Deliver("error", r), Close(r)>>
  BY <1>6 DEF Tick
<1>7. ASSUME NEW r \in Runs, Elapse(r) PROVE UNCHANGED <<todo, session>>
  BY <1>7 DEF Elapse
<1>8. ASSUME NEW r \in Runs, NEW k \in Kills, StartKill(k, r) PROVE UNCHANGED <<todo, session>>
  BY <1>8 DEF StartKill
<1>9. ASSUME NEW c \in Clients, Thread(c)
      PROVE  todo' = todo /\ \A r \in Runs : session[r] = "open" => session'[r] = "open"
  <2>1. todo' = todo
    BY <1>1, <1>9, ThreadStepLeaves
  <2>2. session' = session \/ session' = [session EXCEPT ![c] = "open"]
    BY <1>9 DEF Thread, Accept, Serve, ReadStart, RootOpened, RegisterLocal, ReadInput, Enqueue,
            MarkClose, Answer, ReadFails
  <2> QED BY <1>1, <2>1, <2>2 DEF SessionTypes
<1>10. ASSUME Stop \/ CloseServer \/ Stopped PROVE UNCHANGED <<todo, session>>
  BY <1>10 DEF Stop, CloseServer, Stopped
<1>11. CASE Holder
  <2> DEFINE r == Head(todo).run
  <2>1. ~Free
    BY <1>11 DEF Holder, OfferStep, DeliverStep, CloseStep
  <2>2. r \in Runs /\ session[r] = "open" /\ Head(todo) \in Step
    BY <1>1, <2>1, HolderHead
  <2>3. CASE OfferStep
    <3>1. session' = session /\ Head(todo).op = "offer"
      BY <2>3 DEF OfferStep
    <3>2. \/ todo' = <<Deliver("error", r), Close(r)>>
          \/ todo' = Tail(todo)
          \/ \E last \in Seqs :
                /\ Completes(CheckGapTimeoutAt(window[r]), Head(todo).seq, last)
                /\ todo' = EventsOf(r, Head(todo).seq, last) \o Tail(todo)
      BY <2>3 DEF OfferStep
    <3> QED BY <2>1, <2>2, <3>1, <3>2
  <2>4. CASE DeliverStep
    <3>1. session' = session /\ Head(todo).op = "deliver" /\ told' = Tell(r, Head(todo).event)
      BY <2>4 DEF DeliverStep
    <3>2. \/ todo' = <<Close(r)>> /\ Head(todo).event \in Ends
          \/ todo' = Tail(todo) \/ todo' = << >>
      BY <2>4 DEF DeliverStep
    <3>3. Head(todo).event \in Ends => told'[r] # "events"
      BY <1>1, <2>2, <3>1 DEF Tell, ScriptTypes
    <3> QED BY <2>1, <2>2, <3>1, <3>2, <3>3
  <2>5. CASE CloseStep
    BY <2>5 DEF CloseStep
  <2> QED BY <1>11, <2>3, <2>4, <2>5 DEF Holder
<1> QED
  BY <1>2, <1>3, <1>4, <1>5, <1>6, <1>7, <1>8, <1>9, <1>10, <1>11, NextCases

LEMMA StepFields ==
    /\ \A event, r : /\ Deliver(event, r).op = "deliver" /\ Deliver(event, r).run = r
                     /\ Deliver(event, r).event = event /\ Deliver(event, r).seq = 0
    /\ \A seq, r : Offer(seq, r).op = "offer" /\ Offer(seq, r).run = r /\ Offer(seq, r).seq = seq
    /\ \A r : Close(r).op = "close" /\ Close(r).run = r
  BY DEF Deliver, Offer, Close

LEMMA DeliverFields ==
    ASSUME NEW x, NEW event, NEW r, x = Deliver(event, r)
    PROVE  x.op = "deliver" /\ x.run = r /\ x.event = event
  BY DEF Deliver

LEMMA OfferFields ==
    ASSUME NEW x, NEW seq, NEW r, x = Offer(seq, r)
    PROVE  x.op = "offer" /\ x.run = r /\ x.seq = seq
  BY DEF Offer

\* The end of a session is one list of steps, a message that came in another.
LEMMA NewTodoInv ==
    ASSUME NEW r \in Runs, session'[r] = "open", ScriptTypes,
           \/ todo' = <<Deliver("error", r), Close(r)>> \/ todo' = <<Close(r)>>
           \/ /\ script' = script
              /\ \E first, last \in Seqs :
                    /\ first <= last /\ last <= Len(script[r])
                    /\ todo' = [i \in 1 .. last - first + 1 |-> Offer(first + i - 1, r)]
    PROVE  TodoInv'
<1>1. "error" \in Ends /\ Ends \subseteq Frames
  BY DEF Ends, Frames
<1>2. CASE todo' = <<Deliver("error", r), Close(r)>>
  <2>1. Len(todo') = 2 /\ todo'[1] = Deliver("error", r) /\ todo'[2] = Close(r)
    BY <1>2
  <2>2. \A i \in 1 .. 2 : i = 1 \/ i = 2
    OBVIOUS
  <2>3. \A i, j \in 1 .. 2 : i < j => i = 1 /\ j = 2
    OBVIOUS
  <2> QED BY <1>1, <2>1, <2>2, <2>3, StepFields DEF TodoInv
<1>3. CASE todo' = <<Close(r)>>
  <2>1. Len(todo') = 1 /\ todo'[1] = Close(r)
    BY <1>3
  <2>2. (\A i \in 1 .. 1 : i = 1) /\ \A i, j \in 1 .. 1 : ~(i < j)
    OBVIOUS
  <2> QED BY <2>1, <2>2, StepFields DEF TodoInv
<1>4. ASSUME NEW first \in Seqs, NEW last \in Seqs, first <= last, last <= Len(script[r]), script' = script,
             todo' = [i \in 1 .. last - first + 1 |-> Offer(first + i - 1, r)]
      PROVE  TodoInv'
  <2>1. first \in Nat \ {0} /\ last \in Nat /\ Len(script[r]) \in Nat
    BY ScriptFacts, RecvWindowAssumption DEF Seqs
  <2>2. Len(todo') = last - first + 1
    BY <1>4, <2>1
  <2>3. \A i \in 1 .. Len(todo') : todo'[i] = Offer(first + i - 1, r) /\ first + i - 1 \in 1 .. Len(script[r])
    BY <1>4, <2>1, <2>2
  <2>4. 1 \in 1 .. Len(todo')
    BY <1>4, <2>1, <2>2
  <2>5. ASSUME NEW i \in 1 .. Len(todo')
        PROVE  todo'[i].op = "offer" /\ todo'[i].run = r /\ todo'[i].seq \in 1 .. Len(script[r])
    <3>1. todo'[i] = Offer(first + i - 1, r) /\ first + i - 1 \in 1 .. Len(script[r])
      BY <2>3
    <3> QED BY <3>1, OfferFields
  <2> QED BY <1>4, <2>4, <2>5 DEF TodoInv
<1> QED BY <1>2, <1>3, <1>4

\* The steps of a list that is left.
LEMMA TailTodoInv ==
    ASSUME TodoTypes, TodoInv, ~Free, todo' = Tail(todo), session' = session, script' = script,
           Head(todo).op # "close"
    PROVE  TodoInv'
<1> SUFFICES ASSUME todo' # << >> PROVE TodoInv'
  BY DEF TodoInv
<1>1. /\ Len(todo') = Len(todo) - 1 /\ Len(todo) \in Nat \ {0} /\ Len(todo') > 0
      /\ \A i \in 1 .. Len(todo') : todo'[i] = todo[i + 1]
  <2>1. Tail(todo) \in Seq(Step)
    BY StepUpdate DEF Free
  <2> QED BY <2>1, StepUpdate DEF Free
<1>2. \A i \in 1 .. Len(todo') : i + 1 \in 1 .. Len(todo)
  BY <1>1
<1>3. 1 \in 1 .. Len(todo') /\ 1 \in 1 .. Len(todo) /\ todo # << >>
  BY <1>1 DEF Free
<1>4. todo'[1].run = todo[1].run
  BY <1>1, <1>2, <1>3 DEF TodoInv
<1>5. \A i \in 1 .. Len(todo') :
         /\ todo'[i].run = todo[1].run
         /\ todo'[i].op = "offer" => todo'[i].seq \in 1 .. Len(script[todo[1].run])
         /\ todo'[i].op = "deliver" => todo'[i].event \in Frames /\ todo'[i].seq = 0
  BY <1>1, <1>2, <1>3 DEF TodoInv
<1>6. ASSUME NEW i \in 1 .. Len(todo'), NEW j \in 1 .. Len(todo'), i < j
      PROVE  /\ todo'[i].op = "offer" => todo'[j].op = "offer"
             /\ todo'[i].op = "deliver" /\ todo'[i].event \in Ends => todo'[j].op # "deliver"
             /\ todo'[j].op = "close" => todo'[i].op = "deliver" /\ todo'[i].event \in Ends
             /\ todo'[i].op # "close"
  <2>1. i + 1 \in 1 .. Len(todo) /\ j + 1 \in 1 .. Len(todo) /\ i + 1 < j + 1
    BY <1>2, <1>6
  <2> QED BY <1>1, <1>3, <1>6, <2>1 DEF TodoInv
<1> QED BY <1>3, <1>4, <1>5, <1>6 DEF TodoInv

LEMMA DeliveredTodoInv ==
    ASSUME LocalTypes, TodoInv, \A r \in Runs : WindowInv(r), ~Free, Head(todo).op = "offer",
           session' = session, script' = script,
           NEW last \in Seqs,
           Completes(CheckGapTimeoutAt(window[Head(todo).run]), Head(todo).seq, last),
           todo' = EventsOf(Head(todo).run, Head(todo).seq, last) \o Tail(todo)
    PROVE  TodoInv'
<1> DEFINE r == Head(todo).run
           seq == Head(todo).seq
<1>1. /\ r \in Runs /\ seq \in 1 .. Len(script[r]) /\ session[r] = "open" /\ r = todo[1].run
      /\ todo[1].op = "offer"
  BY HolderHead DEF LocalTypes
<1>2. script[r] \in Seq(Frames) /\ Len(script[r]) \in Nat
  BY <1>1, ScriptFacts DEF LocalTypes
<1>3. /\ last \in seq .. Len(script[r])
      /\ \E n \in 1 .. last - seq + 1 :
            /\ Len(todo') = n + Len(todo) - 1
            /\ \A i \in 1 .. n : todo'[i] = Deliver(script[r][seq + i - 1], r)
            /\ \A i \in n + 1 .. Len(todo') : todo'[i] = todo[i - n + 1]
            /\ \A i \in 1 .. n - 1 : script[r][seq + i - 1] \notin Ends
            /\ n = last - seq + 1 \/ script[r][seq + n - 1] \in Ends
  BY DeliveredTodo
<1> HIDE DEF r, seq
<1>4. PICK n \in 1 .. last - seq + 1 :
            /\ Len(todo') = n + Len(todo) - 1
            /\ \A i \in 1 .. n : todo'[i] = Deliver(script[r][seq + i - 1], r)
            /\ \A i \in n + 1 .. Len(todo') : todo'[i] = todo[i - n + 1]
            /\ \A i \in 1 .. n - 1 : script[r][seq + i - 1] \notin Ends
            /\ n = last - seq + 1 \/ script[r][seq + n - 1] \in Ends
  BY <1>3
<1>5. Len(todo) \in Nat \ {0} /\ todo # << >> /\ n \in Nat \ {0}
  <2>1. n \in Nat \ {0}
    BY <1>1, <1>2, <1>3
  <2> QED BY <2>1, StepUpdate DEF LocalTypes, Free
<1>6. \A i \in 1 .. n : script[r][seq + i - 1] \in Frames
  BY <1>1, <1>2, <1>3, <1>4
<1>7. \A i \in 2 .. Len(todo) : todo[i].op = "offer"
  BY <1>1, <1>5 DEF TodoInv
<1>8. \A i \in n + 1 .. Len(todo') : i - n + 1 \in 2 .. Len(todo) /\ i - n + 1 \in 1 .. Len(todo)
  BY <1>4, <1>5
<1>9. ASSUME NEW i \in 1 .. n
      PROVE  /\ todo'[i].run = r /\ todo'[i].op = "deliver"
             /\ todo'[i].event = script[r][seq + i - 1] /\ todo'[i].seq = 0
  <2>1. todo'[i] = Deliver(script[r][seq + i - 1], r)
    BY <1>4
  <2> DEFINE event == script[r][seq + i - 1]
  <2>2. todo'[i] = Deliver(event, r)
    BY <2>1
  <2> HIDE DEF event
  <2>3. todo'[i].run = r /\ todo'[i].op = "deliver" /\ todo'[i].event = event /\ todo'[i].seq = 0
    <3>1. /\ Deliver(event, r).op = "deliver" /\ Deliver(event, r).run = r
          /\ Deliver(event, r).event = event /\ Deliver(event, r).seq = 0
      BY StepFields
    <3> QED BY <2>2, <3>1
  <2> QED BY <2>3 DEF event
<1>10. ASSUME NEW i \in n + 1 .. Len(todo')
       PROVE  todo'[i].run = r /\ todo'[i].op = "offer" /\ todo'[i].seq \in 1 .. Len(script[r])
  <2>1. todo'[i] = todo[i - n + 1]
    BY <1>4
  <2>2. i - n + 1 \in 1 .. Len(todo) /\ i - n + 1 \in 2 .. Len(todo)
    BY <1>8
  <2>3. todo[i - n + 1].op = "offer"
    BY <1>7, <2>2
  <2>4. /\ todo[i - n + 1].run = todo[1].run
        /\ todo[i - n + 1].op = "offer" => todo[i - n + 1].seq \in 1 .. Len(script[todo[1].run])
    BY <1>5, <2>2 DEF TodoInv
  <2> QED BY <1>1, <2>1, <2>3, <2>4
<1>11. \A i \in 1 .. Len(todo') : i \in 1 .. n \/ i \in n + 1 .. Len(todo')
  BY <1>4, <1>5
<1>12. 1 \in 1 .. n /\ todo'[1].run = r
  <2>1. 1 \in 1 .. n
    BY <1>5
  <2> QED BY <1>9, <2>1
<1>13. \A i \in 1 .. Len(todo') :
         /\ todo'[i].run = r
         /\ todo'[i].op = "offer" => todo'[i].seq \in 1 .. Len(script[r])
         /\ todo'[i].op = "deliver" => todo'[i].event \in Frames /\ todo'[i].seq = 0
  BY <1>6, <1>9, <1>10, <1>11
<1>14. ASSUME NEW i \in 1 .. Len(todo'), NEW j \in 1 .. Len(todo'), i < j
       PROVE  /\ todo'[i].op = "offer" => todo'[j].op = "offer"
              /\ todo'[i].op = "deliver" /\ todo'[i].event \in Ends => todo'[j].op # "deliver"
              /\ todo'[j].op = "close" => todo'[i].op = "deliver" /\ todo'[i].event \in Ends
              /\ todo'[i].op # "close"
  <2>1. CASE i \in n + 1 .. Len(todo')
    <3>1. j \in n + 1 .. Len(todo')
      BY <1>4, <1>5, <1>14, <2>1
    <3> QED BY <1>10, <2>1, <3>1
  <2>2. CASE i \in 1 .. n
    <3>1. todo'[j].op # "close" /\ todo'[i].op = "deliver"
      BY <1>9, <1>10, <1>11, <1>14, <2>2
    <3>2. ASSUME todo'[i].event \in Ends PROVE todo'[j].op # "deliver"
      <4>1. ~(i \in 1 .. n - 1)
        BY <1>4, <1>9, <2>2, <3>2
      <4>2. j \in n + 1 .. Len(todo')
        BY <1>4, <1>5, <1>14, <2>2, <4>1
      <4> QED BY <1>10, <4>2
    <3> QED BY <3>1, <3>2
  <2> QED BY <1>11, <2>1, <2>2
<1> QED BY <1>1, <1>12, <1>13, <1>14 DEF TodoInv

LEMMA NextTodoInv ==
    ASSUME LocalInv, Next
    PROVE  TodoInv'
<1>1. /\ LocalTypes /\ TodoTypes /\ ScriptTypes /\ TodoInv /\ (\A r \in Runs : WindowInv(r))
  BY DEF LocalInv, LocalTypes
<1>2. script' = script
  BY SameScript
<1>3. CASE todo' = todo /\ (Free \/ \A r \in Runs : session[r] = "open" => session'[r] = "open")
  <2>1. CASE Free
    BY <1>3, <2>1 DEF Free, TodoInv
  <2>2. CASE ~Free
    <3>1. Head(todo) = todo[1] /\ Head(todo).run \in Runs /\ session[Head(todo).run] = "open"
      BY <1>1, <2>2, HolderHead
    <3>2. session'[todo[1].run] = "open"
      BY <1>3, <2>2, <3>1
    <3> QED BY <1>1, <1>2, <1>3, <3>2 DEF TodoInv
  <2> QED BY <2>1, <2>2
<1>4. CASE todo' = << >>
  BY <1>4 DEF TodoInv
<1>5. ASSUME NEW r \in Runs, session[r] = "open", session' = session,
             todo' = <<Deliver("error", r), Close(r)>> \/ todo' = <<Close(r)>>
      PROVE  TodoInv'
  BY <1>1, <1>5, NewTodoInv
<1>6. ASSUME NEW r \in Runs, NEW first \in Seqs, NEW last \in Seqs, ReceiveLocal(r, first, last)
      PROVE  TodoInv'
  <2>1. /\ session' = session /\ session[r] = "open" /\ first <= last /\ last <= Len(script[r])
        /\ todo' = [i \in 1 .. last - first + 1 |-> Offer(first + i - 1, r)]
    BY <1>6 DEF ReceiveLocal
  <2> QED BY <1>1, <1>2, <2>1, NewTodoInv
<1>7. CASE ~Free /\ todo' = Tail(todo) /\ session' = session /\ Head(todo).op # "close"
  BY <1>1, <1>2, <1>7, TailTodoInv
<1>8. ASSUME ~Free, Head(todo).op = "offer", session' = session, NEW last \in Seqs,
             Completes(CheckGapTimeoutAt(window[Head(todo).run]), Head(todo).seq, last),
             todo' = EventsOf(Head(todo).run, Head(todo).seq, last) \o Tail(todo)
      PROVE  TodoInv'
  BY <1>1, <1>2, <1>8, DeliveredTodoInv
<1> QED BY <1>3, <1>4, <1>5, <1>6, <1>7, <1>8, NextTodo

-----------------------------------------------------------------------------
(***************************************************************************)
(* How a session starts.                                                   *)
(***************************************************************************)
\* Whom a step of an elark, a thread or the holder is about.
LEMMA RunsAreNoKills == \A r \in Runs, k \in Kills : r # k
  BY LocalAssumption

\* What the other processes do to the parts that a start is made of.
LEMMA StartKept ==
    ASSUME NEW r \in Runs, StartInv(r), elark'[r] = elark[r], thread'[r] = thread[r],
           socket'[r].up = socket[r].up \/ socket'[r].up = << >>,
           socket[r] = NoSocket => socket'[r] = NoSocket,
           root'[r] = root[r] \/ (root[r] # "none" /\ root'[r] # "none"),
           session'[r] = session[r] \/ session[r] # "none"
    PROVE  StartInv(r)'
<1>1. \A i \in 1 .. Len(socket'[r].up) :
         socket'[r].up[i] = "start_session" => i = 1 /\ root'[r] = "none"
  <2>1. CASE socket'[r].up = socket[r].up
    BY <2>1 DEF StartInv
  <2>2. CASE socket'[r].up = << >>
    BY <2>2
  <2> QED BY <2>1, <2>2
<1>2. elark'[r].pc = "new" => /\ socket'[r] = NoSocket /\ thread'[r] = "none" /\ root'[r] = "none"
                              /\ elark'[r].printed = 0
  BY DEF StartInv
<1>3. root'[r] = "none" => session'[r] = "none" /\ thread'[r] \notin {"opening", "register"}
  BY DEF StartInv
<1>4. thread'[r] \in {"opening", "register"} => session'[r] = "none"
  BY DEF StartInv
<1> QED BY <1>1, <1>2, <1>3, <1>4 DEF StartInv

\* What the end of an elark leaves of it.
LEMMA ExitFields ==
    ASSUME ElarkTypes, SocketTypes, NEW r \in Runs, NEW code, Exit(r, code)
    PROVE  /\ elark'[r].pc = "exited" /\ elark'[r].code = code
           /\ elark'[r].printed = elark[r].printed /\ elark'[r].interrupt = elark[r].interrupt
           /\ socket'[r].down = << >> /\ socket'[r].up = socket[r].up
           /\ socket'[r].client = FALSE /\ socket'[r].server = socket[r].server
<1>1. r \in Clients /\ socket[r] \in Socket /\ elark[r] \in Process
  BY DEF Clients, ElarkTypes, SocketTypes
<1>2. socket'[r] = ClientCloses(socket[r])
  BY <1>1 DEF Exit, SocketTypes
<1>3. elark'[r] = [elark[r] EXCEPT !.pc = "exited", !.code = code, !.tty = FALSE,
                                   !.acked = FALSE, !.inputs = 0]
  BY DEF Exit, ElarkTypes
<1>4. /\ elark'[r].pc = "exited" /\ elark'[r].code = code
      /\ elark'[r].printed = elark[r].printed /\ elark'[r].interrupt = elark[r].interrupt
  BY <1>1, <1>3 DEF Process
<1> QED BY <1>1, <1>2, <1>4, SocketFields

LEMMA ElarkStartInv ==
    ASSUME NEW r \in Runs, StartInv(r), ElarkTypes, SocketTypes, Elark(r)
    PROVE  StartInv(r)'
<1> DEFINE s == socket[r]
           u == socket'[r].up
<1>1. /\ s \in Socket /\ s.up \in Seq(ClientMessages) /\ r \in Clients
      /\ elark[r] \in Process /\ thread'[r] = thread[r] /\ root'[r] = root[r] /\ session'[r] = session[r]
  <2>1. s \in Socket /\ r \in Clients
    BY DEF SocketTypes, Clients
  <2>2. UNCHANGED <<thread, root, session>>
    BY ElarkStepLeaves
  <2> QED BY <2>1, <2>2 DEF Socket, ElarkTypes
<1>2. elark'[r].pc # "new"
  <2>1. CASE StartElark(r)
    <3>1. CASE Exit(r, "1") BY <3>1, ExitFields
    <3>2. ASSUME NEW tty \in BOOLEAN, NEW pc \in {"stdin", "receive"},
                 elark' = [elark EXCEPT ![r].tty = tty, ![r].pc = pc]
          PROVE  elark'[r].pc # "new"
      BY <1>1, <3>2 DEF ElarkTypes, Process
    <3> QED BY <2>1, <3>1, <3>2 DEF StartElark
  <2>2. CASE StdinEnds(r)
    BY <1>1, <2>2 DEF StdinEnds, ElarkTypes, Process
  <2>3. CASE ForwardInput(r)
    BY <1>1, <2>3 DEF ForwardInput, Running, ElarkTypes, Process
  <2>4. CASE Interrupt(r)
    BY <1>1, <2>4 DEF Interrupt, Running, ElarkTypes, Process
  <2>5. CASE InterruptCloses(r)
    BY <1>1, <2>5 DEF InterruptCloses, Running, ElarkTypes, Process
  <2>6. CASE ReceiveMessage(r)
    <3>1. CASE Exit(r, "exit code") \/ Exit(r, "1") BY <3>1, ExitFields
    <3>2. CASE elark' = [elark EXCEPT ![r].acked = TRUE] \/ elark' = [elark EXCEPT ![r].printed = @ + 1]
      BY <1>1, <2>6, <3>2 DEF ReceiveMessage, ElarkTypes, Process
    <3> QED BY <2>6, <3>1, <3>2 DEF ReceiveMessage
  <2>7. CASE ReceiveFails(r)
    BY <1>1, <2>7 DEF ReceiveFails, Exit, ElarkTypes, Process
  <2>8. CASE Killed(r)
    BY <1>1, <2>8 DEF Killed, Exit, ElarkTypes, Process
  <2> QED BY <2>1, <2>2, <2>3, <2>4, <2>5, <2>6, <2>7, <2>8 DEF Elark
<1>3. \/ u = s.up
      \/ \E m \in {"input", "close"} : u = Append(s.up, m)
      \/ u = <<"start_session">> /\ root[r] = "none"
  <2>1. /\ ClientCloses(s).up = s.up
        /\ \A m : ClientWrites(s, m).up = IF Connected(s) THEN Append(s.up, m) ELSE s.up
    BY <1>1, SocketFields
  <2>2. ASSUME NEW code, Exit(r, code) PROVE u = s.up
    BY <1>1, <2>1, <2>2 DEF Exit, SocketTypes
  <2>3. CASE StartElark(r)
    <3>1. root[r] = "none"
      BY <2>3 DEF StartElark, StartInv
    <3>2. CASE Exit(r, "1") BY <2>2, <3>2
    <3>3. CASE socket' = [socket EXCEPT ![r] = Dialled("start_session")]
      BY <1>1, <3>1, <3>3 DEF Dialled, SocketTypes
    <3> QED BY <2>3, <3>2, <3>3 DEF StartElark
  <2>4. CASE StdinEnds(r) \/ ForwardInput(r)
    <3>1. socket' = socket \/ socket' = [socket EXCEPT ![r] = ClientWrites(s, "input")]
      BY <2>4 DEF StdinEnds, ForwardInput
    <3>2. u = s.up \/ u = Append(s.up, "input")
      BY <1>1, <2>1, <3>1 DEF SocketTypes
    <3> QED BY <3>2
  <2>5. CASE Interrupt(r)
    BY <2>5 DEF Interrupt
  <2>6. CASE InterruptCloses(r)
    <3>1. socket' = [socket EXCEPT ![r] = ClientCloses(ClientWrites(s, "close"))]
      BY <2>6 DEF InterruptCloses
    <3>2. ClientWrites(s, "close") \in Socket
      <4>1. "close" \in ClientMessages
        BY DEF ClientMessages
      <4> QED BY <1>1, <4>1, SocketOps
    <3>3. ClientCloses(ClientWrites(s, "close")).up = ClientWrites(s, "close").up
      BY <3>2, SocketFields
    <3>4. u = s.up \/ u = Append(s.up, "close")
      BY <1>1, <2>1, <3>1, <3>3 DEF SocketTypes
    <3> QED BY <3>4
  <2>7. CASE ReceiveMessage(r)
    <3>1. \/ socket' = [socket EXCEPT ![r].down = Tail(@)]
          \/ Exit(r, "exit code") \/ Exit(r, "1")
      BY <2>7 DEF ReceiveMessage
    <3>2. CASE socket' = [socket EXCEPT ![r].down = Tail(@)]
      BY <1>1, <3>2 DEF SocketTypes, Socket
    <3> QED BY <2>2, <3>1, <3>2
  <2>8. CASE ReceiveFails(r) \/ Killed(r)
    <3>1. \E code : Exit(r, code)
      BY <2>8 DEF ReceiveFails, Killed
    <3> QED BY <2>2, <3>1
  <2> QED BY <2>3, <2>4, <2>5, <2>6, <2>7, <2>8 DEF Elark
<1>4. \A i \in 1 .. Len(u) : u[i] = "start_session" => i = 1 /\ root'[r] = "none"
  <2>1. CASE u = s.up
    BY <1>1, <2>1 DEF StartInv
  <2>2. ASSUME NEW m \in {"input", "close"}, u = Append(s.up, m), NEW i \in 1 .. Len(u),
               u[i] = "start_session"
        PROVE  i = 1 /\ root'[r] = "none"
    <3>1. m \in ClientMessages
      BY DEF ClientMessages
    <3>2. i \in 1 .. Len(s.up) /\ s.up[i] = "start_session"
      <4> DEFINE x == s.up
      <4>1. x \in Seq(ClientMessages) /\ u = Append(x, m)
        BY <1>1, <2>2
      <4> HIDE DEF x, u
      <4> QED BY <2>2, <3>1, <4>1 DEF x
    <3> QED BY <1>1, <3>2 DEF StartInv
  <2>3. CASE u = <<"start_session">> /\ root[r] = "none"
    BY <1>1, <2>3
  <2> HIDE DEF u, s
  <2> QED BY <1>3, <2>1, <2>2, <2>3
<1>5. /\ root'[r] = "none" => session'[r] = "none" /\ thread'[r] \notin {"opening", "register"}
      /\ thread'[r] \in {"opening", "register"} => session'[r] = "none"
  BY <1>1 DEF StartInv
<1> QED BY <1>2, <1>4, <1>5 DEF StartInv

LEMMA TailKeepsNoStart ==
    ASSUME NEW u \in Seq(ClientMessages), u # << >>, NEW none \in BOOLEAN,
           \A i \in 1 .. Len(u) : u[i] = "start_session" => i = 1 /\ none
    PROVE  \A i \in 1 .. Len(Tail(u)) : Tail(u)[i] # "start_session"
<1>1. Len(Tail(u)) = Len(u) - 1 /\ Len(u) \in Nat /\ \A i \in 1 .. Len(Tail(u)) : Tail(u)[i] = u[i + 1]
  OBVIOUS
<1> QED BY <1>1

LEMMA ThreadStartInv ==
    ASSUME NEW r \in Runs, StartInv(r), LocalTypes, Thread(r)
    PROVE  StartInv(r)'
<1> DEFINE s == socket[r]
           u == socket'[r].up
<1>1. /\ r \in Clients /\ s \in Socket /\ s.up \in Seq(ClientMessages) /\ elark'[r] = elark[r]
      /\ thread[r] \in Pcs
  <2>1. r \in Clients /\ s \in Socket /\ thread[r] \in Pcs
    BY DEF LocalTypes, SocketTypes, ThreadTypes, Clients
  <2>2. elark' = elark
    BY <2>1, ThreadStepLeaves DEF LocalTypes
  <2> QED BY <2>1, <2>2 DEF Socket
<1>2. elark[r].pc # "new"
  <2> SUFFICES ASSUME elark[r].pc = "new" PROVE FALSE
    OBVIOUS
  <2>1. thread[r] = "none" /\ ~socket[r].server
    BY DEF StartInv, NoSocket
  <2> QED BY <2>1 DEF Thread, Accept, Serve, ReadInput, Enqueue, Enqueues, MarkClose, Answer, ReadFails,
                      ReadStart, RootOpened, RegisterLocal
<1>3. CASE ReadStart(r)
  <2>1. s.up # << >> /\ Head(s.up) = "start_session" /\ u = Tail(s.up)
    BY <1>1, <1>3 DEF ReadStart, ServerReads, LocalTypes, SocketTypes, Socket
  <2>2. root[r] = "none" /\ session[r] = "none"
    <3>1. 1 \in 1 .. Len(s.up) /\ s.up[1] = "start_session"
      BY <1>1, <2>1
    <3> QED BY <3>1 DEF StartInv
  <2>3. \A i \in 1 .. Len(u) : u[i] # "start_session"
    <3>1. \A i \in 1 .. Len(s.up) : s.up[i] = "start_session" => i = 1 /\ root[r] = "none"
      BY DEF StartInv
    <3>2. \A i \in 1 .. Len(Tail(s.up)) : Tail(s.up)[i] # "start_session"
      BY <1>1, <2>1, <3>1, TailKeepsNoStart
    <3> QED BY <2>1, <3>2
  <2>4. root'[r] = "queued" /\ thread'[r] = "opening" /\ session' = session
    BY <1>1, <1>3 DEF ReadStart, Goes, LocalTypes, ThreadTypes
  <2> QED BY <1>1, <1>2, <2>2, <2>3, <2>4 DEF StartInv
<1>4. CASE ReadInput(r)
  <2>1. s.up # << >> /\ u = Tail(s.up)
    BY <1>1, <1>4 DEF ReadInput, ServerReads, LocalTypes, SocketTypes, Socket
  <2>2. \A i \in 1 .. Len(u) : u[i] # "start_session"
    <3>1. \A i \in 1 .. Len(s.up) : s.up[i] = "start_session" => i = 1 /\ root[r] = "none"
      BY DEF StartInv
    <3>2. \A i \in 1 .. Len(Tail(s.up)) : Tail(s.up)[i] # "start_session"
      BY <1>1, <2>1, <3>1, TailKeepsNoStart
    <3> QED BY <2>1, <3>2
  <2>3. root' = root /\ session' = session /\ thread'[r] \notin {"opening", "register"}
    BY <1>1, <1>4 DEF ReadInput, Goes, LocalTypes, ThreadTypes
  <2> QED BY <1>1, <1>2, <2>2, <2>3 DEF StartInv
<1>5. CASE RootOpened(r)
  <2>1. /\ thread[r] = "opening" /\ root[r] # "none" /\ root' = root /\ session' = session
        /\ socket' = socket /\ session[r] = "none"
    BY <1>5 DEF RootOpened, StartInv
  <2> QED BY <1>1, <1>2, <2>1 DEF StartInv
<1>6. CASE RegisterLocal(r)
  <2>1. /\ thread[r] = "register" /\ root' = root /\ socket' = socket /\ thread'[r] = "read"
    BY <1>1, <1>6 DEF RegisterLocal, Goes, LocalTypes, ThreadTypes
  <2>2. root[r] # "none"
    BY <2>1 DEF StartInv
  <2> QED BY <1>1, <1>2, <2>1, <2>2 DEF StartInv
<1>7. CASE Accept(r) \/ Serve(r) \/ Enqueue(r) \/ MarkClose(r) \/ Answer(r) \/ ReadFails(r)
  <2>1. root' = root /\ session' = session /\ thread'[r] \notin {"opening", "register"}
    BY <1>1, <1>7 DEF Accept, Serve, Enqueue, MarkClose, Answer, ReadFails, Goes, LocalTypes, ThreadTypes
  <2>2. u = s.up \/ u = << >>
    <3>1. ServerWrites(s, "error") \in Socket
      <4>1. "error" \in ServerMessages
        BY DEF ServerMessages
      <4> QED BY <1>1, <4>1, SocketOps
    <3>2. /\ ServerCloses(s).up = << >> /\ ServerCloses(ServerWrites(s, "error")).up = << >>
          /\ ServerWrites(s, "error").up = s.up
      BY <1>1, <3>1, SocketFields
    <3>3. CASE Answer(r)
      BY <1>1, <3>2, <3>3 DEF Answer, LocalTypes, SocketTypes
    <3>4. CASE ReadFails(r)
      BY <1>1, <3>2, <3>4 DEF ReadFails, LocalTypes, SocketTypes
    <3> QED BY <1>7, <3>3, <3>4 DEF Accept, Serve, Enqueue, MarkClose
  <2>3. \A i \in 1 .. Len(u) : u[i] = "start_session" => i = 1 /\ root'[r] = "none"
    <3>1. CASE u = s.up BY <2>1, <3>1 DEF StartInv
    <3>2. CASE u = << >> BY <3>2
    <3> QED BY <2>2, <3>1, <3>2
  <2> QED BY <1>1, <1>2, <2>1, <2>3 DEF StartInv
<1> QED BY <1>3, <1>4, <1>5, <1>6, <1>7 DEF Thread

\* What happens to a run whose elark and whose thread do nothing.
LEMMA OthersMove ==
    ASSUME LocalTypes, TodoInv, \A k \in Kills : KillInv(k), Next, NEW r \in Runs, ~Elark(r), ~Thread(r)
    PROVE  /\ elark'[r] = elark[r] /\ thread'[r] = thread[r]
           /\ root'[r] = root[r] \/ (root[r] # "none" /\ root'[r] # "none")
           /\ \/ socket'[r] = socket[r]
              \/ DeliverStep /\ Head(todo).run = r
              \/ CloseServer /\ socket'[r] = ServerCloses(socket[r])
           /\ \/ session'[r] = session[r]
              \/ /\ session[r] = "open" /\ session'[r] = "closed"
                 /\ OnDrained(r) \/ (CloseStep /\ Head(todo).run = r)
<1>1. /\ ElarkTypes /\ SocketTypes /\ SessionTypes /\ ThreadTypes /\ ScriptTypes /\ TodoTypes
      /\ r \in Clients
  BY DEF LocalTypes, Clients
<1>2. ASSUME NEW q \in Runs, Elark(q)
      PROVE  UNCHANGED <<elark[r], thread[r], root[r], socket[r], session[r]>>
  <2>1. q # r
    BY <1>2
  <2> QED BY <1>1, <1>2, <2>1, ElarkStepLeaves
<1>3. ASSUME NEW c \in Clients, Thread(c)
      PROVE  UNCHANGED <<elark[r], thread[r], root[r], socket[r], session[r]>>
  <2>1. c # r
    BY <1>3
  <2> QED BY <1>1, <1>3, <2>1, ThreadStepLeaves
<1>4. ASSUME NEW q \in Runs, OutboundManager(q)
      PROVE  /\ UNCHANGED <<elark[r], thread[r], socket[r], session[r]>>
             /\ root'[r] = root[r] \/ (root[r] # "none" /\ root'[r] # "none")
  BY <1>1, <1>4, OutboundLeaves
<1>5. ASSUME NEW q \in Runs, OnDrained(q)
      PROVE  /\ UNCHANGED <<elark[r], thread[r], root[r], socket[r]>>
             /\ \/ session'[r] = session[r]
                \/ session[r] = "open" /\ session'[r] = "closed" /\ q = r
  BY <1>1, <1>5 DEF OnDrained, CloseSession, SessionTypes
<1>6. ASSUME NEW q \in Runs, OnDrop(q) \/ Tick(q) \/ Elapse(q)
      PROVE  UNCHANGED <<elark[r], thread[r], root[r], socket[r], session[r]>>
  BY <1>6 DEF OnDrop, Tick, Elapse
<1>7. ASSUME NEW q \in Runs, NEW first \in Seqs, NEW last \in Seqs, ReceiveLocal(q, first, last)
      PROVE  UNCHANGED <<elark[r], thread[r], root[r], socket[r], session[r]>>
  BY <1>7 DEF ReceiveLocal
<1>8. ASSUME NEW q \in Runs, NEW k \in Kills, StartKill(k, q)
      PROVE  UNCHANGED <<elark[r], thread[r], root[r], socket[r], session[r]>>
  <2>1. k # r
    BY RunsAreNoKills
  <2> QED BY <1>1, <1>8, <2>1 DEF StartKill, SocketTypes
<1>9. CASE Stop \/ Stopped
  BY <1>9 DEF Stop, Stopped
<1>10. CASE CloseServer
  <2>1. socket'[r] = IF thread[r] = "accepted" THEN socket[r] ELSE ServerCloses(socket[r])
    BY <1>1, <1>10 DEF CloseServer
  <2>2. UNCHANGED <<elark, thread, root, session>>
    BY <1>10 DEF CloseServer
  <2> QED BY <1>10, <2>1, <2>2
<1>11. CASE OfferStep
  BY <1>11 DEF OfferStep
<1>12. CASE DeliverStep
  <2>1. UNCHANGED <<elark, thread, root, session>>
    BY <1>12 DEF DeliverStep
  <2>2. socket'[r] = socket[r] \/ Head(todo).run = r
    BY <1>1, <1>12 DEF DeliverStep, SocketTypes
  <2> QED BY <1>12, <2>1, <2>2
<1>13. CASE CloseStep
  <2>1. UNCHANGED <<elark, thread, root, socket>>
    BY <1>13 DEF CloseStep
  <2>2. session'[r] = session[r] \/ (session[r] = "open" /\ session'[r] = "closed" /\ Head(todo).run = r)
    BY <1>1, <1>13 DEF CloseStep, CloseSession, SessionTypes
  <2> QED BY <1>13, <2>1, <2>2
<1> QED
  BY <1>2, <1>3, <1>4, <1>5, <1>6, <1>7, <1>8, <1>9, <1>10, <1>11, <1>12, <1>13, NextCases DEF Holder

LEMMA NextStartInv ==
    ASSUME LocalInv, Next, NEW r \in Runs
    PROVE  StartInv(r)'
<1>1. /\ LocalTypes /\ TodoInv /\ (\A k \in Kills : KillInv(k)) /\ StartInv(r) /\ ElarkTypes /\ SocketTypes
  BY DEF LocalInv, LocalTypes
<1>2. CASE Elark(r)
  BY <1>1, <1>2, ElarkStartInv
<1>3. CASE Thread(r)
  BY <1>1, <1>3, ThreadStartInv
<1>4. CASE ~Elark(r) /\ ~Thread(r)
  <2> DEFINE s == socket[r]
  <2>1. /\ elark'[r] = elark[r] /\ thread'[r] = thread[r]
        /\ root'[r] = root[r] \/ (root[r] # "none" /\ root'[r] # "none")
        /\ \/ socket'[r] = socket[r]
           \/ DeliverStep /\ Head(todo).run = r
           \/ CloseServer /\ socket'[r] = ServerCloses(socket[r])
        /\ session'[r] = session[r] \/ session[r] # "none"
    BY <1>1, <1>4, OthersMove
  <2>2. s \in Socket /\ r \in Clients
    BY <1>1 DEF SocketTypes, Clients
  <2>3. (s'.up = s.up \/ s'.up = << >>) /\ (s = NoSocket => s' = NoSocket)
    <3>1. CASE DeliverStep /\ Head(todo).run = r
      <4>1. socket' = socket \/ (Connected(s) /\ \E m : socket' = [socket EXCEPT ![r] = ServerWrites(s, m)])
        BY <3>1 DEF DeliverStep
      <4>2. s' = s \/ (Connected(s) /\ \E m : s' = ServerWrites(s, m))
        BY <1>1, <2>2, <4>1 DEF SocketTypes
      <4>3. \A m : ServerWrites(s, m).up = s.up
        BY <2>2, SocketFields
      <4>4. Connected(s) => s # NoSocket
        BY DEF Connected, NoSocket
      <4> QED BY <4>2, <4>3, <4>4
    <3>2. CASE CloseServer /\ socket'[r] = ServerCloses(socket[r])
      <4>1. ServerCloses(s).up = << >>
        BY <2>2, SocketFields
      <4>2. ServerCloses(NoSocket) = NoSocket
        <5> DEFINE n == NoSocket
        <5>1. n \in Socket /\ ServerCloses(n) \in Socket
          BY <2>2, SocketOps
        <5>2. /\ n.up = << >> /\ n.down = << >> /\ n.client = FALSE /\ n.server = FALSE
          BY DEF NoSocket
        <5>3. /\ ServerCloses(n).up = << >> /\ ServerCloses(n).down = n.down
              /\ ServerCloses(n).client = n.client /\ ServerCloses(n).server = FALSE
          BY <5>1, SocketFields
        <5> HIDE DEF n
        <5> QED BY <5>1, <5>2, <5>3, SameSocket DEF n
      <4> QED BY <3>2, <4>1, <4>2
    <3> QED BY <2>1, <3>1, <3>2
  <2> QED BY <1>1, <2>1, <2>3, StartKept
<1> QED BY <1>2, <1>3, <1>4

-----------------------------------------------------------------------------
(***************************************************************************)
(* What a session tells its client, its connection and its window.         *)
(***************************************************************************)
\* A close that is due is done, or it comes right after the end that is told.
LEMMA CloseDueShape ==
    ASSUME TodoTypes, TodoInv, NEW r, CloseIsDue(r)
    PROVE  \/ todo = <<Close(r)>>
           \/ /\ Len(todo) = 2 /\ Head(todo).op = "deliver" /\ Head(todo).event \in Ends
              /\ todo[2] = Close(r)
<1>1. Len(todo) \in Nat \ {0} /\ Head(todo) = todo[1] /\ todo[Len(todo)] = Close(r) /\ todo # << >>
  BY StepUpdate DEF CloseIsDue
<1>2. todo[Len(todo)].op = "close"
  BY <1>1, StepFields
<1>3. CASE Len(todo) = 1
  <2>1. todo \in Seq(Step)
    BY DEF TodoTypes
  <2> QED BY <1>1, <1>3, <2>1
<1>4. CASE Len(todo) # 1
  <2>1. 1 \in 1 .. Len(todo) /\ 2 \in 1 .. Len(todo) /\ Len(todo) \in 1 .. Len(todo) /\ 1 < Len(todo)
    <3> DEFINE n == Len(todo)
    <3>1. n \in Nat \ {0} /\ n # 1
      BY <1>1, <1>4
    <3> HIDE DEF n
    <3>2. 1 \in 1 .. n /\ 2 \in 1 .. n /\ n \in 1 .. n /\ 1 < n
      BY <3>1
    <3> QED BY <3>2 DEF n
  <2>2. todo[1].op = "deliver" /\ todo[1].event \in Ends
    BY <1>1, <1>2, <2>1 DEF TodoInv
  <2>3. Len(todo) = 2
    <3> DEFINE n == Len(todo)
    <3>3. n \in Nat \ {0} /\ n # 1
      BY <1>1, <1>4
    <3> HIDE DEF n
    <3>1. ASSUME n > 2 PROVE FALSE
      <4>1. 2 < Len(todo)
        BY <3>1 DEF n
      <4>2. todo[2].op = "deliver"
        BY <1>1, <1>2, <2>1, <4>1 DEF TodoInv
      <4>3. todo[2].op # "deliver"
        BY <1>1, <2>1, <2>2 DEF TodoInv
      <4> QED BY <4>2, <4>3
    <3>2. n = 2
      BY <3>1, <3>3
    <3> QED BY <3>2 DEF n
  <2> QED BY <1>1, <2>2, <2>3
<1> QED BY <1>3, <1>4

\* It stays due until it is done.
LEMMA CloseStaysDue ==
    ASSUME LocalInv, Next, NEW r \in Runs, CloseIsDue(r)
    PROVE  \/ todo' = todo
           \/ todo' = <<Close(r)>> /\ session' = session
           \/ CloseStep /\ Head(todo).run = r
<1>1. LocalTypes /\ TodoTypes /\ TodoInv /\ (\A k \in Kills : KillInv(k)) /\ ScriptTypes
  BY DEF LocalInv, LocalTypes
<1>2. ~Free
  BY DEF CloseIsDue, Free
<1>3. \/ todo = <<Close(r)>>
      \/ /\ Len(todo) = 2 /\ Head(todo).op = "deliver" /\ Head(todo).event \in Ends
         /\ todo[2] = Close(r)
  BY <1>1, CloseDueShape
<1>4. CASE Holder
  <2>1. CASE todo = <<Close(r)>>
    <3>1. Head(todo) = Close(r)
      BY <2>1
    <3>2. Head(todo).op = "close" /\ Head(todo).run = r
      BY <3>1, StepFields
    <3> QED BY <1>4, <3>2 DEF Holder, OfferStep, DeliverStep
  <2>2. CASE Len(todo) = 2 /\ Head(todo).op = "deliver" /\ Head(todo).event \in Ends /\ todo[2] = Close(r)
    <3>1. DeliverStep
      BY <1>4, <2>2 DEF Holder, OfferStep, CloseStep
    <3>2. Head(todo).run = r
      <4>1. Head(todo) = todo[1]
        BY <1>1, <1>2, StepUpdate DEF Free
      <4>2. todo[2].run = r
        BY <2>2, StepFields
      <4>3. 2 \in 1 .. Len(todo) /\ todo # << >>
        BY <1>2, <2>2 DEF Free
      <4> QED BY <1>1, <4>1, <4>2, <4>3 DEF TodoInv
    <3> QED BY <2>2, <3>1, <3>2 DEF DeliverStep
  <2> QED BY <1>3, <2>1, <2>2
<1>5. CASE ~Holder
  <2>1. todo' = todo
    <3>1. ASSUME NEW q \in Runs, Elark(q) PROVE todo' = todo
      BY <1>1, <3>1, ElarkStepLeaves DEF LocalTypes
    <3>2. ASSUME NEW q \in Runs, OutboundManager(q) PROVE todo' = todo
      BY <1>1, <3>2, OutboundLeaves DEF LocalTypes
    <3>3. ASSUME NEW c \in Clients, Thread(c) PROVE todo' = todo
      BY <1>1, <3>3, ThreadStepLeaves DEF LocalTypes
    <3> QED BY <1>2, <1>5, <3>1, <3>2, <3>3, NextCases
            DEF OnDrained, OnDrop, Tick, Elapse, ReceiveLocal, StartKill, Stop, CloseServer, Stopped
  <2> QED BY <2>1
<1> QED BY <1>4, <1>5

\* Only the holder of the mutex tells a client something.
LEMMA NextTold ==
    ASSUME LocalInv, Next
    PROVE  /\ DeliverStep \/ told' = told
           /\ Free \/ Holder \/ todo' = todo
<1>1. LocalTypes
  BY DEF LocalInv
<1>2. ASSUME NEW q \in Runs, Elark(q) PROVE told' = told /\ todo' = todo
  BY <1>1, <1>2, ElarkStepLeaves DEF LocalTypes
<1>3. ASSUME NEW q \in Runs, OutboundManager(q) PROVE told' = told /\ todo' = todo
  BY <1>1, <1>3, OutboundLeaves DEF LocalTypes
<1>4. ASSUME NEW c \in Clients, Thread(c) PROVE told' = told /\ todo' = todo
  BY <1>1, <1>4, ThreadStepLeaves DEF LocalTypes
<1> QED BY <1>2, <1>3, <1>4, NextCases
        DEF OnDrained, OnDrop, Tick, Elapse, ReceiveLocal, StartKill, Stop, CloseServer, Stopped,
            Holder, OfferStep, CloseStep

\* A session that is opened: RegisterLocal.
LEMMA SessionMoves ==
    ASSUME LocalInv, Next, NEW r \in Runs
    PROVE  \/ session'[r] = session[r]
           \/ session[r] = "none" /\ session'[r] = "open" /\ Free /\ RegisterLocal(r)
           \/ /\ session[r] = "open" /\ session'[r] = "closed"
              /\ OnDrained(r) \/ (CloseStep /\ Head(todo).run = r)
<1>1. /\ LocalTypes /\ TodoInv /\ (\A k \in Kills : KillInv(k)) /\ StartInv(r)
      /\ ElarkTypes /\ SocketTypes /\ SessionTypes
  BY DEF LocalInv, LocalTypes
<1>2. CASE Elark(r)
  BY <1>1, <1>2, ElarkStepLeaves
<1>3. CASE Thread(r)
  <2>1. CASE RegisterLocal(r)
    <3>1. Free /\ thread[r] = "register" /\ session'[r] = "open"
      BY <1>1, <2>1 DEF RegisterLocal, SessionTypes
    <3>2. session[r] = "none"
      BY <1>1, <3>1 DEF StartInv
    <3> QED BY <2>1, <3>1, <3>2
  <2>2. CASE ~RegisterLocal(r)
    BY <1>3, <2>2 DEF Thread, Accept, Serve, ReadStart, RootOpened, ReadInput, Enqueue, MarkClose,
            Answer, ReadFails
  <2> QED BY <2>1, <2>2
<1>4. CASE ~Elark(r) /\ ~Thread(r)
  BY <1>1, <1>4, OthersMove
<1> QED BY <1>2, <1>3, <1>4

LEMMA NextToldInv ==
    ASSUME LocalInv, Next, NEW r \in Runs
    PROVE  ToldInv(r)'
<1>1. /\ LocalTypes /\ TodoTypes /\ TodoInv /\ ScriptTypes /\ ToldInv(r) /\ SessionTypes
  BY DEF LocalInv, LocalTypes
<1>2. \/ session'[r] = session[r]
      \/ session[r] = "none" /\ session'[r] = "open" /\ Free /\ RegisterLocal(r)
      \/ session[r] = "open" /\ session'[r] = "closed"
  BY SessionMoves
<1>3. CASE DeliverStep /\ Head(todo).run = r
  <2>1. ~Free /\ session[r] = "open" /\ session' = session /\ Head(todo).op = "deliver"
        /\ told' = Tell(r, Head(todo).event)
    BY <1>1, <1>3, HolderHead DEF DeliverStep
  <2>2. told[r] = "events"
    <3> SUFFICES ASSUME told[r] # "events" PROVE FALSE
      OBVIOUS
    <3>1. todo = <<Close(r)>>
      BY <1>1, <2>1 DEF ToldInv
    <3>2. Head(todo).op = "close"
      BY <3>1, StepFields
    <3> QED BY <2>1, <3>2
  <2>3. told'[r] = IF Head(todo).event \in Ends THEN "end" ELSE "events"
    BY <1>1, <2>1, <2>2 DEF Tell, ScriptTypes
  <2>4. Head(todo).event \in Ends => todo' = <<Close(r)>>
    BY <1>3 DEF DeliverStep
  <2> QED BY <2>1, <2>3, <2>4 DEF ToldInv
<1>4. CASE ~(DeliverStep /\ Head(todo).run = r)
  <2>1. told'[r] = told[r]
    <3>1. CASE DeliverStep
      BY <1>1, <1>4, <3>1 DEF DeliverStep, Tell, ScriptTypes
    <3>2. CASE ~DeliverStep
      BY <3>2, NextTold
    <3> QED BY <3>1, <3>2
  <2>2. session'[r] = "none" => told'[r] = "events"
    BY <1>1, <1>2, <2>1 DEF ToldInv
  <2>3. ASSUME session'[r] = "open", told'[r] # "events" PROVE todo' = <<Close(r)>>
    <3>1. session[r] = "open" /\ told[r] # "events"
      BY <1>1, <1>2, <2>1, <2>3 DEF ToldInv
    <3>2. todo = <<Close(r)>>
      BY <1>1, <3>1 DEF ToldInv
    <3>3. CloseIsDue(r)
      BY <3>2 DEF CloseIsDue
    <3>4. \/ todo' = todo \/ todo' = <<Close(r)>>
          \/ CloseStep /\ Head(todo).run = r
      BY <3>3, CloseStaysDue
    <3>5. CASE CloseStep /\ Head(todo).run = r
      BY <1>1, <2>3, <3>1, <3>5 DEF CloseStep, CloseSession, SessionTypes
    <3> QED BY <3>2, <3>4, <3>5
  <2> QED BY <1>1, <2>1, <2>2, <2>3 DEF ToldInv
<1> QED BY <1>3, <1>4

\* What happens to a connection, and to the callbacks that name it.
LEMMA NextConnections ==
    ASSUME LocalInv, Next, NEW r \in Runs
    PROVE  /\ \/ conn'[r].state = conn[r].state
              \/ conn[r].state = "open" /\ conn'[r].state = "gone"
                 /\ \/ \E cause \in {"drained", "dropped"} : <<cause, r>> \in callbacks'
                    \/ session'[r] = "closed"
              \/ conn'[r].state = "gone" /\ session'[r] = "closed"
              \/ RegisterLocal(r) /\ conn'[r].state = "open"
           /\ \A cause \in {"drained", "dropped"} : <<cause, r>> \in callbacks =>
                 \/ <<cause, r>> \in callbacks'
                 \/ session'[r] # "open"
                 \/ CloseIsDue(r)'
           /\ session[r] = "open" /\ session'[r] = "closed" => conn'[r].state = "gone"
<1>1. /\ LocalTypes /\ TodoTypes /\ TodoInv /\ SessionTypes /\ ElarkTypes /\ SocketTypes /\ ThreadTypes
      /\ ScriptTypes /\ \A k \in Kills : KillInv(k)
  BY DEF LocalInv, LocalTypes
<1>2. conn[r] \in Connection /\ conn \in [Runs -> Connection] /\ r \in Clients
  BY <1>1 DEF SessionTypes, Clients
<1> DEFINE Drops(q) == conn' = [conn EXCEPT ![q].state = "gone", ![q].queue = << >>]
<1>3. ASSUME NEW q \in Runs, Drops(q) PROVE conn'[q].state = "gone" /\ (q # r => conn'[r] = conn[r])
  BY <1>2, <1>3 DEF Connection
<1> DEFINE Kept == \A cause \in {"drained", "dropped"} :
                      <<cause, r>> \in callbacks => <<cause, r>> \in callbacks'
           Same == conn'[r].state = conn[r].state /\ Kept /\ session'[r] = session[r]
           Drained1 == /\ conn'[r].state = "gone" /\ conn[r].state = "open" /\ Kept
                       /\ \E cause \in {"drained", "dropped"} : <<cause, r>> \in callbacks'
                       /\ session'[r] = session[r]
<1>4. ASSUME NEW q \in Runs, Elark(q) PROVE Same
  BY <1>1, <1>4, ElarkStepLeaves
<1>5. ASSUME NEW q \in Runs, OutboundManager(q) PROVE Same \/ Drained1
  <2>1. callbacks \subseteq callbacks' /\ session' = session
    BY <1>1, <1>5, OutboundLeaves
  <2>2. CASE PostRoot(q) \/ RootFails(q)
    BY <2>2 DEF PostRoot, RootFails
  <2>3. CASE PostFrame(q)
    <3> DEFINE drains == conn[q].closing /\ Len(conn[q].queue) = 1
    <3>1. /\ conn[q].state = "open"
          /\ callbacks' = IF drains THEN callbacks \union {<<"drained", q>>} ELSE callbacks
      BY <2>3 DEF PostFrame
    <3>2. conn'[q].state = (IF drains THEN "gone" ELSE "open") /\ (q # r => conn'[r] = conn[r])
      BY <1>2, <2>3 DEF PostFrame, Connection
    <3> QED BY <2>1, <3>1, <3>2
  <2>4. CASE DropConn(q)
    <3>1. Drops(q) /\ conn[q].state = "open" /\ callbacks' = callbacks \union {<<"dropped", q>>}
      BY <2>4 DEF DropConn, Drained
    <3> QED BY <1>3, <2>1, <3>1
  <2> QED BY <1>5, <2>2, <2>3, <2>4 DEF OutboundManager
<1>6. ASSUME NEW c \in Clients, Thread(c) PROVE Same \/ Drained1 \/ RegisterLocal(r)
  <2>1. callbacks \subseteq callbacks' /\ (r # c => session'[r] = session[r])
    BY <1>1, <1>6, ThreadStepLeaves
  <2>2. CASE Enqueue(c)
    <3>1. session' = session
      BY <2>2 DEF Enqueue
    <3>2. conn'[r].state = conn[r].state
      BY <1>2, <2>2 DEF Enqueue, Connection
    <3> QED BY <2>1, <3>1, <3>2
  <2>3. CASE MarkClose(c)
    <3>1. session' = session
      BY <2>3 DEF MarkClose
    <3>2. CASE conn[Subject(c)].state = "open" /\ conn[Subject(c)].queue = << >>
      <4>1. thread[c] # "none"
        BY <2>3 DEF MarkClose
      <4>2. Subject(c) \in Runs
        BY <1>1, <4>1, SubjectIsRun
      <4>3. Drops(Subject(c)) /\ callbacks' = callbacks \union {<<"drained", Subject(c)>>}
        BY <2>3, <3>2 DEF MarkClose, Drained
      <4> QED BY <1>3, <2>1, <3>1, <3>2, <4>2, <4>3
    <3>3. CASE ~(conn[Subject(c)].state = "open" /\ conn[Subject(c)].queue = << >>)
      <4>1. conn'[r].state = conn[r].state
        BY <1>2, <2>3, <3>3 DEF MarkClose, Connection
      <4> QED BY <2>1, <3>1, <4>1
    <3> QED BY <3>2, <3>3
  <2>4. CASE c \in Runs /\ RegisterLocal(c)
    <3>1. r = c \/ conn'[r] = conn[r]
      BY <1>2, <2>4 DEF RegisterLocal
    <3> QED BY <2>1, <2>4, <3>1
  <2>5. CASE Accept(c) \/ Serve(c) \/ ReadInput(c) \/ Answer(c) \/ ReadFails(c) \/ ReadStart(c) \/ RootOpened(c)
    BY <2>5 DEF Accept, Serve, ReadInput, Answer, ReadFails, ReadStart, RootOpened
  <2> QED BY <1>6, <2>2, <2>3, <2>4, <2>5 DEF Thread
<1>7. ASSUME NEW q \in Runs, CloseSession(q)
      PROVE  \/ session[r] # "open" /\ session'[r] = session[r] /\ conn'[r] = conn[r]
             \/ q = r /\ session'[r] = "closed" /\ conn'[r].state = "gone"
             \/ q # r /\ session'[r] = session[r] /\ conn'[r] = conn[r]
  <2>1. /\ session' = [session EXCEPT ![q] = IF @ = "open" THEN "closed" ELSE @]
        /\ IF session[q] = "open" THEN Drops(q) ELSE conn' = conn
    BY <1>7 DEF CloseSession, Drained
  <2>2. CASE q = r
    BY <1>1, <1>3, <1>7, <2>1, <2>2 DEF SessionTypes
  <2>3. CASE q # r
    <3>1. session'[r] = session[r]
      BY <1>1, <2>1, <2>3 DEF SessionTypes
    <3>2. conn'[r] = conn[r]
      BY <1>3, <2>1, <2>3
    <3> QED BY <2>3, <3>1, <3>2
  <2> QED BY <2>2, <2>3
<1> DEFINE Closed == \/ session'[r] = "closed" /\ conn'[r].state = "gone"
                     \/ session[r] # "open" /\ session'[r] = session[r] /\ conn'[r] = conn[r]
<1>8. ASSUME NEW q \in Runs, OnDrained(q) PROVE Closed \/ Same
  <2>1. CloseSession(q) /\ callbacks' = callbacks \ {<<"drained", q>>}
    BY <1>8 DEF OnDrained
  <2>2. q # r => Kept
    BY <2>1
  <2>3. \/ session[r] # "open" /\ session'[r] = session[r] /\ conn'[r] = conn[r]
        \/ q = r /\ session'[r] = "closed" /\ conn'[r].state = "gone"
        \/ q # r /\ session'[r] = session[r] /\ conn'[r] = conn[r]
    BY <1>7, <2>1
  <2> QED BY <2>2, <2>3
<1>9. ASSUME NEW q \in Runs, OnDrop(q)
      PROVE  Same \/ (conn'[r] = conn[r] /\ session'[r] = session[r] /\ (session[r] # "open" \/ CloseIsDue(r)'))
  <2>1. UNCHANGED <<conn, session>> /\ callbacks' = callbacks \ {<<"dropped", q>>}
    BY <1>9 DEF OnDrop
  <2>2. CASE q # r
    BY <2>1, <2>2
  <2>3. CASE q = r /\ session[r] = "open"
    <3>1. todo' = <<Deliver("error", r), Close(r)>>
      BY <1>9, <2>3 DEF OnDrop
    <3>2. todo' # << >> /\ Len(todo') = 2 /\ todo'[2] = Close(r)
      BY <3>1
    <3> QED BY <2>1, <3>2 DEF CloseIsDue
  <2> QED BY <2>1, <2>2, <2>3
<1>10. ASSUME Holder PROVE Closed \/ Same
  <2>1. CASE OfferStep \/ DeliverStep
    BY <2>1 DEF OfferStep, DeliverStep
  <2>2. CASE CloseStep
    <3>1. ~Free /\ CloseSession(Head(todo).run) /\ UNCHANGED callbacks
      BY <2>2 DEF CloseStep
    <3>2. Head(todo).run \in Runs
      BY <1>1, <3>1, HolderHead
    <3>3. \/ session[r] # "open" /\ session'[r] = session[r] /\ conn'[r] = conn[r]
          \/ Head(todo).run = r /\ session'[r] = "closed" /\ conn'[r].state = "gone"
          \/ Head(todo).run # r /\ session'[r] = session[r] /\ conn'[r] = conn[r]
      BY <1>7, <3>1, <3>2
    <3> QED BY <3>1, <3>3
  <2> QED BY <1>10, <2>1, <2>2 DEF Holder
<1>11. ASSUME NEW q \in Runs, Tick(q) \/ Elapse(q) \/ (\E first, last \in Seqs : ReceiveLocal(q, first, last))
                                 \/ (\E k \in Kills : StartKill(k, q))
       PROVE  Same
  BY <1>11 DEF Tick, Elapse, ReceiveLocal, StartKill
<1>12. ASSUME Stop \/ CloseServer \/ Stopped PROVE Same
  BY <1>12 DEF Stop, CloseServer, Stopped
<1>13. session[r] # "open" => conn[r].state # "open"
  BY DEF LocalInv, ConnInv
<1>14. ASSUME RegisterLocal(r)
       PROVE  conn'[r].state = "open" /\ callbacks' = callbacks /\ session'[r] = "open" /\ session[r] # "open"
  <2>1. conn'[r].state = "open" /\ callbacks' = callbacks /\ session'[r] = "open" /\ thread[r] = "register"
    BY <1>1, <1>2, <1>14 DEF RegisterLocal, SessionTypes, Connection
  <2>2. session[r] # "open"
    BY <2>1 DEF LocalInv, StartInv
  <2> QED BY <2>1, <2>2
<1>15. \/ Same \/ Drained1 \/ Closed \/ RegisterLocal(r)
       \/ conn'[r] = conn[r] /\ session'[r] = session[r] /\ (session[r] # "open" \/ CloseIsDue(r)')
  <2> HIDE DEF Same, Drained1, Closed
  <2> QED BY <1>4, <1>5, <1>6, <1>8, <1>9, <1>10, <1>11, <1>12, NextCases
<1> HIDE DEF Drops
<1> QED BY <1>13, <1>14, <1>15

LEMMA NextConnInv ==
    ASSUME LocalInv, Next, NEW r \in Runs
    PROVE  ConnInv(r)'
<1>1. ConnInv(r) /\ StartInv(r) /\ SessionTypes /\ TodoTypes /\ TodoInv /\ ScriptTypes /\ conn[r] \in Connection
  BY DEF LocalInv, LocalTypes, SessionTypes
<1>2. /\ \/ conn'[r].state = conn[r].state
         \/ conn[r].state = "open" /\ conn'[r].state = "gone"
            /\ \/ \E cause \in {"drained", "dropped"} : <<cause, r>> \in callbacks'
               \/ session'[r] = "closed"
         \/ conn'[r].state = "gone" /\ session'[r] = "closed"
         \/ RegisterLocal(r) /\ conn'[r].state = "open"
      /\ \A cause \in {"drained", "dropped"} : <<cause, r>> \in callbacks =>
            \/ <<cause, r>> \in callbacks'
            \/ session'[r] # "open"
            \/ CloseIsDue(r)'
      /\ session[r] = "open" /\ session'[r] = "closed" => conn'[r].state = "gone"
  BY NextConnections
<1>3. RegisterLocal(r) => session'[r] = "open"
  BY <1>1 DEF RegisterLocal, SessionTypes
<1>4. \/ session'[r] = session[r]
      \/ session[r] = "none" /\ session'[r] = "open" /\ RegisterLocal(r)
      \/ session[r] = "open" /\ session'[r] = "closed"
  BY SessionMoves
<1>5. RegisterLocal(r) => conn'[r].state = "open"
  BY <1>1 DEF RegisterLocal, SessionTypes, Connection
<1>6. CloseIsDue(r) => CloseIsDue(r)' \/ session'[r] # "open"
  <2> SUFFICES ASSUME CloseIsDue(r) PROVE CloseIsDue(r)' \/ session'[r] # "open"
    OBVIOUS
  <2>1. \/ todo' = todo
        \/ todo' = <<Close(r)>> /\ session' = session
        \/ CloseStep /\ Head(todo).run = r
    BY CloseStaysDue
  <2>2. CASE todo' = <<Close(r)>>
    <3>1. Len(todo') = 1 /\ todo'[1] = Close(r) /\ todo' # << >>
      BY <2>2
    <3> QED BY <3>1 DEF CloseIsDue
  <2>3. CASE CloseStep /\ Head(todo).run = r
    BY <1>1, <2>3 DEF CloseStep, CloseSession, SessionTypes
  <2> QED BY <2>1, <2>2, <2>3 DEF CloseIsDue
<1>7. session'[r] = "none" => conn'[r].state = "none"
  BY <1>1, <1>2, <1>3, <1>4 DEF ConnInv
<1>8. conn'[r].state = "open" => session'[r] = "open"
  BY <1>1, <1>2, <1>3, <1>4 DEF ConnInv
<1>9. ASSUME session'[r] = "open"
      PROVE  \/ conn'[r].state = "open"
             \/ \E cause \in {"drained", "dropped"} : <<cause, r>> \in callbacks'
             \/ CloseIsDue(r)'
  BY <1>1, <1>2, <1>4, <1>5, <1>6, <1>9 DEF ConnInv
<1> QED BY <1>7, <1>8, <1>9 DEF ConnInv

LEMMA NewWindow == NewRecvWindow.next = 1 /\ NewRecvWindow.pending = {}
  BY DEF NewRecvWindow

LEMMA NextWindowInv ==
    ASSUME LocalInv, Next, NEW r \in Runs
    PROVE  WindowInv(r)'
<1>1. /\ LocalTypes /\ TodoTypes /\ TodoInv /\ ScriptTypes /\ SessionTypes /\ WindowInv(r)
      /\ (\A q \in Runs : WindowInv(q)) /\ window \in [Runs -> Window] /\ window[r] \in Window
      /\ (\A k \in Kills : KillInv(k))
  BY DEF LocalInv, LocalTypes, WindowTypes
<1>2. script' = script
  BY SameScript
<1>3. Len(script[r]) \in Nat \ {0} /\ MaxSeq \in Nat /\ Len(script[r]) < MaxSeq /\ Seqs = 1 .. MaxSeq
  BY <1>1, ScriptFacts
<1>4. \/ session'[r] = session[r]
      \/ session[r] = "none" /\ session'[r] = "open"
      \/ session[r] = "open" /\ session'[r] = "closed" /\ (OnDrained(r) \/ (CloseStep /\ Head(todo).run = r))
  BY SessionMoves
<1> DEFINE w == window[r]
           New == window'[r] = NewRecvWindow
<1>5. ASSUME NEW q \in Runs, CloseSession(q) PROVE New \/ (q # r /\ window'[r] = w)
  BY <1>1, <1>5 DEF CloseSession
<1>6. CASE OfferStep
  <2> DEFINE q == Head(todo).run
             v == CheckGapTimeoutAt(window[q])
             seq == Head(todo).seq
  <2>1. ~Free /\ Head(todo).op = "offer" /\ session' = session
    BY <1>6 DEF OfferStep
  <2>2. q \in Runs /\ session[q] = "open" /\ seq \in 1 .. Len(script[q])
    BY <1>1, <2>1, HolderHead
  <2>3. \/ window' = [window EXCEPT ![q] = v]
        \/ window' = [window EXCEPT ![q] = Buffered(v, seq)]
        \/ \E last \in Seqs : Completes(v, seq, last) /\ window' = [window EXCEPT ![q] = Advanced(v, last)]
    BY <1>6 DEF OfferStep
  <2>4. CASE q # r
    <3> HIDE DEF q, v, seq
    <3> QED BY <1>1, <1>2, <2>1, <2>3, <2>4 DEF WindowInv
  <2>5. CASE q = r
    <3>1. v = CheckGapTimeoutAt(w) /\ session[r] = "open" /\ seq \in 1 .. Len(script[r])
      BY <2>2, <2>5
    <3>2. v.next = w.next /\ v.pending \subseteq w.pending /\ v \in Window
      BY <1>1, <3>1, CheckedWindow, WindowOps
    <3> HIDE DEF q, v, seq
    <3>3. v.next \in 1 .. Len(script[r]) + 1 /\ v.pending \subseteq 1 .. Len(script[r])
      BY <1>1, <3>2 DEF WindowInv
    <3>4. CASE window' = [window EXCEPT ![q] = v]
      BY <1>1, <1>2, <2>1, <2>5, <3>1, <3>3, <3>4 DEF WindowInv
    <3>5. CASE window' = [window EXCEPT ![q] = Buffered(v, seq)]
      <4>1. Buffered(v, seq).next = v.next /\ Buffered(v, seq).pending = v.pending \union {seq}
        BY <3>2 DEF Buffered, Window
      <4>2. window'[r] = Buffered(v, seq)
        BY <1>1, <2>5, <3>5
      <4> QED BY <1>2, <2>1, <3>1, <3>3, <4>1, <4>2 DEF WindowInv
    <3>6. ASSUME NEW last \in Seqs, Completes(v, seq, last), window' = [window EXCEPT ![q] = Advanced(v, last)]
          PROVE  WindowInv(r)'
      <4>1. last \in seq .. Len(script[r])
        BY <1>1, <3>1, <3>2, <3>6, CompletesWithin
      <4>2. last \in 1 .. Len(script[r]) /\ Succ(last) = last + 1
        BY <1>3, <3>1, <4>1 DEF Succ
      <4>3. Advanced(v, last).next = last + 1 /\ Advanced(v, last).pending \subseteq v.pending
        BY <4>2 DEF Advanced
      <4>4. window'[r] = Advanced(v, last)
        BY <1>1, <2>5, <3>6
      <4>5. last + 1 \in 1 .. Len(script[r]) + 1
        BY <1>3, <4>2
      <4> QED BY <1>2, <2>1, <3>1, <3>3, <4>3, <4>4, <4>5 DEF WindowInv
    <3> QED BY <2>3, <3>4, <3>5, <3>6
  <2> QED BY <2>4, <2>5
<1>7. CASE DeliverStep
  BY <1>1, <1>2, <1>7 DEF DeliverStep, WindowInv
<1>8. ASSUME NEW q \in Runs, OnDrained(q) \/ (CloseStep /\ Head(todo).run = q) PROVE WindowInv(r)'
  <2>1. CloseSession(q)
    BY <1>8 DEF OnDrained, CloseStep
  <2>2. CASE New
    <3>1. window'[r].next \in 1 .. Len(script[r]) + 1 /\ window'[r].pending \subseteq 1 .. Len(script[r])
      BY <1>3, <2>2, NewWindow
    <3> QED BY <1>2, <2>2, <3>1 DEF WindowInv
  <2>3. CASE q # r /\ window'[r] = w
    <3>1. session'[r] = session[r]
      BY <1>1, <2>1, <2>3 DEF CloseSession, SessionTypes
    <3> QED BY <1>1, <1>2, <2>3, <3>1 DEF WindowInv
  <2> QED BY <1>5, <2>1, <2>2, <2>3
<1>9. ASSUME NEW q \in Runs, Tick(q) \/ Elapse(q) PROVE WindowInv(r)'
  <2>1. /\ session' = session /\ session[q] = "open"
        /\ \/ window' = [window EXCEPT ![q] = CheckGapTimeoutAt(@)]
           \/ window' = [window EXCEPT ![q] = Aged(@)]
    BY <1>9 DEF Tick, Elapse
  <2>2. \/ window'[r] = w
        \/ q = r /\ window'[r] = CheckGapTimeoutAt(w)
        \/ q = r /\ window'[r] = Aged(w)
    BY <1>1, <2>1
  <2>3. CheckGapTimeoutAt(w).next = w.next /\ CheckGapTimeoutAt(w).pending \subseteq w.pending
    BY <1>1, CheckedWindow
  <2>4. Aged(w).next = w.next /\ Aged(w).pending = w.pending
    BY <1>1 DEF Aged, Window
  <2> HIDE DEF w
  <2>5. window'[r].next = w.next /\ window'[r].pending \subseteq w.pending /\ (window'[r] = w \/ session'[r] = "open")
    BY <2>1, <2>2, <2>3, <2>4
  <2> QED BY <1>1, <1>2, <2>1, <2>5 DEF WindowInv, w
<1>10. ASSUME window' = window, session'[r] # "closed" \/ session'[r] = session[r] PROVE WindowInv(r)'
  <2>1. session'[r] # "open" => session[r] # "open"
    BY <1>4, <1>10
  <2> QED BY <1>1, <1>2, <1>10, <2>1 DEF WindowInv
<1>11. ASSUME NEW q \in Runs, Elark(q) PROVE UNCHANGED <<window, session>>
  BY <1>1, <1>11, ElarkStepLeaves DEF LocalTypes
<1>12. ASSUME NEW q \in Runs, OutboundManager(q) PROVE UNCHANGED <<window, session>>
  BY <1>1, <1>12, OutboundLeaves DEF LocalTypes
<1>13. ASSUME NEW c \in Clients, Thread(c)
       PROVE  window' = window /\ (session'[r] # "closed" \/ session'[r] = session[r])
  <2>1. window' = window
    BY <1>1, <1>13, ThreadStepLeaves DEF LocalTypes
  <2>2. session' = session \/ session' = [session EXCEPT ![c] = "open"]
    BY <1>13 DEF Thread, Accept, Serve, ReadStart, RootOpened, RegisterLocal, ReadInput, Enqueue,
            MarkClose, Answer, ReadFails
  <2>3. session'[r] = session[r] \/ session'[r] = "open"
    BY <1>1, <2>2 DEF SessionTypes
  <2> QED BY <2>1, <2>3
<1>14. ASSUME \/ \E q \in Runs : OnDrop(q) \/ (\E first, last \in Seqs : ReceiveLocal(q, first, last))
                                 \/ (\E k \in Kills : StartKill(k, q))
              \/ Stop \/ CloseServer \/ Stopped
       PROVE  UNCHANGED <<window, session>>
  BY <1>14 DEF OnDrop, ReceiveLocal, StartKill, Stop, CloseServer, Stopped
<1>15. CASE CloseStep
  <2>1. Head(todo).run \in Runs
    <3>1. ~Free
      BY <1>15 DEF CloseStep
    <3> QED BY <1>1, <3>1, HolderHead
  <2> QED BY <1>8, <1>15, <2>1
<1> QED
  BY <1>6, <1>7, <1>8, <1>9, <1>10, <1>11, <1>12, <1>13, <1>14, <1>15, NextCases DEF Holder

-----------------------------------------------------------------------------
(***************************************************************************)
(* An elark that is interrupted, and an elark kill.                        *)
(***************************************************************************)
LEMMA ElarkInterruptInv ==
    ASSUME NEW r \in Runs, StartInv(r), InterruptInv(r), ElarkTypes, SocketTypes, Elark(r)
    PROVE  InterruptInv(r)'
<1> DEFINE s == socket[r]
           p == elark[r]
           Over == p.interrupt \in {"written", "closed"}
<1>1. s \in Socket /\ p \in Process /\ r \in Clients
  BY DEF SocketTypes, ElarkTypes, Clients
<1>2. Over => ~s.client
  BY DEF InterruptInv
<1>3. \A m : ClientWrites(s, m).client = s.client
  BY <1>1, SocketFields
<1>4. ASSUME NEW code, Exit(r, code), Over => code \in {"130", "send stdin", "killed"}
      PROVE  InterruptInv(r)'
  <2>1. /\ elark'[r].pc = "exited" /\ elark'[r].code = code /\ elark'[r].interrupt = p.interrupt
        /\ socket'[r].client = FALSE
    BY <1>4, ExitFields
  <2> QED BY <1>4, <2>1 DEF InterruptInv
<1>5. CASE StartElark(r)
  <2>1. p.interrupt = "none"
    BY <1>5 DEF StartElark, InterruptInv
  <2>2. CASE Exit(r, "1")
    BY <1>4, <2>1, <2>2
  <2>3. ASSUME NEW tty \in BOOLEAN, NEW pc \in {"stdin", "receive"},
               elark' = [elark EXCEPT ![r].tty = tty, ![r].pc = pc]
        PROVE  InterruptInv(r)'
    <3>1. elark'[r].interrupt = "none"
      BY <1>1, <2>1, <2>3 DEF ElarkTypes, Process
    <3> QED BY <3>1 DEF InterruptInv
  <2> QED BY <1>5, <2>2, <2>3 DEF StartElark
<1>6. CASE StdinEnds(r)
  <2>1. p.pc = "stdin"
    BY <1>6 DEF StdinEnds
  <2>2. \/ elark' = [elark EXCEPT ![r].pc = "receive"]
        \/ elark' = [elark EXCEPT ![r] = [@ EXCEPT !.pc = "exited", !.code = "send stdin", !.inputs = 0]]
    BY <1>6 DEF StdinEnds
  <2>3. /\ elark'[r].interrupt = p.interrupt
        /\ elark'[r].pc = "receive" \/ (elark'[r].pc = "exited" /\ elark'[r].code = "send stdin")
    BY <1>1, <2>2 DEF ElarkTypes, Process
  <2>4. socket' = socket \/ socket' = [socket EXCEPT ![r] = ClientWrites(s, "input")]
    BY <1>6 DEF StdinEnds
  <2>5. socket'[r].client = s.client
    BY <1>1, <1>3, <2>4 DEF SocketTypes
  <2> QED BY <1>2, <2>3, <2>5 DEF InterruptInv
<1>7. CASE ForwardInput(r) \/ Interrupt(r)
  <2>1. p.pc \in {"stdin", "receive"} /\ p.interrupt = "none"
    BY <1>7 DEF ForwardInput, Interrupt, Running
  <2>2. \/ elark' = [elark EXCEPT ![r].inputs = @ + 1]
        \/ elark' = [elark EXCEPT ![r].interrupt = "set"]
    BY <1>7 DEF ForwardInput, Interrupt
  <2>3. elark'[r].interrupt \in {"none", "set"} /\ elark'[r].pc = p.pc
    BY <1>1, <2>1, <2>2 DEF ElarkTypes, Process
  <2> QED BY <2>1, <2>3 DEF InterruptInv
<1>8. CASE InterruptCloses(r)
  <2>1. p.pc \in {"stdin", "receive"}
    BY <1>8 DEF InterruptCloses, Running
  <2>2. /\ socket' = [socket EXCEPT ![r] = ClientCloses(ClientWrites(s, "close"))]
    BY <1>8 DEF InterruptCloses
  <2>3. ClientWrites(s, "close") \in Socket
    <3>1. "close" \in ClientMessages
      BY DEF ClientMessages
    <3> QED BY <1>1, <3>1, SocketOps
  <2>4. ClientCloses(ClientWrites(s, "close")).client = FALSE
    BY <2>3, SocketFields
  <2>5. socket'[r].client = FALSE
    BY <1>1, <2>2, <2>4 DEF SocketTypes
  <2>6. elark'[r].pc = p.pc
    BY <1>1, <1>8 DEF InterruptCloses, ElarkTypes, Process
  <2> QED BY <2>1, <2>5, <2>6 DEF InterruptInv
<1>9. CASE ReceiveMessage(r)
  <2>1. p.pc = "receive" /\ s.client
    BY <1>9 DEF ReceiveMessage, ClientReads
  <2>2. ~Over
    BY <1>2, <2>1
  <2>3. CASE Exit(r, "exit code") \/ Exit(r, "1")
    BY <1>4, <2>2, <2>3
  <2>4. CASE elark' = [elark EXCEPT ![r].acked = TRUE] \/ elark' = [elark EXCEPT ![r].printed = @ + 1]
    <3>1. elark'[r].interrupt = p.interrupt /\ elark'[r].pc = "receive"
      BY <1>1, <2>1, <2>4 DEF ElarkTypes, Process
    <3> QED BY <2>2, <3>1 DEF InterruptInv
  <2> QED BY <1>9, <2>3, <2>4 DEF ReceiveMessage
<1>10. CASE ReceiveFails(r)
  BY <1>4, <1>10 DEF ReceiveFails
<1>11. CASE Killed(r)
  BY <1>4, <1>11 DEF Killed
<1> QED BY <1>5, <1>6, <1>7, <1>8, <1>9, <1>10, <1>11 DEF Elark

\* What the daemon does to a socket does not touch the client's end.
LEMMA OthersSocket ==
    ASSUME LocalInv, Next, NEW r \in Runs, ~Elark(r)
    PROVE  /\ elark'[r] = elark[r] /\ socket'[r].client = socket[r].client
           /\ socket'[r].server => socket[r].server
<1>1. LocalTypes /\ TodoInv /\ (\A k \in Kills : KillInv(k)) /\ r \in Clients /\ socket[r] \in Socket
  BY DEF LocalInv, LocalTypes, SocketTypes, Clients
<1> DEFINE s == socket[r]
<1>2. "error" \in ServerMessages
  BY DEF ServerMessages
<1>3. CASE Thread(r)
  <2>1. elark' = elark
    BY <1>1, <1>3, ThreadStepLeaves DEF LocalTypes
  <2>2. /\ ServerWrites(s, "error") \in Socket /\ ServerWrites(s, "error").client = s.client
        /\ ServerWrites(s, "error").server = s.server
    BY <1>1, <1>2, SocketOps, SocketFields
  <2>3. /\ ServerCloses(s).client = s.client /\ ServerCloses(s).server = FALSE
        /\ ServerCloses(ServerWrites(s, "error")).client = s.client
        /\ ServerCloses(ServerWrites(s, "error")).server = FALSE
    BY <1>1, <2>2, SocketFields
  <2>4. CASE Answer(r) \/ ReadFails(r)
    BY <1>1, <2>1, <2>2, <2>3, <2>4 DEF Answer, ReadFails, LocalTypes, SocketTypes
  <2>5. CASE ReadStart(r) \/ ReadInput(r)
    <3>1. socket' = [socket EXCEPT ![r].up = Tail(@)]
      BY <2>5 DEF ReadStart, ReadInput
    <3>2. socket'[r].client = s.client /\ socket'[r].server = s.server
      BY <1>1, <3>1 DEF LocalTypes, SocketTypes, Socket
    <3> QED BY <2>1, <3>2
  <2>6. CASE Accept(r) \/ Serve(r) \/ Enqueue(r) \/ MarkClose(r) \/ RootOpened(r) \/ RegisterLocal(r)
    BY <2>1, <2>6 DEF Accept, Serve, Enqueue, MarkClose, RootOpened, RegisterLocal
  <2> QED BY <1>3, <2>4, <2>5, <2>6 DEF Thread
<1>4. CASE ~Thread(r)
  <2>1. /\ elark'[r] = elark[r]
        /\ \/ socket'[r] = socket[r]
           \/ DeliverStep /\ Head(todo).run = r
           \/ CloseServer /\ socket'[r] = ServerCloses(socket[r])
    BY <1>1, <1>4, OthersMove
  <2>2. CASE DeliverStep /\ Head(todo).run = r
    <3>1. socket' = socket \/ (\E m : socket' = [socket EXCEPT ![r] = ServerWrites(s, m)])
      BY <2>2 DEF DeliverStep
    <3>2. s' = s \/ (\E m : s' = ServerWrites(s, m))
      BY <1>1, <3>1 DEF LocalTypes, SocketTypes
    <3>3. \A m : ServerWrites(s, m).client = s.client /\ ServerWrites(s, m).server = s.server
      BY <1>1, SocketFields
    <3> QED BY <2>1, <3>2, <3>3
  <2>3. CASE CloseServer /\ socket'[r] = ServerCloses(socket[r])
    <3>1. ServerCloses(s).client = s.client /\ ServerCloses(s).server = FALSE
      BY <1>1, SocketFields
    <3> QED BY <2>1, <2>3, <3>1
  <2> QED BY <2>1, <2>2, <2>3
<1> QED BY <1>3, <1>4

LEMMA NextInterruptInv ==
    ASSUME LocalInv, Next, NEW r \in Runs
    PROVE  InterruptInv(r)'
<1>1. StartInv(r) /\ InterruptInv(r) /\ ElarkTypes /\ SocketTypes
  BY DEF LocalInv, LocalTypes
<1>2. CASE Elark(r)
  BY <1>1, <1>2, ElarkInterruptInv
<1>3. CASE ~Elark(r)
  <2>1. elark'[r] = elark[r] /\ socket'[r].client = socket[r].client
    BY <1>3, OthersSocket
  <2> QED BY <1>1, <2>1 DEF InterruptInv
<1> QED BY <1>2, <1>3

LEMMA NextKillInv ==
    ASSUME LocalInv, Next, NEW k \in Kills
    PROVE  KillInv(k)'
<1>1. /\ LocalTypes /\ TodoInv /\ (\A q \in Kills : KillInv(q)) /\ KillInv(k) /\ k \in Clients
      /\ socket[k] \in Socket /\ target \in [Kills -> Clients] /\ k \notin Runs
      /\ ElarkTypes /\ SocketTypes /\ ThreadTypes /\ SessionTypes /\ TodoTypes /\ ScriptTypes
  BY LocalAssumption DEF LocalInv, LocalTypes, SocketTypes, Clients, ThreadTypes
<1> DEFINE s == socket[k]
           Same == /\ target'[k] = target[k] /\ thread'[k] = thread[k] /\ (socket'[k].server => socket[k].server)
<1>2. Same => KillInv(k)'
  BY <1>1 DEF KillInv
<1>3. ASSUME NEW r \in Runs, Elark(r) PROVE Same
  <2>1. r # k
    BY <1>1
  <2> QED BY <1>1, <1>3, <2>1, ElarkStepLeaves
<1>4. ASSUME NEW r \in Runs, OutboundManager(r) PROVE Same
  BY <1>1, <1>4, OutboundLeaves
<1>5. ASSUME NEW c \in Clients, c # k, Thread(c) PROVE Same
  BY <1>1, <1>5, ThreadStepLeaves
<1>6. ASSUME Thread(k) PROVE KillInv(k)'
  <2>1. target' = target
    BY <1>1, <1>6, ThreadStepLeaves
  <2>2. thread[k] # "none" \/ socket[k].server
    BY <1>6 DEF Thread, Accept, Serve, ReadStart, RootOpened, RegisterLocal, ReadInput, Enqueue,
            Enqueues, MarkClose, Answer, ReadFails
  <2> QED BY <1>1, <2>1, <2>2 DEF KillInv
<1>7. ASSUME NEW r \in Runs, NEW q \in Kills, StartKill(q, r) PROVE KillInv(k)'
  <2>1. CASE q = k
    BY <1>1, <1>7, <2>1 DEF StartKill, KillInv
  <2>2. CASE q # k
    <3>1. Same
      BY <1>1, <1>7, <2>2 DEF StartKill, SocketTypes
    <3> QED BY <1>2, <3>1
  <2> QED BY <2>1, <2>2
<1>8. ASSUME Holder PROVE Same
  <2>1. UNCHANGED <<thread, target>>
    BY <1>8 DEF Holder, OfferStep, DeliverStep, CloseStep
  <2>2. ~Free
    BY <1>8 DEF Holder, OfferStep, DeliverStep, CloseStep
  <2>3. Head(todo).run # k
    BY <1>1, <2>2, HolderHead
  <2>4. socket'[k] = socket[k]
    BY <1>1, <1>8, <2>3 DEF Holder, OfferStep, DeliverStep, CloseStep, SocketTypes
  <2> QED BY <2>1, <2>4
<1>9. ASSUME CloseServer PROVE Same
  <2>1. ServerCloses(s).server = FALSE
    BY <1>1, SocketFields
  <2>2. UNCHANGED <<thread, target>> /\ (socket'[k] = s \/ socket'[k] = ServerCloses(s))
    BY <1>1, <1>9 DEF CloseServer
  <2> QED BY <2>1, <2>2
<1>10. ASSUME Stop \/ Stopped \/ \E r \in Runs : \/ OnDrained(r) \/ OnDrop(r) \/ Tick(r) \/ Elapse(r)
                                                 \/ \E first, last \in Seqs : ReceiveLocal(r, first, last)
       PROVE  Same
  BY <1>10 DEF Stop, Stopped, OnDrained, OnDrop, Tick, Elapse, ReceiveLocal
<1> HIDE DEF Same
<1> QED BY <1>2, <1>3, <1>4, <1>5, <1>6, <1>7, <1>8, <1>9, <1>10, NextCases

-----------------------------------------------------------------------------
(***************************************************************************)
(* Counting in sequences.                                                  *)
(***************************************************************************)
LEMMA PlacesFinite ==
    ASSUME NEW S, NEW s \in Seq(S), NEW x
    PROVE  IsFiniteSet(Places(s, x)) /\ HowMany(s, x) \in Nat
<1>1. Len(s) \in Nat /\ IsFiniteSet(1 .. Len(s))
  BY FS_Interval
<1>2. Places(s, x) \in SUBSET (1 .. Len(s))
  BY DEF Places
<1> QED BY <1>1, <1>2, FS_Subset, FS_CardinalityType DEF HowMany

LEMMA NoPlaces ==
    ASSUME NEW s, NEW x, Places(s, x) = {}
    PROVE  HowMany(s, x) = 0
  BY FS_EmptySet DEF HowMany

LEMMA HowManyAppend ==
    ASSUME NEW S, NEW s \in Seq(S), NEW m, NEW x
    PROVE  HowMany(Append(s, m), x) = IF m = x THEN HowMany(s, x) + 1 ELSE HowMany(s, x)
<1> DEFINE P == Places(s, x)
           Q == Places(Append(s, m), x)
<1>1. Len(s) \in Nat /\ IsFiniteSet(P)
  BY PlacesFinite
<1>2. Cardinality(P \union {Len(s) + 1}) = Cardinality(P) + 1
  <2>1. Len(s) + 1 \notin P
    BY <1>1 DEF Places
  <2> HIDE DEF P
  <2> QED BY <1>1, <2>1, FS_AddElement
<1>3. CASE m = x
  <2>1. Q = P \union {Len(s) + 1}
    BY <1>1, <1>3 DEF Places
  <2> QED BY <1>2, <1>3, <2>1 DEF HowMany
<1>4. CASE m # x
  <2>1. Q = P
    BY <1>1, <1>4 DEF Places
  <2> QED BY <1>4, <2>1 DEF HowMany
<1> QED BY <1>3, <1>4

\* As many places when all of them are moved.
LEMMA ShiftedCount ==
    ASSUME NEW P \in SUBSET Int, IsFiniteSet(P), NEW k \in Int, NEW Q \in SUBSET Int,
           \A i \in Int : i \in P <=> i + k \in Q
    PROVE  IsFiniteSet(Q) /\ Cardinality(Q) = Cardinality(P)
<1> DEFINE f == [i \in P |-> i + k]
<1>1. f \in [P -> Q]
  OBVIOUS
<1>2. \A i, j \in P : f[i] = f[j] => i = j
  OBVIOUS
<1>3. \A j \in Q : \E i \in P : f[i] = j
  <2>1. ASSUME NEW j \in Q PROVE \E i \in P : f[i] = j
    <3>1. j - k \in Int /\ (j - k) + k = j
      OBVIOUS
    <3>2. j - k \in P
      BY <3>1
    <3>3. f[j - k] = j
      BY <3>1, <3>2
    <3> QED BY <3>2, <3>3
  <2> QED BY <2>1
<1> HIDE DEF f
<1>4. f \in Bijection(P, Q)
  BY <1>1, <1>2, <1>3 DEF Bijection, Injection, Surjection, IsInjective
<1>5. ExistsBijection(P, Q)
  BY <1>4 DEF ExistsBijection
<1> QED BY <1>5, FS_Bijection

LEMMA HowManyTail ==
    ASSUME NEW S, NEW s \in Seq(S), s # << >>, NEW x
    PROVE  HowMany(s, x) = IF Head(s) = x THEN HowMany(Tail(s), x) + 1 ELSE HowMany(Tail(s), x)
<1> DEFINE P == Places(Tail(s), x)
           Q == {i \in 2 .. Len(s) : s[i] = x}
<1>1. Len(s) \in Nat \ {0} /\ Tail(s) \in Seq(S) /\ Len(Tail(s)) = Len(s) - 1 /\ Head(s) = s[1]
  OBVIOUS
<1>2. \A i \in 1 .. Len(s) - 1 : Tail(s)[i] = s[i + 1]
  BY <1>1
<1>3. P \in SUBSET Int /\ Q \in SUBSET Int /\ IsFiniteSet(P) /\ 1 \in Int
  <2>1. IsFiniteSet(P)
    BY <1>1, PlacesFinite
  <2>2. P \in SUBSET Int
    BY <1>1 DEF Places
  <2>3. Q \in SUBSET Int
    OBVIOUS
  <2> QED BY <2>1, <2>2, <2>3
<1>4. ASSUME NEW i \in Int PROVE i \in P <=> i + 1 \in Q
  <2>1. i \in P <=> i \in 1 .. Len(s) - 1 /\ Tail(s)[i] = x
    BY <1>1 DEF Places
  <2>2. i + 1 \in Q <=> i + 1 \in 2 .. Len(s) /\ s[i + 1] = x
    OBVIOUS
  <2>3. i \in 1 .. Len(s) - 1 <=> i + 1 \in 2 .. Len(s)
    BY <1>1
  <2> HIDE DEF P, Q
  <2> QED BY <1>2, <2>1, <2>2, <2>3
<1>5. IsFiniteSet(Q) /\ Cardinality(Q) = Cardinality(P)
  <2> HIDE DEF P, Q
  <2> QED BY <1>3, <1>4, ShiftedCount
<1>6. 1 \notin Q /\ Places(s, x) = IF Head(s) = x THEN Q \union {1} ELSE Q
  BY <1>1 DEF Places
<1>7. Cardinality(Q \union {1}) = Cardinality(Q) + 1
  <2> HIDE DEF Q
  <2> QED BY <1>5, <1>6, FS_AddElement
<1>8. HowMany(Tail(s), x) = Cardinality(P)
  BY DEF HowMany
<1>9. HowMany(s, x) = Cardinality(IF Head(s) = x THEN Q \union {1} ELSE Q)
  BY <1>6 DEF HowMany
<1> HIDE DEF P, Q
<1> QED BY <1>5, <1>7, <1>8, <1>9

\* The output among the frames of an answer.
LEMMA AnsweredNone == ASSUME NEW r PROVE Answered(r, 0) = 0
<1>1. {i \in 1 .. 0 : script[r][i] = "stdout"} = {}
  OBVIOUS
<1> QED BY <1>1, FS_EmptySet DEF Answered

LEMMA AnsweredGrows ==
    ASSUME NEW r, NEW m \in Nat, NEW n \in Nat, m <= n
    PROVE  Answered(r, m) \in Nat /\ Answered(r, n) \in Nat /\ Answered(r, m) <= Answered(r, n)
                  /\ Answered(r, n) <= n
<1> DEFINE P == {i \in 1 .. m : script[r][i] = "stdout"}
           Q == {i \in 1 .. n : script[r][i] = "stdout"}
<1>1. IsFiniteSet(1 .. n) /\ Cardinality(1 .. n) = n
  BY FS_Interval
<1>2. P \in SUBSET Q /\ Q \in SUBSET (1 .. n)
  OBVIOUS
<1>3. Answered(r, m) = Cardinality(P) /\ Answered(r, n) = Cardinality(Q)
  BY DEF Answered
<1> HIDE DEF P, Q
<1>4. IsFiniteSet(Q) /\ Cardinality(Q) <= n
  BY <1>1, <1>2, FS_Subset
<1>5. IsFiniteSet(P) /\ Cardinality(P) <= Cardinality(Q)
  BY <1>2, <1>4, FS_Subset
<1> QED BY <1>3, <1>4, <1>5, FS_CardinalityType

\* No output after the first m frames.
LEMMA AnsweredAll ==
    ASSUME NEW r, NEW m \in Nat, NEW n \in Nat, m <= n, \A i \in m + 1 .. n : script[r][i] # "stdout"
    PROVE  Answered(r, n) = Answered(r, m)
<1>1. {i \in 1 .. m : script[r][i] = "stdout"} = {i \in 1 .. n : script[r][i] = "stdout"}
  OBVIOUS
<1> QED BY <1>1 DEF Answered

\* The output of n more frames.
Among(r, seq, n) == {i \in 1 .. n : script[r][seq + i - 1] = "stdout"}

LEMMA AnsweredMore ==
    ASSUME NEW r, NEW seq \in Nat \ {0}, NEW n \in Nat
    PROVE  /\ IsFiniteSet(Among(r, seq, n))
           /\ Answered(r, seq + n - 1) = Answered(r, seq - 1) + Cardinality(Among(r, seq, n))
<1> DEFINE P == {i \in 1 .. n : script[r][seq + i - 1] = "stdout"}
           Q == {i \in seq .. seq + n - 1 : script[r][i] = "stdout"}
           A == {i \in 1 .. seq - 1 : script[r][i] = "stdout"}
           B == {i \in 1 .. seq + n - 1 : script[r][i] = "stdout"}
<1>1. IsFiniteSet(P) /\ IsFiniteSet(A)
  <2>1. IsFiniteSet(1 .. n) /\ IsFiniteSet(1 .. seq - 1)
    BY FS_Interval
  <2>2. P \in SUBSET (1 .. n) /\ A \in SUBSET (1 .. seq - 1)
    OBVIOUS
  <2> HIDE DEF P, A
  <2> QED BY <2>1, <2>2, FS_Subset
<1>2. P \in SUBSET Int /\ Q \in SUBSET Int /\ seq - 1 \in Int
  OBVIOUS
<1>3. ASSUME NEW i \in Int PROVE i \in P <=> i + (seq - 1) \in Q
  <2>1. i + (seq - 1) = seq + i - 1
    OBVIOUS
  <2>2. i \in 1 .. n <=> seq + i - 1 \in seq .. seq + n - 1
    OBVIOUS
  <2> QED BY <2>1, <2>2
<1>4. IsFiniteSet(Q) /\ Cardinality(Q) = Cardinality(P)
  <2> HIDE DEF P, Q
  <2> QED BY <1>1, <1>2, <1>3, ShiftedCount
<1>5. B = A \union Q /\ A \intersect Q = {}
  OBVIOUS
<1>6. Answered(r, seq + n - 1) = Cardinality(B) /\ Answered(r, seq - 1) = Cardinality(A)
  BY DEF Answered
<1> HIDE DEF P, Q, A, B
<1>7. Cardinality(B) = Cardinality(A) + Cardinality(Q) - Cardinality(A \intersect Q)
  BY <1>1, <1>4, <1>5, FS_Union
<1>8. Cardinality(A \intersect Q) = 0 /\ Cardinality(A) \in Nat /\ Cardinality(Q) \in Nat
  BY <1>1, <1>4, <1>5, FS_EmptySet, FS_CardinalityType
<1>9. Answered(r, seq + n - 1) = Answered(r, seq - 1) + Cardinality(P)
  BY <1>4, <1>6, <1>7, <1>8
<1> QED BY <1>1, <1>9 DEF P, Among

-----------------------------------------------------------------------------
(***************************************************************************)
(* The output on its way to the client: none is lost before the end of a   *)
(* session is told, none is told twice.                                    *)
(***************************************************************************)
\* The holder of the mutex is busy with r.
Busy(r) == todo # << >> /\ todo[1].run = r

LEMMA NoPlaceForRun ==
    ASSUME NEW t, NEW r, \A i \in 1 .. Len(t) : t[i].run # r \/ t[i].op # "deliver"
    PROVE  \A what : Places(t, Deliver(what, r)) = {}
<1> SUFFICES ASSUME NEW what, NEW i \in Places(t, Deliver(what, r)) PROVE FALSE
  OBVIOUS
<1>1. i \in 1 .. Len(t) /\ t[i] = Deliver(what, r)
  BY DEF Places
<1>2. Deliver(what, r).run = r /\ Deliver(what, r).op = "deliver"
  BY StepFields
<1> QED BY <1>1, <1>2

LEMMA NothingDue ==
    ASSUME TodoInv, NEW r, ~Busy(r)
    PROVE  \A what : Due(r, what) = {}
<1>1. ASSUME NEW i \in 1 .. Len(todo) PROVE todo[i].run # r
  <2>1. todo # << >>
    OBVIOUS
  <2> QED BY <2>1 DEF TodoInv, Busy
<1> QED BY <1>1, NoPlaceForRun DEF Due

LEMMA NothingDueNext ==
    ASSUME TodoInv', NEW r, ~Busy(r)'
    PROVE  \A what : Due(r, what)' = {}
<1>1. ASSUME NEW i \in 1 .. Len(todo') PROVE todo'[i].run # r
  <2>1. todo' # << >>
    OBVIOUS
  <2> QED BY <2>1 DEF TodoInv, Busy
<1> QED BY <1>1, NoPlaceForRun DEF Due

\* What the steps of others mean for a run.
LEMMA Elsewhere ==
    ASSUME LocalInv, TodoInv', Next, NEW r \in Runs, ~Elark(r), ~Thread(r),
           ~(Holder /\ Head(todo).run = r), ~OnDrained(r), ~OnDrop(r), ~Tick(r),
           ~(\E first, last \in Seqs : ReceiveLocal(r, first, last))
    PROVE  /\ elark'[r] = elark[r] /\ told'[r] = told[r] /\ session'[r] = session[r]
           /\ window'[r].next = window[r].next
           /\ socket'[r] = socket[r] \/ socket'[r] = ServerCloses(socket[r])
           /\ \A what : Due(r, what)' = Due(r, what)
           /\ Busy(r)' => Busy(r)
           /\ daemon' = "running" => daemon = "running"
<1>1. /\ LocalTypes /\ TodoInv /\ (\A k \in Kills : KillInv(k)) /\ TodoTypes /\ ScriptTypes
      /\ window \in [Runs -> Window] /\ SessionTypes
  BY DEF LocalInv, LocalTypes, WindowTypes
<1>2. DeliverStep \/ CloseStep => Holder
  BY DEF Holder
<1>3. /\ elark'[r] = elark[r] /\ session'[r] = session[r]
      /\ socket'[r] = socket[r] \/ socket'[r] = ServerCloses(socket[r])
  BY <1>1, <1>2, OthersMove
<1> DEFINE Kept == /\ told'[r] = told[r] /\ window'[r].next = window[r].next
                   /\ daemon' = "running" => daemon = "running"
                   /\ todo' = todo \/ (~Busy(r) /\ ~Busy(r)')
<1>4. ASSUME NEW q \in Runs, Elark(q) \/ OutboundManager(q) PROVE Kept
  BY <1>1, <1>4, ElarkStepLeaves, OutboundLeaves DEF LocalTypes
<1>5. ASSUME NEW c \in Clients, Thread(c) PROVE Kept
  BY <1>1, <1>5, ThreadStepLeaves DEF LocalTypes
<1>6. ASSUME NEW q \in Runs, q # r, CloseSession(q) PROVE window'[r] = window[r]
  BY <1>1, <1>6 DEF CloseSession
<1>7. ASSUME NEW q \in Runs, OnDrained(q) PROVE Kept
  <2>1. q # r
    BY <1>7
  <2> QED BY <1>6, <1>7, <2>1 DEF OnDrained
<1>8. ASSUME NEW q \in Runs, todo' = <<Deliver("error", q), Close(q)>> \/ todo' = << >>, q # r PROVE ~Busy(r)'
  <2>1. Deliver("error", q).run = q
    BY StepFields
  <2> QED BY <1>8, <2>1 DEF Busy
<1>9. Free => ~Busy(r)
  BY DEF Free, Busy
<1>10. ASSUME NEW q \in Runs, OnDrop(q) PROVE Kept
  <2>1. q # r
    BY <1>10
  <2>2. todo' = <<Deliver("error", q), Close(q)>> \/ todo' = << >>
    BY <1>10 DEF OnDrop
  <2> QED BY <1>8, <1>9, <1>10, <2>1, <2>2 DEF OnDrop
<1>11. ASSUME NEW q \in Runs, Tick(q) PROVE Kept
  <2>1. q # r
    BY <1>11
  <2>2. todo' = <<Deliver("error", q), Close(q)>>
    BY <1>11 DEF Tick
  <2>3. window'[r] = window[r]
    BY <1>1, <1>11, <2>1 DEF Tick
  <2> QED BY <1>8, <1>9, <1>11, <2>1, <2>2, <2>3 DEF Tick
<1>12. ASSUME NEW q \in Runs, Elapse(q) PROVE Kept
  <2>1. window' = [window EXCEPT ![q] = Aged(@)] /\ UNCHANGED <<todo, told, daemon>>
    BY <1>12 DEF Elapse
  <2>2. Aged(window[q]).next = window[q].next
    BY <1>1 DEF Aged, Window
  <2> QED BY <1>1, <2>1, <2>2
<1>13. ASSUME NEW q \in Runs, NEW first \in Seqs, NEW last \in Seqs, ReceiveLocal(q, first, last) PROVE Kept
  <2>1. q # r
    BY <1>13
  <2>2. todo' = [i \in 1 .. last - first + 1 |-> Offer(first + i - 1, q)] /\ first <= last
    BY <1>13 DEF ReceiveLocal
  <2>3. 1 \in 1 .. last - first + 1
    BY <2>2, RecvWindowAssumption DEF Seqs
  <2>4. todo'[1] = Offer(first + 1 - 1, q)
    BY <2>2, <2>3
  <2>5. todo'[1].run = q
    BY <2>4, StepFields
  <2>6. ~Busy(r)'
    BY <2>1, <2>5 DEF Busy
  <2> QED BY <1>9, <1>13, <2>6 DEF ReceiveLocal
<1>14. ASSUME NEW q \in Runs, NEW k \in Kills, StartKill(k, q) PROVE Kept
  BY <1>14 DEF StartKill
<1>15. ASSUME Stop \/ CloseServer \/ Stopped PROVE Kept
  BY <1>15 DEF Stop, CloseServer, Stopped
<1>16. ASSUME Holder PROVE Kept
  <2> DEFINE q == Head(todo).run
  <2>1. ~Free /\ todo # << >>
    BY <1>16 DEF Holder, OfferStep, DeliverStep, CloseStep, Free
  <2>2. q \in Runs /\ q # r /\ Head(todo) = todo[1] /\ todo[1].run = q
    BY <1>1, <1>16, <2>1, HolderHead
  <2>3. ~Busy(r)
    BY <2>2 DEF Busy
  <2>4. window'[r] = window[r]
    <3>1. CASE OfferStep
      <4>1. \E x : window' = [window EXCEPT ![q] = x]
        BY <3>1 DEF OfferStep
      <4> QED BY <1>1, <2>2, <4>1
    <3>2. CASE DeliverStep BY <3>2 DEF DeliverStep
    <3>3. CASE CloseStep BY <1>6, <2>2, <3>3 DEF CloseStep
    <3> QED BY <1>16, <3>1, <3>2, <3>3 DEF Holder
  <2>5. told'[r] = told[r] /\ daemon' = daemon
    <3>1. CASE OfferStep BY <3>1 DEF OfferStep
    <3>2. CASE DeliverStep BY <1>1, <2>2, <3>2 DEF DeliverStep, Tell, ScriptTypes
    <3>3. CASE CloseStep BY <3>3 DEF CloseStep
    <3> QED BY <1>16, <3>1, <3>2, <3>3 DEF Holder
  <2>6. ~Busy(r)'
    <3>1. CASE Busy(r)'
      <4>1. session'[r] = "open" /\ todo' # << >> /\ todo'[1].run = r
        BY <3>1 DEF TodoInv, Busy
      <4>2. todo'[1].run = q
        <5>1. \/ todo' = <<Deliver("error", q), Close(q)>> \/ todo' = <<Close(q)>>
              \/ todo' = Tail(todo)
              \/ /\ OfferStep
                 /\ \E last \in Seqs :
                      /\ Completes(CheckGapTimeoutAt(window[q]), Head(todo).seq, last)
                      /\ todo' = EventsOf(q, Head(todo).seq, last) \o Tail(todo)
          BY <1>16, <4>1 DEF Holder, OfferStep, DeliverStep, CloseStep
        <5>2. CASE todo' = <<Deliver("error", q), Close(q)>> \/ todo' = <<Close(q)>>
          <6>1. Deliver("error", q).run = q /\ Close(q).run = q
            BY StepFields
          <6> QED BY <5>2, <6>1
        <5>3. CASE todo' = Tail(todo)
          <6>1. Len(todo) \in Nat /\ Len(todo) > 1 /\ todo'[1] = todo[2]
            BY <1>1, <2>1, <4>1, <5>3, StepUpdate
          <6>2. 2 \in 1 .. Len(todo)
            BY <6>1
          <6>3. todo[2].run = todo[1].run
            BY <1>1, <2>1, <6>2 DEF TodoInv
          <6> QED BY <2>2, <6>1, <6>3
        <5>4. ASSUME OfferStep, NEW last \in Seqs,
                     Completes(CheckGapTimeoutAt(window[q]), Head(todo).seq, last),
                     todo' = EventsOf(q, Head(todo).seq, last) \o Tail(todo)
              PROVE  todo'[1].run = q
          <6>1. Head(todo).op = "offer" /\ \A p \in Runs : WindowInv(p)
            BY <5>4 DEF OfferStep, LocalInv
          <6>2. PICK n \in 1 .. last - Head(todo).seq + 1 :
                   \A i \in 1 .. n : todo'[i] = Deliver(script[q][Head(todo).seq + i - 1], q)
            BY <1>1, <2>1, <5>4, <6>1, DeliveredTodo
          <6>3. 1 \in 1 .. n
            BY <6>2
          <6>4. todo'[1] = Deliver(script[q][Head(todo).seq + 1 - 1], q)
            BY <6>2, <6>3
          <6> QED BY <6>4, StepFields
        <5> QED BY <5>1, <5>2, <5>3, <5>4
      <4> QED BY <2>2, <4>1, <4>2
    <3> QED BY <3>1
  <2> QED BY <2>3, <2>4, <2>5, <2>6
<1>17. Kept
  <2> HIDE DEF Kept
  <2> QED BY <1>4, <1>5, <1>7, <1>10, <1>11, <1>12, <1>13, <1>14, <1>15, <1>16, NextCases
<1>18. \A what : Due(r, what)' = Due(r, what)
  <2>1. CASE todo' = todo
    BY <2>1 DEF Due, Places
  <2>2. CASE ~Busy(r) /\ ~Busy(r)'
    <3>1. \A what : Due(r, what) = {}
      BY <1>1, <2>2, NothingDue
    <3>2. \A what : Due(r, what)' = {}
      BY <2>2, NothingDueNext
    <3> QED BY <3>1, <3>2
  <2> QED BY <1>17, <2>1, <2>2
<1> QED BY <1>3, <1>17, <1>18 DEF Busy

\* The counts are numbers.
LEMMA Counts ==
    ASSUME NEW r \in Runs, LocalTypes
    PROVE  /\ elark[r].printed \in Nat /\ Stdouts(socket[r].down) \in Nat
           /\ \A what : IsFiniteSet(Due(r, what)) /\ Cardinality(Due(r, what)) \in Nat
           /\ Output(r) \in Nat
<1>1. elark[r].printed \in Nat /\ socket[r].down \in Seq(ServerMessages) /\ todo \in Seq(Step)
  BY DEF LocalTypes, ElarkTypes, Process, SocketTypes, Socket, TodoTypes, Clients
<1>2. Stdouts(socket[r].down) \in Nat
  BY <1>1, PlacesFinite DEF Stdouts
<1>3. ASSUME NEW what PROVE IsFiniteSet(Due(r, what)) /\ Cardinality(Due(r, what)) \in Nat
  BY <1>1, PlacesFinite, FS_CardinalityType DEF Due
<1> QED BY <1>1, <1>2, <1>3 DEF Output

LEMMA CountsNext ==
    ASSUME NEW r \in Runs, LocalTypes'
    PROVE  /\ elark'[r].printed \in Nat /\ Stdouts(socket'[r].down) \in Nat
           /\ \A what : IsFiniteSet(Due(r, what)') /\ Cardinality(Due(r, what)') \in Nat
           /\ Output(r)' \in Nat
<1>1. elark'[r].printed \in Nat /\ socket'[r].down \in Seq(ServerMessages) /\ todo' \in Seq(Step)
  BY DEF LocalTypes, ElarkTypes, Process, SocketTypes, Socket, TodoTypes, Clients
<1>2. Stdouts(socket'[r].down) \in Nat
  BY <1>1, PlacesFinite DEF Stdouts
<1>3. ASSUME NEW what PROVE IsFiniteSet(Due(r, what)') /\ Cardinality(Due(r, what)') \in Nat
  <2>1. Due(r, what)' = Places(todo', Deliver(what, r))
    BY DEF Due, Places, Deliver
  <2> QED BY <1>1, <2>1, PlacesFinite, FS_CardinalityType
<1> QED BY <1>1, <1>2, <1>3 DEF Output, Stdouts, HowMany, Places

\* A step that adds no output, and none of which comes into the hands of the
\* holder of the mutex, keeps the count.
LEMMA CountStays ==
    ASSUME NEW r \in Runs, LocalTypes, LocalTypes', WindowInv(r), CountInv(r), script' = script,
           session'[r] = session[r] \/ (session[r] = "open" /\ session'[r] = "closed"),
           session'[r] = "open" => window'[r].next = window[r].next,
           session'[r] = "none" => elark'[r].printed = 0 /\ Stdouts(socket'[r].down) = 0,
           Output(r)' <= Output(r),
           InHand(r)' => InHand(r) /\ Output(r)' = Output(r),
           Connected(socket'[r]) /\ Due(r, "exit")' # {} =>
              Connected(socket[r]) /\ Due(r, "exit") # {} /\ Output(r)' = Output(r)
    PROVE  CountInv(r)'
<1> DEFINE len == Len(script[r])
           next == window[r].next
<1>1. len \in Nat /\ next - 1 \in Nat /\ next - 1 <= len
  BY ScriptFacts DEF LocalTypes, WindowInv
<1>2. Output(r) \in Nat /\ Output(r)' \in Nat
  BY Counts, CountsNext
<1>3. \A n : Answered(r, n)' = Answered(r, n)
  BY DEF Answered
<1>4. /\ Answered(r, next - 1) <= Answered(r, len)
      /\ Answered(r, next - 1) \in Nat /\ Answered(r, len) \in Nat
  <2> HIDE DEF len, next
  <2> QED BY <1>1, AnsweredGrows
<1>5. /\ Output(r) <= Answered(r, IF session[r] = "open" THEN next - 1 ELSE len)
      /\ InHand(r) => Output(r) = Answered(r, next - 1)
      /\ Connected(socket[r]) /\ Due(r, "exit") # {} => Output(r) = Answered(r, len)
  BY DEF CountInv
<1>6. Output(r)' <= Answered(r, IF session'[r] = "open" THEN window'[r].next - 1 ELSE len)
  <2>1. CASE session'[r] = "open"
    BY <1>1, <1>2, <1>4, <1>5, <2>1
  <2>2. CASE session'[r] # "open"
    <3>1. Output(r) <= Answered(r, len)
      <4> HIDE DEF len, next
      <4> QED BY <1>2, <1>4, <1>5
    <3> QED BY <1>2, <1>4, <2>2, <3>1
  <2> QED BY <2>1, <2>2
<1>7. InHand(r)' => Output(r)' = Answered(r, window'[r].next - 1)
  <2>1. InHand(r)' => session'[r] = "open"
    BY DEF InHand
  <2> QED BY <1>5, <2>1
<1>8. Connected(socket'[r]) /\ Due(r, "exit")' # {} => Output(r)' = Answered(r, len)
  BY <1>5
<1>9. Len(script[r])' = len /\ (window[r].next - 1)' = window'[r].next - 1
  OBVIOUS
<1>10. Answered(r, Len(script[r]))' = Answered(r, len)
  BY <1>9 DEF Answered
<1>11. Answered(r, window[r].next - 1)' = Answered(r, window'[r].next - 1)
  BY <1>9 DEF Answered
<1>12. Answered(r, IF session[r] = "open" THEN window[r].next - 1 ELSE Len(script[r]))' =
         Answered(r, IF session'[r] = "open" THEN window'[r].next - 1 ELSE len)
  BY <1>9 DEF Answered
<1>13. Connected(socket[r])' = Connected(socket'[r]) /\ Stdouts(socket[r].down)' = Stdouts(socket'[r].down)
  BY DEF Connected, Stdouts, HowMany, Places
<1> HIDE DEF len, next
<1> QED BY <1>6, <1>7, <1>8, <1>10, <1>11, <1>12, <1>13 DEF CountInv

LEMMA EmptyIsShort == ASSUME NEW s, s = << >> PROVE 1 .. Len(s) = {}
  OBVIOUS

LEMMA ExitStays ==
    ASSUME NEW r \in Runs, ExitInv(r), script' = script, told'[r] = told[r],
           elark'[r].printed = elark[r].printed,
           elark'[r].code = "exit code" => elark[r].code = "exit code" /\ elark'[r].pc = "exited",
           socket'[r].down = socket[r].down \/ socket'[r].down = << >>
    PROVE  ExitInv(r)'
<1>1. Answered(r, Len(script[r]))' = Answered(r, Len(script[r]))
  BY DEF Answered
<1>2. CASE socket'[r].down = socket[r].down
  <2>1. Stdouts(socket[r].down)' = Stdouts(socket[r].down)
    BY <1>2 DEF Stdouts, HowMany, Places
  <2> QED BY <1>1, <1>2, <2>1 DEF ExitInv
<1>3. CASE socket'[r].down = << >>
  <2>2. 1 .. Len(socket'[r].down) = {}
    BY <1>3, EmptyIsShort
  <2> QED BY <1>1, <2>2 DEF ExitInv
<1> QED BY <1>2, <1>3

\* A step that does nothing for the output.
LEMMA QuietCount ==
    ASSUME NEW r \in Runs, LocalTypes, LocalTypes', TodoInv, WindowInv(r), CountInv(r), script' = script,
           elark'[r].printed = elark[r].printed, told'[r] = told[r],
           session'[r] = session[r] \/ (session[r] = "open" /\ session'[r] = "closed"),
           session'[r] = "open" => window'[r].next = window[r].next,
           \/ socket'[r].down = socket[r].down /\ (Connected(socket'[r]) => Connected(socket[r]))
           \/ socket'[r].down = << >> /\ (~Connected(socket'[r]) \/ session[r] = "none"),
           \A what : Due(r, what)' = Due(r, what),
           daemon' = "running" \/ Busy(r)' => daemon = "running" \/ Busy(r)
    PROVE  CountInv(r)'
<1>1. Stdouts(<< >>) = 0
  <2>1. Places(<< >>, "stdout") = {}
    BY DEF Places
  <2> QED BY <2>1, NoPlaces DEF Stdouts
<1>2. Stdouts(socket'[r].down) = Stdouts(socket[r].down) \/ Stdouts(socket'[r].down) = 0
  BY <1>1
<1>3. /\ Output(r) = elark[r].printed + Stdouts(socket[r].down) + Cardinality(Due(r, "stdout"))
      /\ Output(r)' = elark'[r].printed + Stdouts(socket'[r].down) + Cardinality(Due(r, "stdout")')
  <2>1. Stdouts(socket[r].down)' = Stdouts(socket'[r].down)
    BY DEF Stdouts, HowMany, Places
  <2> QED BY <2>1 DEF Output
<1>4. Output(r)' <= Output(r)
  BY <1>2, <1>3, Counts
<1>5. session'[r] = "none" => elark'[r].printed = 0 /\ Stdouts(socket'[r].down) = 0
  BY <1>2 DEF CountInv
<1>6. CASE socket'[r].down = socket[r].down /\ (Connected(socket'[r]) => Connected(socket[r]))
  <2>1. Output(r)' = Output(r)
    BY <1>3, <1>6
  <2>2. InHand(r)' => InHand(r)
    BY <1>6 DEF InHand, Busy
  <2> QED BY <1>4, <1>5, <1>6, <2>1, <2>2, CountStays
<1>7. CASE ~Connected(socket'[r])
  <2>1. ~InHand(r)'
    BY <1>7 DEF InHand, Connected
  <2> QED BY <1>4, <1>5, <1>7, <2>1, CountStays
<1>8. CASE session[r] = "none"
  <2>1. ~InHand(r)' /\ ~Busy(r)
    BY <1>8 DEF InHand, TodoInv, Busy
  <2>2. Due(r, "exit") = {}
    BY <2>1, NothingDue
  <2> QED BY <1>4, <1>5, <1>8, <2>1, <2>2, CountStays
<1> QED BY <1>6, <1>7, <1>8

\* What elark reads it has.
LEMMA ReceiveCount ==
    ASSUME NEW r \in Runs, LocalTypes, LocalTypes', TodoInv, WindowInv(r), CountInv(r), ExitInv(r),
           script' = script, ReceiveMessage(r), Head(socket[r].down) \in {"start_ack", "stdout"}
    PROVE  CountInv(r)' /\ ExitInv(r)'
<1> DEFINE d == socket[r].down
<1>1. /\ socket[r] \in Socket /\ r \in Clients /\ elark[r] \in Process /\ d \in Seq(ServerMessages)
      /\ d # << >> /\ elark[r].pc = "receive"
      /\ UNCHANGED <<session, window, todo, daemon, told>>
  BY DEF ReceiveMessage, ClientReads, LocalTypes, SocketTypes, ElarkTypes, Clients, Socket
<1>2. /\ socket' = [socket EXCEPT ![r].down = Tail(@)]
      /\ \/ Head(d) = "start_ack" /\ elark' = [elark EXCEPT ![r].acked = TRUE]
         \/ Head(d) = "stdout" /\ elark' = [elark EXCEPT ![r].printed = @ + 1]
  BY DEF ReceiveMessage
<1>3. /\ socket'[r].down = Tail(d) /\ socket'[r].client = socket[r].client
      /\ socket'[r].server = socket[r].server
  BY <1>1, <1>2 DEF LocalTypes, SocketTypes, Socket
<1>4. /\ elark'[r].code = elark[r].code /\ elark'[r].pc = elark[r].pc
      /\ elark'[r].printed = elark[r].printed + (IF Head(d) = "stdout" THEN 1 ELSE 0)
  BY <1>1, <1>2 DEF LocalTypes, ElarkTypes, Process
<1>5. Stdouts(d) = Stdouts(socket'[r].down) + (IF Head(d) = "stdout" THEN 1 ELSE 0)
  <2>1. HowMany(d, "stdout") = IF Head(d) = "stdout" THEN HowMany(Tail(d), "stdout") + 1
                               ELSE HowMany(Tail(d), "stdout")
    <3> HIDE DEF d
    <3> QED BY <1>1, HowManyTail
  <2>2. Stdouts(socket'[r].down) \in Nat /\ Stdouts(socket'[r].down) = HowMany(Tail(d), "stdout")
    BY <1>3, CountsNext DEF Stdouts
  <2> HIDE DEF d
  <2> QED BY <2>1, <2>2 DEF Stdouts
<1>6. elark'[r].printed + Stdouts(socket'[r].down) = elark[r].printed + Stdouts(d)
  <2>1. elark[r].printed \in Nat /\ Stdouts(socket'[r].down) \in Nat
    BY Counts, CountsNext
  <2> HIDE DEF d
  <2> QED BY <1>4, <1>5, <2>1
<1>7. CountInv(r)'
  <2>1. \A what : Due(r, what)' = Due(r, what)
    BY <1>1 DEF Due, Places
  <2>2. Output(r)' = Output(r)
    <3>1. /\ Output(r) = elark[r].printed + Stdouts(socket[r].down) + Cardinality(Due(r, "stdout"))
          /\ Output(r)' = elark'[r].printed + Stdouts(socket'[r].down) + Cardinality(Due(r, "stdout")')
      BY DEF Output, Stdouts, HowMany, Places
    <3> QED BY <1>6, <2>1, <3>1
  <2>3. Connected(socket'[r]) = Connected(socket[r])
    BY <1>3 DEF Connected
  <2>4. InHand(r)' => InHand(r)
    BY <1>1, <2>1, <2>3 DEF InHand
  <2>5. session'[r] = "none" => elark'[r].printed = 0 /\ Stdouts(socket'[r].down) = 0
    <3>1. elark'[r].printed \in Nat /\ Stdouts(socket'[r].down) \in Nat
      BY CountsNext
    <3>2. session'[r] = "none" => elark[r].printed + Stdouts(d) = 0
      BY <1>1 DEF CountInv
    <3> HIDE DEF d
    <3> QED BY <1>6, <3>1, <3>2
  <2>6. Output(r)' <= Output(r)
    BY <2>2, Counts
  <2> QED BY <1>1, <2>1, <2>2, <2>3, <2>4, <2>5, <2>6, CountStays
<1>8. ExitInv(r)'
  <2>1. Answered(r, Len(script[r]))' = Answered(r, Len(script[r]))
    BY DEF Answered
  <2>2. elark'[r].code # "exit code"
    BY <1>1, <1>4 DEF ExitInv
  <2>3. /\ Len(d) \in Nat \ {0} /\ Len(Tail(d)) = Len(d) - 1
        /\ \A i \in 1 .. Len(d) - 1 : Tail(d)[i] = d[i + 1]
    <3> HIDE DEF d
    <3> QED BY <1>1
  <2>4. ASSUME NEW i \in 1 .. Len(Tail(d)), Tail(d)[i] = "exit"
        PROVE  /\ told[r] # "events"
               /\ elark[r].printed + Stdouts(d) = Answered(r, Len(script[r]))
               /\ \A j \in i .. Len(Tail(d)) : Tail(d)[j] # "stdout"
    <3>1. i + 1 \in 1 .. Len(d) /\ d[i + 1] = "exit"
      BY <2>3, <2>4
    <3>2. /\ told[r] # "events"
          /\ elark[r].printed + Stdouts(d) = Answered(r, Len(script[r]))
          /\ \A j \in i + 1 .. Len(d) : d[j] # "stdout"
      BY <3>1 DEF ExitInv
    <3>3. ASSUME NEW j \in i .. Len(Tail(d)) PROVE Tail(d)[j] # "stdout"
      <4>1. j \in 1 .. Len(d) - 1 /\ j + 1 \in i + 1 .. Len(d)
        BY <2>3
      <4> QED BY <2>3, <3>2, <4>1
    <3> QED BY <3>2, <3>3
  <2>5. Stdouts(socket[r].down)' = Stdouts(socket'[r].down)
    BY DEF Stdouts, HowMany, Places
  <2>6. \A i \in 1 .. Len(socket'[r].down) : socket'[r].down[i] = "exit" =>
          /\ told'[r] # "events"
          /\ elark'[r].printed + Stdouts(socket'[r].down) = Answered(r, Len(script[r]))
          /\ \A j \in i .. Len(socket'[r].down) : socket'[r].down[j] # "stdout"
    BY <1>1, <1>3, <1>6, <2>4
  <2> QED BY <2>1, <2>2, <2>5, <2>6 DEF ExitInv
<1> QED BY <1>7, <1>8

\* The other steps of elark read no output.
LEMMA ElarkCount ==
    ASSUME NEW r \in Runs, LocalTypes, LocalTypes', TodoInv, StartInv(r), WindowInv(r), CountInv(r),
           ExitInv(r), script' = script, Elark(r)
    PROVE  CountInv(r)' /\ ExitInv(r)'
<1>1. /\ UNCHANGED <<session, window, todo, daemon, told>> /\ r \in Clients
      /\ socket \in [Clients -> Socket] /\ elark \in [Runs -> Process]
      /\ ElarkTypes /\ SocketTypes /\ socket[r] \in Socket
  BY ElarkStepLeaves DEF LocalTypes, SocketTypes, ElarkTypes, Clients
<1> DEFINE Same == /\ elark'[r].printed = elark[r].printed
                   /\ \/ /\ socket'[r].down = socket[r].down
                         /\ Connected(socket'[r]) => Connected(socket[r])
                      \/ socket'[r].down = << >> /\ (~Connected(socket'[r]) \/ session[r] = "none")
           NoCode == elark'[r].code = "exit code" => elark[r].code = "exit code" /\ elark'[r].pc = "exited"
<1>2. ASSUME Same PROVE CountInv(r)'
  <2>1. \A what : Due(r, what)' = Due(r, what)
    BY <1>1 DEF Due, Places
  <2>2. daemon' = "running" \/ Busy(r)' => daemon = "running" \/ Busy(r)
    BY <1>1 DEF Busy
  <2>3. told'[r] = told[r] /\ session'[r] = session[r] /\ window'[r].next = window[r].next
    BY <1>1
  <2> QED BY <1>2, <2>1, <2>2, <2>3, QuietCount
<1>3. ASSUME Same, NoCode PROVE CountInv(r)' /\ ExitInv(r)'
  BY <1>1, <1>2, <1>3, ExitStays
<1> HIDE DEF Same
<1>4. ASSUME NEW code, Exit(r, code) PROVE Same /\ elark'[r].code = code /\ elark'[r].pc = "exited"
  BY <1>1, <1>4, ExitFields DEF Same, Connected
<1>5. elark[r].pc # "exited" => elark[r].code # "exit code"
  BY DEF ExitInv
<1>6. ASSUME StartElark(r) PROVE Same /\ NoCode
  <2>1. session[r] = "none" /\ elark[r].code # "exit code"
    BY <1>5, <1>6 DEF StartElark, StartInv
  <2>2. CASE \E tty \in BOOLEAN, pc \in {"stdin", "receive"} :
                elark' = [elark EXCEPT ![r].tty = tty, ![r].pc = pc]
    <3>1. elark'[r].printed = elark[r].printed /\ elark'[r].code = elark[r].code
      BY <1>1, <2>2 DEF Process
    <3>2. socket' = [socket EXCEPT ![r] = Dialled("start_session")] \/ Exit(r, "1")
      BY <1>6 DEF StartElark
    <3>3. CASE socket' = [socket EXCEPT ![r] = Dialled("start_session")]
      <4>1. socket'[r].down = << >>
        BY <1>1, <3>3 DEF Dialled
      <4> QED BY <2>1, <3>1, <4>1 DEF Same
    <3>4. CASE Exit(r, "1")
      BY <1>4, <3>4
    <3> QED BY <3>2, <3>3, <3>4
  <2>3. CASE Exit(r, "1")
    BY <1>4, <2>3
  <2> QED BY <1>6, <2>2, <2>3 DEF StartElark
<1>7. ASSUME StdinEnds(r) \/ ForwardInput(r) \/ Interrupt(r) \/ InterruptCloses(r) PROVE Same /\ NoCode
  <2> DEFINE s == socket[r]
             p == elark[r]
  <2>1. p.code # "exit code" /\ p \in Process
    BY <1>1, <1>5, <1>7 DEF StdinEnds, ForwardInput, Interrupt, InterruptCloses, Running
  <2>2. /\ elark'[r].printed = p.printed
        /\ elark'[r].code \in {p.code, "send stdin"}
    <3>1. CASE StdinEnds(r)
      <4>1. \/ elark' = [elark EXCEPT ![r].pc = "receive"]
            \/ elark' = [elark EXCEPT ![r] = [@ EXCEPT !.pc = "exited", !.code = "send stdin", !.inputs = 0]]
        BY <3>1 DEF StdinEnds
      <4>2. CASE elark' = [elark EXCEPT ![r].pc = "receive"]
        BY <1>1, <4>2 DEF Process
      <4>3. CASE elark' = [elark EXCEPT ![r] = [@ EXCEPT !.pc = "exited", !.code = "send stdin",
                                                         !.inputs = 0]]
        BY <1>1, <4>3 DEF Process
      <4> QED BY <4>1, <4>2, <4>3
    <3>2. CASE ForwardInput(r)
      BY <1>1, <3>2 DEF Process, ForwardInput
    <3>3. CASE Interrupt(r)
      BY <1>1, <3>3 DEF Process, Interrupt
    <3>4. CASE InterruptCloses(r)
      <4>1. \E i : elark' = [elark EXCEPT ![r].interrupt = i]
        BY <3>4 DEF InterruptCloses
      <4> QED BY <1>1, <4>1 DEF Process
    <3> QED BY <1>7, <3>1, <3>2, <3>3, <3>4
  <2>3. \/ socket'[r] = s \/ socket'[r] = ClientWrites(s, "input")
        \/ socket'[r] = ClientCloses(ClientWrites(s, "close"))
    BY <1>1, <1>7 DEF StdinEnds, ForwardInput, Interrupt, InterruptCloses
  <2>4. /\ ClientWrites(s, "input").down = s.down
        /\ ClientWrites(s, "input").client = s.client /\ ClientWrites(s, "input").server = s.server
    BY <1>1, SocketFields
  <2>5. /\ ClientCloses(ClientWrites(s, "close")).down = << >>
        /\ ClientCloses(ClientWrites(s, "close")).client = FALSE
    <3>1. ClientWrites(s, "close") \in Socket
      BY <1>1, SocketOps DEF ClientMessages
    <3> QED BY <3>1, SocketFields
  <2>6. \/ socket'[r].down = s.down /\ (Connected(socket'[r]) => Connected(s))
        \/ socket'[r].down = << >> /\ ~Connected(socket'[r])
    <3> HIDE DEF s
    <3> QED BY <2>3, <2>4, <2>5 DEF Connected
  <2> QED BY <2>1, <2>2, <2>6 DEF Same
<1>8. ASSUME ReceiveFails(r) \/ Killed(r) PROVE Same /\ NoCode
  <2>1. PICK code \in Codes : Exit(r, code) /\ code # "exit code"
    BY <1>8 DEF ReceiveFails, Killed, Codes
  <2> QED BY <1>4, <2>1
<1>9. ASSUME ReceiveMessage(r) PROVE CountInv(r)' /\ ExitInv(r)'
  <2> DEFINE d == socket[r].down
  <2>1. d \in Seq(ServerMessages) /\ d # << >>
    BY <1>1, <1>9 DEF ReceiveMessage, ClientReads, Socket
  <2>2. CASE Head(d) \in {"start_ack", "stdout"}
    BY <1>9, <2>2, ReceiveCount
  <2>3. CASE Head(d) = "error"
    <3>1. Exit(r, "1")
      BY <1>9, <2>3 DEF ReceiveMessage
    <3> QED BY <1>3, <1>4, <3>1
  <2>4. CASE Head(d) = "exit"
    <3>1. Exit(r, "exit code")
      BY <1>9, <2>4 DEF ReceiveMessage
    <3>2. CountInv(r)'
      BY <1>2, <1>4, <3>1
    <3>3. Len(d) \in Nat /\ 1 \in 1 .. Len(d) /\ d[1] = "exit"
      <4> HIDE DEF d
      <4> QED BY <2>1, <2>4
    <3>4. /\ elark[r].printed + Stdouts(d) = Answered(r, Len(script[r]))
          /\ \A j \in 1 .. Len(d) : d[j] # "stdout"
      BY <3>3 DEF ExitInv
    <3>5. Stdouts(d) = 0
      <4>1. Places(d, "stdout") = {}
        BY <3>4 DEF Places
      <4> QED BY <4>1, NoPlaces DEF Stdouts
    <3>6. elark[r].printed \in Nat /\ elark[r].printed + 0 = elark[r].printed
      BY Counts
    <3>7. elark[r].printed = Answered(r, Len(script[r]))
      BY <3>4, <3>5, <3>6
    <3>8. /\ elark'[r].pc = "exited" /\ elark'[r].printed = elark[r].printed
          /\ socket'[r].down = << >>
      BY <1>1, <3>1, ExitFields
    <3>9. Answered(r, Len(script[r]))' = Answered(r, Len(script[r]))
      BY DEF Answered
    <3>10. Len(socket'[r].down) = 0 /\ 1 .. 0 = {}
      BY <3>8
    <3>11. ExitInv(r)'
      BY <3>7, <3>8, <3>9, <3>10 DEF ExitInv
    <3> QED BY <3>2, <3>11
  <2>5. Head(d) \in {"start_ack", "stdout", "error", "exit"}
    BY <1>9 DEF ReceiveMessage
  <2> QED BY <2>2, <2>3, <2>4, <2>5
<1> HIDE DEF NoCode
<1> QED BY <1>3, <1>6, <1>7, <1>8, <1>9 DEF Elark, NoCode

\* What is appended to the socket of r.
LEMMA DownAppend ==
    ASSUME NEW d \in Seq(ServerMessages), NEW m
    PROVE  /\ Stdouts(Append(d, m)) = Stdouts(d) + (IF m = "stdout" THEN 1 ELSE 0)
           /\ Len(d) \in Nat /\ Len(Append(d, m)) = Len(d) + 1 /\ Append(d, m)[Len(d) + 1] = m
           /\ \A i \in 1 .. Len(d) : Append(d, m)[i] = d[i]
<1>1. HowMany(Append(d, m), "stdout") = IF m = "stdout" THEN HowMany(d, "stdout") + 1
                                        ELSE HowMany(d, "stdout")
  BY HowManyAppend
<1>2. HowMany(d, "stdout") \in Nat
  BY PlacesFinite
<1>3. Stdouts(Append(d, m)) = Stdouts(d) + (IF m = "stdout" THEN 1 ELSE 0)
  BY <1>1, <1>2 DEF Stdouts
<1> QED BY <1>3

\* The error of a handler is not output.
LEMMA AnswerCount ==
    ASSUME NEW r \in Runs, LocalTypes, LocalTypes', TodoInv, WindowInv(r), CountInv(r), ExitInv(r),
           script' = script, Answer(r)
    PROVE  CountInv(r)' /\ ExitInv(r)'
<1> DEFINE s == socket[r]
           d == socket[r].down
<1>1. /\ s \in Socket /\ r \in Clients /\ d \in Seq(ServerMessages) /\ r \notin Kills
      /\ UNCHANGED <<elark, session, window, todo, daemon, told>>
  BY RunsAreNoKills DEF Answer, LocalTypes, SocketTypes, Clients, Socket
<1> DEFINE t == ServerWrites(s, "error")
<1>2. t \in Socket /\ t.client = s.client /\ t.server = s.server
      /\ t.down = IF Connected(s) THEN Append(d, "error") ELSE d
  BY <1>1, SocketOps, SocketFields DEF ServerMessages
<1>3. /\ ServerCloses(t).down = t.down /\ ServerCloses(t).client = t.client
      /\ ServerCloses(t).server = FALSE
  BY <1>2, SocketFields
<1>4. socket'[r] = t \/ socket'[r] = ServerCloses(t)
  BY <1>1 DEF Answer, LocalTypes, SocketTypes
<1> HIDE DEF t
<1>5. socket'[r].down = t.down /\ (Connected(socket'[r]) => Connected(s))
  BY <1>2, <1>3, <1>4 DEF Connected
<1> DEFINE e == socket'[r].down
<1>6. e = d \/ e = Append(d, "error")
  BY <1>2, <1>5
<1>7. /\ Stdouts(e) = Stdouts(d) /\ Len(d) \in Nat
      /\ Len(e) \in {Len(d), Len(d) + 1}
      /\ \A i \in 1 .. Len(e) : (i \in 1 .. Len(d) /\ e[i] = d[i]) \/ e[i] = "error"
  <2> HIDE DEF d, e
  <2>1. CASE e = d BY <1>1, <2>1
  <2>2. CASE e = Append(d, "error")
    <3>1. Stdouts(d) \in Nat
      BY <1>1, PlacesFinite DEF Stdouts
    <3> QED BY <1>1, <2>2, <3>1, DownAppend
  <2> QED BY <1>6, <2>1, <2>2
<1>8. CountInv(r)'
  <2>1. \A what : Due(r, what)' = Due(r, what)
    BY <1>1 DEF Due, Places
  <2>2. Output(r)' = Output(r)
    <3>1. /\ Output(r) = elark[r].printed + Stdouts(socket[r].down) + Cardinality(Due(r, "stdout"))
          /\ Output(r)' = elark'[r].printed + Stdouts(socket'[r].down) + Cardinality(Due(r, "stdout")')
      BY DEF Output, Stdouts, HowMany, Places
    <3> QED BY <1>1, <1>7, <2>1, <3>1
  <2>3. InHand(r)' => InHand(r)
    BY <1>1, <1>5, <2>1 DEF InHand
  <2>4. session'[r] = "none" => elark'[r].printed = 0 /\ Stdouts(socket'[r].down) = 0
    BY <1>1, <1>7 DEF CountInv
  <2>5. Output(r)' <= Output(r)
    BY <2>2, Counts
  <2> QED BY <1>1, <1>5, <2>1, <2>2, <2>3, <2>4, <2>5, CountStays
<1>9. ExitInv(r)'
  <2>1. Answered(r, Len(script[r]))' = Answered(r, Len(script[r]))
    BY DEF Answered
  <2>2. ASSUME NEW i \in 1 .. Len(e), e[i] = "exit"
        PROVE  /\ told'[r] # "events"
               /\ elark'[r].printed + Stdouts(e) = Answered(r, Len(script[r]))
               /\ \A j \in i .. Len(e) : e[j] # "stdout"
    <3>1. i \in 1 .. Len(d) /\ d[i] = "exit"
      BY <1>7, <2>2
    <3>2. /\ told[r] # "events"
          /\ elark[r].printed + Stdouts(d) = Answered(r, Len(script[r]))
          /\ \A j \in i .. Len(d) : d[j] # "stdout"
      BY <3>1 DEF ExitInv
    <3>3. ASSUME NEW j \in i .. Len(e) PROVE e[j] # "stdout"
      <4>1. j \in 1 .. Len(e)
        BY <1>7
      <4>2. CASE e[j] = "error" BY <4>2
      <4>3. CASE j \in 1 .. Len(d) /\ e[j] = d[j]
        BY <3>2, <4>3
      <4> QED BY <1>7, <4>1, <4>2, <4>3
    <3> QED BY <1>1, <1>7, <3>2, <3>3
  <2>3. Stdouts(socket[r].down)' = Stdouts(socket'[r].down)
    BY DEF Stdouts, HowMany, Places
  <2>4. elark'[r].code = "exit code" =>
           elark'[r].pc = "exited" /\ elark'[r].printed = Answered(r, Len(script[r]))
    BY <1>1 DEF ExitInv
  <2> QED BY <2>1, <2>2, <2>3, <2>4 DEF ExitInv
<1> QED BY <1>8, <1>9

\* A session begins with no output, and nothing in the window.
LEMMA RegisterCount ==
    ASSUME NEW r \in Runs, LocalTypes, LocalTypes', TodoInv, StartInv(r), WindowInv(r), CountInv(r),
           ExitInv(r), script' = script, RegisterLocal(r)
    PROVE  CountInv(r)' /\ ExitInv(r)'
<1>1. /\ UNCHANGED <<elark, socket, window, todo, daemon, told>> /\ Free /\ session[r] = "none"
      /\ session'[r] = "open"
  BY DEF RegisterLocal, StartInv, LocalTypes, SessionTypes
<1>2. ExitInv(r)'
  BY <1>1, ExitStays DEF ExitInv
<1>3. window'[r].next - 1 = 0
  BY <1>1, NewWindow DEF WindowInv
<1>4. \A what : Due(r, what) = {}
  BY <1>1, NothingDue DEF Busy, Free
<1>5. Output(r)' = 0
  <2>1. elark[r].printed = 0 /\ Stdouts(socket[r].down) = 0
    BY <1>1 DEF CountInv
  <2>2. Output(r)' = elark[r].printed + Stdouts(socket[r].down) + Cardinality(Due(r, "stdout"))
    BY <1>1 DEF Output, Stdouts, HowMany, Places, Due
  <2> QED BY <1>4, <2>1, <2>2, FS_EmptySet
<1>6. Answered(r, window[r].next - 1)' = 0
  <2>1. Answered(r, 0) = 0
    BY AnsweredNone
  <2>2. Answered(r, window[r].next - 1)' = Answered(r, window'[r].next - 1)
    BY DEF Answered
  <2> QED BY <1>3, <2>1, <2>2
<1>7. Due(r, "exit")' = {}
  BY <1>1, <1>4 DEF Due, Places
<1>8. Answered(r, IF session[r] = "open" THEN window[r].next - 1 ELSE Len(script[r]))' = 0
  <2>1. (IF session[r] = "open" THEN window[r].next - 1 ELSE Len(script[r]))' = window'[r].next - 1
    BY <1>1
  <2>2. Answered(r, IF session[r] = "open" THEN window[r].next - 1 ELSE Len(script[r]))'
           = Answered(r, window[r].next - 1)'
    BY <2>1 DEF Answered
  <2> QED BY <1>6, <2>2
<1>9. CountInv(r)'
  BY <1>1, <1>5, <1>6, <1>7, <1>8 DEF CountInv
<1> QED BY <1>2, <1>9

LEMMA ThreadCount ==
    ASSUME NEW r \in Runs, LocalTypes, LocalTypes', TodoInv, StartInv(r), WindowInv(r), CountInv(r),
           ExitInv(r), script' = script, Thread(r)
    PROVE  CountInv(r)' /\ ExitInv(r)'
<1>1. CASE Answer(r)
  BY <1>1, AnswerCount
<1>2. CASE RegisterLocal(r)
  BY <1>2, RegisterCount
<1>3. CASE ~Answer(r) /\ ~RegisterLocal(r)
  <2>1. UNCHANGED <<elark, window, todo, daemon, told>> /\ r \in Clients
        /\ socket \in [Clients -> Socket] /\ socket[r] \in Socket
    BY ThreadStepLeaves DEF LocalTypes, SocketTypes, Clients
  <2>2. /\ session' = session
        /\ \/ socket' = socket
           \/ socket' = [socket EXCEPT ![r].up = Tail(@)]
           \/ socket' = [socket EXCEPT ![r] = ServerCloses(@)]
    BY <1>3 DEF Thread, Accept, Serve, ReadInput, Enqueue, MarkClose, ReadFails, ReadStart, RootOpened
  <2>3. ServerCloses(socket[r]).down = socket[r].down /\ ServerCloses(socket[r]).server = FALSE
    BY <2>1, SocketFields
  <2>4. socket'[r].down = socket[r].down /\ (Connected(socket'[r]) => Connected(socket[r]))
    <3>1. CASE socket' = socket
      BY <3>1
    <3>2. CASE socket' = [socket EXCEPT ![r].up = Tail(@)]
      BY <2>1, <3>2 DEF Socket, Connected
    <3>3. CASE socket' = [socket EXCEPT ![r] = ServerCloses(@)]
      BY <2>1, <2>3, <3>3 DEF Connected
    <3> QED BY <2>2, <3>1, <3>2, <3>3
  <2>5. \A what : Due(r, what)' = Due(r, what)
    BY <2>1 DEF Due, Places
  <2>6. Busy(r)' => Busy(r)
    BY <2>1 DEF Busy
  <2>7. CountInv(r)'
    BY <2>1, <2>2, <2>4, <2>5, <2>6, QuietCount
  <2>8. ExitInv(r)'
    BY <2>1, <2>4, ExitStays DEF ExitInv
  <2> QED BY <2>7, <2>8
<1> QED BY <1>1, <1>2, <1>3

\* The error that ends a session, when nothing else is due.
LEMMA EndingCount ==
    ASSUME NEW r \in Runs, LocalTypes, LocalTypes', TodoInv, WindowInv(r), CountInv(r), ExitInv(r),
           script' = script, UNCHANGED <<elark, socket, session, told>>,
           window'[r].next = window[r].next, \A what : Due(r, what) = {},
           todo' = <<Deliver("error", r), Close(r)>>
    PROVE  CountInv(r)' /\ ExitInv(r)'
<1>1. Len(todo') = 2 /\ todo'[1] = Deliver("error", r) /\ todo'[2] = Close(r)
  OBVIOUS
<1>2. ASSUME NEW what, NEW i \in 1 .. 2 PROVE todo'[i] = Deliver(what, r) <=> i = 1 /\ what = "error"
  <2>1. /\ Deliver(what, r).op = "deliver" /\ Close(r).op = "close"
        /\ Deliver(what, r).event = what /\ Deliver("error", r).event = "error"
    BY StepFields
  <2>2. i = 1 \/ i = 2
    OBVIOUS
  <2> QED BY <1>1, <2>1, <2>2
<1>3. ASSUME NEW what PROVE (Due(r, what)') = IF what = "error" THEN {1} ELSE {}
  <2>1. Due(r, what)' = {i \in 1 .. 2 : todo'[i] = Deliver(what, r)}
    BY <1>1 DEF Due, Places, Deliver
  <2> QED BY <1>2, <2>1
<1>4. ~InHand(r)'
  BY <1>3 DEF InHand, Ends
<1>5. Due(r, "exit")' = {} /\ Due(r, "stdout")' = {} /\ Due(r, "stdout") = {}
  BY <1>3
<1>6. Output(r)' = Output(r)
  BY <1>5 DEF Output, Stdouts, HowMany, Places
<1>7. session[r] = "none" => elark'[r].printed = 0 /\ Stdouts(socket'[r].down) = 0
  BY DEF CountInv
<1>8. CountInv(r)'
  <2>1. Output(r)' <= Output(r)
    BY <1>6, Counts
  <2> QED BY <1>4, <1>5, <1>7, <2>1, CountStays
<1>9. ExitInv(r)'
  BY ExitStays DEF ExitInv
<1> QED BY <1>8, <1>9

\* Nothing is due while the head of the list is an offer or a close.
LEMMA NothingDueAtHead ==
    ASSUME TodoTypes, TodoInv, ~Free, Head(todo).op # "deliver", NEW r
    PROVE  \A what : Due(r, what) = {}
<1>1. todo # << >> /\ Head(todo) = todo[1] /\ Len(todo) \in Nat \ {0} /\ todo[1] \in Step
  BY StepUpdate DEF Free
<1>2. todo[1].op = "offer" \/ todo[1].op = "close"
  BY <1>1 DEF Step
<1>3. ASSUME NEW i \in 1 .. Len(todo) PROVE todo[i].op # "deliver"
  <2>1. CASE i = 1 BY <1>1, <2>1
  <2>2. CASE i # 1
    <3>1. 1 \in 1 .. Len(todo) /\ 1 < i
      BY <1>1, <2>2
    <3> QED BY <1>1, <1>2, <3>1 DEF TodoInv
  <2> QED BY <2>1, <2>2
<1> QED BY <1>3, NoPlaceForRun DEF Due

\* When the head is delivered, the others are left.
LEMMA DueTail ==
    ASSUME TodoTypes, todo # << >>, todo' = Tail(todo), NEW r, NEW what
    PROVE  /\ Cardinality(Due(r, what)) = Cardinality(Due(r, what)') +
                 (IF Head(todo) = Deliver(what, r) THEN 1 ELSE 0)
           /\ Head(todo) # Deliver(what, r) => (Due(r, what) = {} <=> Due(r, what)' = {})
<1> DEFINE x == Deliver(what, r)
<1>1. Due(r, what) = Places(todo, x) /\ Due(r, what)' = Places(Tail(todo), x)
  BY DEF Due, Places, Deliver
<1>2. todo \in Seq(Step) /\ Tail(todo) \in Seq(Step) /\ Head(todo) = todo[1]
      /\ Len(Tail(todo)) = Len(todo) - 1 /\ Len(todo) \in Nat \ {0}
      /\ \A i \in 1 .. Len(todo) - 1 : Tail(todo)[i] = todo[i + 1]
  BY StepUpdate DEF TodoTypes
<1> HIDE DEF x
<1>3. HowMany(todo, x) = IF Head(todo) = x THEN HowMany(Tail(todo), x) + 1 ELSE HowMany(Tail(todo), x)
  BY <1>2, HowManyTail
<1>4. HowMany(Tail(todo), x) \in Nat
  BY <1>2, PlacesFinite
<1>5. HowMany(todo, x) = HowMany(Tail(todo), x) + (IF Head(todo) = x THEN 1 ELSE 0)
  BY <1>3, <1>4
<1>6. ASSUME Head(todo) # x PROVE Places(todo, x) = {} <=> Places(Tail(todo), x) = {}
  <2>1. ASSUME NEW i \in Places(todo, x) PROVE Places(Tail(todo), x) # {}
    <3>1. i \in 1 .. Len(todo) /\ todo[i] = x /\ i # 1
      BY <1>2, <1>6 DEF Places
    <3>2. i - 1 \in 1 .. Len(todo) - 1 /\ (i - 1) + 1 = i
      BY <1>2, <3>1
    <3>3. Tail(todo)[i - 1] = x
      BY <1>2, <3>1, <3>2
    <3> QED BY <1>2, <3>2, <3>3 DEF Places
  <2>2. ASSUME NEW i \in Places(Tail(todo), x) PROVE Places(todo, x) # {}
    <3>1. i \in 1 .. Len(todo) - 1 /\ Tail(todo)[i] = x
      BY <1>2 DEF Places
    <3>2. i + 1 \in 1 .. Len(todo) /\ todo[i + 1] = x
      BY <1>2, <3>1
    <3> QED BY <3>2 DEF Places
  <2> QED BY <2>1, <2>2
<1> QED BY <1>1, <1>5, <1>6 DEF HowMany, x

\* The event at the head of the list is what it says.
LEMMA HeadEvent ==
    ASSUME TodoTypes, TodoInv, ~Free, Head(todo).op = "deliver"
    PROVE  Head(todo) = Deliver(Head(todo).event, Head(todo).run) /\ Head(todo).event \in Frames
<1>1. todo # << >> /\ Head(todo) = todo[1] /\ todo[1] \in Step /\ 1 \in 1 .. Len(todo)
  BY StepUpdate DEF Free
<1>2. todo[1].seq = 0 /\ todo[1].event \in Frames
  BY <1>1 DEF TodoInv
<1>3. todo[1] = [op |-> todo[1].op, run |-> todo[1].run, event |-> todo[1].event, seq |-> todo[1].seq]
  BY <1>1 DEF Step
<1> QED BY <1>1, <1>2, <1>3 DEF Deliver

\* What an event that ends a session does.
LEMMA EndDelivered ==
    ASSUME NEW r \in Runs, LocalTypes, LocalTypes', TodoInv, ToldInv(r), WindowInv(r), CountInv(r),
           ExitInv(r), script' = script, DeliverStep, Head(todo).run = r, Head(todo).event \in Ends
    PROVE  CountInv(r)' /\ ExitInv(r)'
<1> DEFINE event == Head(todo).event
           s == socket[r]
           d == socket[r].down
           e == socket'[r].down
<1>1. /\ ~Free /\ Head(todo).op = "deliver" /\ UNCHANGED <<elark, session, window>>
      /\ todo' = <<Close(r)>> /\ s \in Socket /\ r \in Clients /\ d \in Seq(ServerMessages)
      /\ socket \in [Clients -> Socket]
  BY DEF DeliverStep, LocalTypes, SocketTypes, Clients, Socket
<1>2. /\ todo # << >> /\ Head(todo) = todo[1] /\ Len(todo) \in Nat \ {0}
      /\ todo[1] = Deliver(event, r) /\ event \in Frames
  BY <1>1, StepUpdate, HeadEvent DEF Free, LocalTypes
<1>3. session[r] = "open" /\ told[r] = "events"
  <2>1. session[r] = "open"
    BY <1>2, StepFields DEF TodoInv
  <2>2. todo # <<Close(r)>>
    <3>1. Close(r).op # "deliver"
      BY StepFields
    <3> QED BY <1>1, <3>1
  <2> QED BY <2>1, <2>2 DEF ToldInv
<1>4. told'[r] # "events"
  BY <1>3 DEF DeliverStep, Tell, LocalTypes, ScriptTypes
<1>5. \A i \in 1 .. Len(d) : d[i] # "exit"
  BY <1>3 DEF ExitInv
<1>6. ASSUME NEW what PROVE Due(r, what)' = {}
  <2>1. Len(todo') = 1 /\ todo'[1] = Close(r)
    BY <1>1
  <2>2. Close(r) # Deliver(what, r)
    <3>1. Close(r).op = "close" /\ Deliver(what, r).op = "deliver"
      BY StepFields
    <3> QED BY <3>1
  <2>3. Due(r, what)' = {i \in 1 .. 1 : todo'[i] = Deliver(what, r)}
    BY <2>1 DEF Due, Places, Deliver
  <2> QED BY <2>1, <2>2, <2>3
<1>7. Due(r, "stdout") = {}
  <2>1. \A i \in 1 .. Len(todo) : todo[i] # Deliver("stdout", r)
    <3>1. ASSUME NEW i \in 1 .. Len(todo), todo[i] = Deliver("stdout", r) PROVE FALSE
      <4>1. todo[i].op = "deliver" /\ todo[i].event = "stdout"
        BY <3>1, StepFields
      <4>2. i # 1
        BY <1>2, <4>1 DEF Ends
      <4>3. 1 \in 1 .. Len(todo) /\ 1 < i
        BY <1>2, <4>2
      <4> QED BY <1>1, <1>2, <4>1, <4>3 DEF TodoInv
    <3> QED BY <3>1
  <2> QED BY <2>1 DEF Due, Places
<1>8. MessageOf(event) # "stdout" /\ (MessageOf(event) = "exit" <=> event = "exit")
  BY DEF MessageOf, Ends
<1>9. /\ e = d \/ (Connected(s) /\ e = Append(d, MessageOf(event)))
      /\ Connected(socket'[r]) => Connected(s)
  <2> DEFINE t == ServerWrites(s, MessageOf(event))
  <2>1. t.down = (IF Connected(s) THEN Append(d, MessageOf(event)) ELSE d)
        /\ t.client = s.client /\ t.server = s.server
    BY <1>1, SocketFields
  <2>2. socket'[r] = s \/ socket'[r] = t
    BY <1>1 DEF DeliverStep
  <2> HIDE DEF t
  <2> QED BY <2>1, <2>2 DEF Connected
<1>10. Stdouts(e) = Stdouts(d)
  <2>1. CASE e = d BY <2>1
  <2>2. CASE e = Append(d, MessageOf(event))
    <3>1. Stdouts(d) \in Nat
      BY <1>1, PlacesFinite DEF Stdouts
    <3> QED BY <1>1, <1>8, <2>2, <3>1, DownAppend
  <2> QED BY <1>9, <2>1, <2>2
<1>11. Output(r)' = Output(r) /\ Output(r) = elark[r].printed + Stdouts(d)
  <2>1. /\ Output(r) = elark[r].printed + Stdouts(d) + Cardinality(Due(r, "stdout"))
        /\ Output(r)' = elark'[r].printed + Stdouts(e) + Cardinality(Due(r, "stdout")')
    BY DEF Output, Stdouts, HowMany, Places
  <2>2. Cardinality(Due(r, "stdout")) = 0 /\ Cardinality(Due(r, "stdout")') = 0
    BY <1>6, <1>7, FS_EmptySet
  <2> QED BY <1>1, <1>10, <2>1, <2>2, Counts
<1>12. CountInv(r)'
  <2>1. ~InHand(r)'
    BY <1>4 DEF InHand
  <2>2. Output(r)' <= Output(r)
    BY <1>11, Counts
  <2>3. Due(r, "exit")' = {}
    BY <1>6
  <2> QED BY <1>1, <1>3, <1>11, <2>1, <2>2, <2>3, CountStays
<1>13. ExitInv(r)'
  <2>1. Answered(r, Len(script[r]))' = Answered(r, Len(script[r]))
    BY DEF Answered
  <2>2. ASSUME NEW i \in 1 .. Len(e), e[i] = "exit"
        PROVE  /\ elark[r].printed + Stdouts(e) = Answered(r, Len(script[r]))
               /\ \A j \in i .. Len(e) : e[j] # "stdout"
    <3>1. Connected(s) /\ e = Append(d, MessageOf(event))
      BY <1>5, <1>9, <2>2
    <3>2. /\ Len(d) \in Nat /\ Len(e) = Len(d) + 1 /\ e[Len(d) + 1] = MessageOf(event)
          /\ \A j \in 1 .. Len(d) : e[j] = d[j]
      BY <1>1, <3>1, DownAppend
    <3>3. i = Len(d) + 1
      <4> HIDE DEF d, e
      <4> QED BY <1>5, <2>2, <3>2
    <3>4. event = "exit"
      BY <1>8, <2>2, <3>2, <3>3
    <3>5. Due(r, "exit") # {}
      <4>1. 1 \in 1 .. Len(todo) /\ todo[1] = Deliver("exit", r)
        BY <1>2, <3>4
      <4> QED BY <4>1 DEF Due, Places
    <3>6. Output(r) = Answered(r, Len(script[r]))
      BY <3>1, <3>5 DEF CountInv
    <3>7. \A j \in i .. Len(e) : e[j] = MessageOf(event)
      BY <3>2, <3>3
    <3> QED BY <1>8, <1>10, <1>11, <3>6, <3>7
  <2>3. Stdouts(socket[r].down)' = Stdouts(socket'[r].down)
    BY DEF Stdouts, HowMany, Places
  <2>4. elark'[r].code = "exit code" =>
           elark'[r].pc = "exited" /\ elark'[r].printed = Answered(r, Len(script[r]))
    BY <1>1 DEF ExitInv
  <2> QED BY <1>1, <1>4, <2>1, <2>2, <2>3, <2>4 DEF ExitInv
<1> QED BY <1>12, <1>13

\* What another event does: it is written, or the rest is given up.
LEMMA EventDelivered ==
    ASSUME NEW r \in Runs, LocalTypes, LocalTypes', TodoInv, ToldInv(r), WindowInv(r), CountInv(r),
           ExitInv(r), script' = script, DeliverStep, Head(todo).run = r, Head(todo).event \notin Ends
    PROVE  CountInv(r)' /\ ExitInv(r)'
<1> DEFINE event == Head(todo).event
           s == socket[r]
           d == socket[r].down
           e == socket'[r].down
           writes == Connected(s) /\ Len(d) < SocketSize
<1>1. /\ ~Free /\ Head(todo).op = "deliver" /\ UNCHANGED <<elark, session, window, daemon>>
      /\ s \in Socket /\ r \in Clients /\ d \in Seq(ServerMessages)
      /\ socket \in [Clients -> Socket]
  BY DEF DeliverStep, LocalTypes, SocketTypes, Clients, Socket
<1>2. /\ todo # << >> /\ Head(todo) = todo[1] /\ Len(todo) \in Nat \ {0} /\ TodoTypes
      /\ todo[1] = Deliver(event, r) /\ event \in Frames /\ todo[1].run = r
  BY <1>1, StepUpdate, HeadEvent DEF Free, LocalTypes
<1>3. session[r] = "open" /\ told[r] = "events"
  <2>1. session[r] = "open"
    BY <1>2 DEF TodoInv
  <2>2. todo # <<Close(r)>>
    <3>1. Close(r).op # "deliver"
      BY StepFields
    <3> QED BY <1>1, <3>1
  <2> QED BY <2>1, <2>2 DEF ToldInv
<1>4. told'[r] = "events"
  BY <1>3 DEF DeliverStep, Tell, LocalTypes, ScriptTypes
<1>5. MessageOf(event) = event /\ event # "exit"
  BY DEF MessageOf, Ends
<1>6. \A i \in 1 .. Len(d) : d[i] # "exit"
  BY <1>3 DEF ExitInv
<1>7. CASE writes
  <2>1. todo' = Tail(todo) /\ socket'[r] = ServerWrites(s, event)
    BY <1>1, <1>5, <1>7 DEF DeliverStep
  <2>2. e = Append(d, event) /\ socket'[r].client = s.client /\ socket'[r].server = s.server
    <3>1. /\ ServerWrites(s, event).down = (IF Connected(s) THEN Append(d, event) ELSE d)
          /\ ServerWrites(s, event).client = s.client /\ ServerWrites(s, event).server = s.server
      BY <1>1, SocketFields
    <3> QED BY <1>7, <2>1, <3>1
  <2>3. /\ Stdouts(e) = Stdouts(d) + (IF event = "stdout" THEN 1 ELSE 0)
        /\ Len(d) \in Nat /\ Len(e) = Len(d) + 1 /\ e[Len(d) + 1] = event
        /\ \A i \in 1 .. Len(d) : e[i] = d[i]
    BY <1>1, <2>2, DownAppend
  <2>4. ASSUME NEW what PROVE Head(todo) = Deliver(what, r) <=> event = what
    BY <1>2, StepFields
  <2>5. Cardinality(Due(r, "stdout")) = Cardinality(Due(r, "stdout")') + (IF event = "stdout" THEN 1 ELSE 0)
    BY <1>2, <2>1, <2>4, DueTail
  <2>6. \A what \in Ends : Due(r, what) = {} <=> Due(r, what)' = {}
    BY <1>2, <2>1, <2>4, DueTail
  <2>7. Output(r)' = Output(r)
    <3>1. /\ Output(r) = elark[r].printed + Stdouts(d) + Cardinality(Due(r, "stdout"))
          /\ Output(r)' = elark'[r].printed + Stdouts(e) + Cardinality(Due(r, "stdout")')
      BY DEF Output, Stdouts, HowMany, Places
    <3>2. elark[r].printed \in Nat /\ Stdouts(d) \in Nat /\ Cardinality(Due(r, "stdout")') \in Nat
      BY Counts, CountsNext
    <3>3. elark'[r].printed = elark[r].printed
      BY <1>1
    <3>4. Stdouts(e) = Stdouts(d) + (IF event = "stdout" THEN 1 ELSE 0)
      BY <2>3
    <3> HIDE DEF d, e, event
    <3> QED BY <2>5, <3>1, <3>2, <3>3, <3>4
  <2>8. Connected(socket'[r]) = Connected(s)
    BY <2>2 DEF Connected
  <2>9. InHand(r)' => InHand(r)
    BY <1>2, <1>3, <2>6, <2>8 DEF InHand
  <2>10. CountInv(r)'
    <3>1. Output(r)' <= Output(r)
      BY <2>7, Counts
    <3>2. Due(r, "exit") = {} <=> Due(r, "exit")' = {}
      BY <2>6 DEF Ends
    <3> QED BY <1>1, <1>3, <2>7, <2>8, <2>9, <3>1, <3>2, CountStays
  <2>11. ExitInv(r)'
    <3>1. \A i \in 1 .. Len(e) : e[i] # "exit"
      <4> HIDE DEF d, e
      <4> QED BY <1>5, <1>6, <2>3
    <3>2. Answered(r, Len(script[r]))' = Answered(r, Len(script[r]))
      BY DEF Answered
    <3> QED BY <1>1, <3>1, <3>2 DEF ExitInv
  <2> QED BY <2>10, <2>11
<1>8. CASE ~writes
  <2>1. todo' = << >> /\ socket' = socket /\ (~Connected(s) \/ daemon # "running")
    BY <1>1, <1>8 DEF DeliverStep
  <2>2. ASSUME NEW what PROVE Due(r, what)' = {}
    <3>1. Due(r, what)' = {i \in 1 .. Len(todo') : todo'[i] = Deliver(what, r)}
      BY DEF Due, Places, Deliver
    <3> QED BY <2>1, <3>1, EmptyIsShort
  <2>3. ~InHand(r)'
    BY <1>1, <2>1 DEF InHand
  <2>4. Output(r)' <= Output(r)
    <3>1. /\ Output(r) = elark[r].printed + Stdouts(d) + Cardinality(Due(r, "stdout"))
          /\ Output(r)' = elark[r].printed + Stdouts(d) + 0
      BY <1>1, <2>1, <2>2, FS_EmptySet DEF Output, Stdouts, HowMany, Places
    <3>2. elark[r].printed \in Nat /\ Stdouts(d) \in Nat /\ Cardinality(Due(r, "stdout")) \in Nat
      BY Counts
    <3> HIDE DEF d
    <3> QED BY <3>1, <3>2
  <2>5. CountInv(r)'
    BY <1>1, <1>3, <2>2, <2>3, <2>4, CountStays
  <2>6. ExitInv(r)'
    BY <1>1, <1>3, <1>4, <2>1, ExitStays DEF ExitInv
  <2> QED BY <2>5, <2>6
<1> QED BY <1>7, <1>8

\* The frames that an offer completes are due next.
LEMMA OfferDelivered ==
    ASSUME NEW r \in Runs, LocalTypes, LocalTypes', TodoInv, ToldInv(r), \A q \in Runs : WindowInv(q),
           CountInv(r), ExitInv(r), script' = script, ~Free, Head(todo).op = "offer", Head(todo).run = r,
           UNCHANGED <<elark, socket, session, told, daemon>>,
           NEW last \in Seqs, Head(todo).seq = window[r].next,
           Completes(CheckGapTimeoutAt(window[r]), Head(todo).seq, last),
           window'[r].next = Succ(last),
           todo' = EventsOf(r, Head(todo).seq, last) \o Tail(todo)
    PROVE  CountInv(r)' /\ ExitInv(r)'
<1> DEFINE seq == Head(todo).seq
           d == socket[r].down
           len == Len(script[r])
           had == elark[r].printed + Stdouts(socket[r].down)
<1>1. /\ TodoTypes /\ todo # << >> /\ Head(todo) = todo[1] /\ Len(todo) \in Nat \ {0}
      /\ seq \in 1 .. len /\ session[r] = "open"
  BY StepUpdate, HolderHead DEF Free, LocalTypes
<1>2. script[r] \in Seq(Frames) /\ len \in Nat /\ len <= MaxSeq - 1 /\ MaxSeq \in Nat
  BY ScriptFacts DEF LocalTypes
<1>3. PICK n \in 1 .. last - seq + 1 :
         /\ last \in seq .. len
         /\ Len(todo') = n + Len(todo) - 1
         /\ \A i \in 1 .. n : todo'[i] = Deliver(script[r][seq + i - 1], r)
         /\ \A i \in n + 1 .. Len(todo') : todo'[i] = todo[i - n + 1]
         /\ \A i \in 1 .. n - 1 : script[r][seq + i - 1] \notin Ends
         /\ n = last - seq + 1 \/ script[r][seq + n - 1] \in Ends
  BY DeliveredTodo
<1>4. /\ n \in Nat \ {0} /\ seq \in Nat \ {0} /\ last \in Nat /\ seq + n - 1 \in 1 .. last
      /\ last <= len
  <2> HIDE DEF seq, len
  <2> QED BY <1>1, <1>2, <1>3
<1>5. window'[r].next = last + 1
  BY <1>2, <1>4 DEF Succ
<1>6. \A what : Due(r, what) = {}
  BY <1>1, NothingDueAtHead
<1>7. ASSUME NEW what PROVE (Due(r, what)') = {i \in 1 .. n : script[r][seq + i - 1] = what}
  <2> DEFINE D == Due(r, what)'
  <2>1. D = {i \in 1 .. Len(todo') : todo'[i] = Deliver(what, r)}
    BY DEF Due, Places, Deliver
  <2>2. ASSUME NEW i \in 1 .. n PROVE i \in 1 .. Len(todo') /\ (todo'[i] = Deliver(what, r) <=> script[r][seq + i - 1] = what)
    <3>1. i \in 1 .. Len(todo')
      BY <1>1, <1>3, <1>4
    <3>2. todo'[i] = Deliver(script[r][seq + i - 1], r)
      BY <1>3
    <3> DEFINE frame == script[r][seq + i - 1]
    <3>3. Deliver(frame, r).event = frame /\ Deliver(what, r).event = what
      BY StepFields
    <3>4. todo'[i] = Deliver(frame, r)
      BY <3>2
    <3> HIDE DEF frame
    <3>5. todo'[i] = Deliver(what, r) <=> frame = what
      BY <3>3, <3>4
    <3> QED BY <3>1, <3>5 DEF frame
  <2>3. ASSUME NEW i \in n + 1 .. Len(todo') PROVE todo'[i] # Deliver(what, r)
    <3>1. i - n + 1 \in 1 .. Len(todo) /\ 1 \in 1 .. Len(todo) /\ 1 < i - n + 1
      BY <1>1, <1>3, <1>4
    <3>2. todo[i - n + 1].op = "offer"
      BY <1>1, <3>1 DEF TodoInv
    <3>3. todo'[i].op = "offer"
      BY <1>3, <3>2
    <3>4. Deliver(what, r).op = "deliver"
      BY StepFields
    <3> QED BY <3>3, <3>4
  <2>4. \A i \in 1 .. Len(todo') : i \in 1 .. n \/ i \in n + 1 .. Len(todo')
    BY <1>1, <1>3, <1>4
  <2> HIDE DEF D
  <2>5. D = {i \in 1 .. n : script[r][seq + i - 1] = what}
    BY <2>1, <2>2, <2>3, <2>4
  <2> QED BY <2>5 DEF D
<1>8. /\ Output(r) = had
      /\ Output(r)' = had + Cardinality(Among(r, seq, n))
  <2>1. Output(r) = had + Cardinality(Due(r, "stdout")) /\ Output(r)' = had + Cardinality(Due(r, "stdout")')
    BY DEF Output, Stdouts, HowMany, Places
  <2>2. Cardinality(Due(r, "stdout")) = 0 /\ had \in Nat
    BY <1>6, FS_EmptySet, Counts
  <2>3. Due(r, "stdout")' = Among(r, seq, n)
    BY <1>7 DEF Among
  <2>4. Output(r)' = had + Cardinality(Among(r, seq, n))
    BY <2>1, <2>3
  <2> HIDE DEF had
  <2>5. had + 0 = had
    BY <2>2
  <2> QED BY <2>1, <2>2, <2>4, <2>5
<1>9. /\ Answered(r, seq + n - 1) = Answered(r, seq - 1) + (Output(r)' - Output(r))
      /\ Output(r) \in Nat /\ Output(r)' \in Nat
  <2>1. Answered(r, seq + n - 1) =
           Answered(r, seq - 1) + Cardinality(Among(r, seq, n))
    <3>1. seq \in Nat \ {0} /\ n \in Nat
      BY <1>4
    <3> HIDE DEF seq
    <3> QED BY <3>1, AnsweredMore
  <2>2. Cardinality(Among(r, seq, n)) \in Nat
    <3>1. IsFiniteSet(Among(r, seq, n))
      <4> HIDE DEF seq
      <4> QED BY <1>4, AnsweredMore
    <3> QED BY <3>1, FS_CardinalityType
  <2>3. had \in Nat /\ Output(r) \in Nat /\ Output(r)' \in Nat
    BY Counts, CountsNext
  <2> HIDE DEF had, seq
  <2> DEFINE more == Cardinality(Among(r, seq, n))
  <2>4. Output(r)' - Output(r) = more
    <3>1. Output(r) = had /\ Output(r)' = had + more /\ more \in Nat
      BY <1>8, <2>2
    <3> HIDE DEF more
    <3> QED BY <2>3, <3>1
  <2> QED BY <2>1, <2>3, <2>4
<1>10. /\ Answered(r, seq - 1) \in Nat /\ Answered(r, seq + n - 1) \in Nat /\ Answered(r, last) \in Nat
       /\ Answered(r, seq + n - 1) <= Answered(r, last)
  <2> HIDE DEF seq
  <2>1. seq - 1 \in Nat /\ seq + n - 1 \in Nat /\ seq - 1 <= seq + n - 1 /\ seq + n - 1 <= last
    BY <1>4
  <2>2. Answered(r, seq - 1) \in Nat
    BY <2>1, AnsweredGrows
  <2> QED BY <1>4, <2>1, <2>2, AnsweredGrows
<1>11. /\ Output(r) <= Answered(r, seq - 1)
       /\ InHand(r) => Output(r) = Answered(r, seq - 1)
  BY <1>1 DEF CountInv
<1>12. Output(r)' <= Answered(r, last)
  <2> HIDE DEF seq
  <2> QED BY <1>9, <1>10, <1>11
<1>13. told[r] = "events"
  <2>1. todo # <<Close(r)>>
    <3>1. Close(r).op # "offer"
      BY StepFields
    <3> QED BY <3>1
  <2> QED BY <1>1, <2>1 DEF ToldInv
<1>14. Connected(socket[r]) => Output(r)' = Answered(r, seq + n - 1)
  <2>1. Connected(socket[r]) => InHand(r)
    BY <1>1, <1>6, <1>13 DEF InHand
  <2> HIDE DEF seq
  <2> QED BY <1>9, <1>10, <1>11, <2>1
<1>15. InHand(r)' => Output(r)' = Answered(r, last)
  <2> SUFFICES ASSUME InHand(r)' PROVE Output(r)' = Answered(r, last)
    OBVIOUS
  <2>1. Connected(socket[r]) /\ \A what \in Ends : Due(r, what)' = {}
    BY DEF InHand, Connected
  <2>2. script[r][seq + n - 1] \notin Ends
    <3>1. n \in 1 .. n
      BY <1>4
    <3> QED BY <1>7, <2>1, <3>1
  <2>3. seq + n - 1 = last
    <3>1. n = last - seq + 1
      BY <1>3, <2>2
    <3> HIDE DEF seq
    <3> QED BY <1>4, <3>1
  <2> QED BY <1>14, <2>1, <2>3
<1>16. Connected(socket[r]) /\ Due(r, "exit")' # {} => Output(r)' = Answered(r, len)
  <2> SUFFICES ASSUME Connected(socket[r]), Due(r, "exit")' # {} PROVE Output(r)' = Answered(r, len)
    OBVIOUS
  <2>1. PICK i \in 1 .. n : script[r][seq + i - 1] = "exit"
    BY <1>7
  <2>2. i = n
    <3>1. i \notin 1 .. n - 1
      BY <1>3, <2>1 DEF Ends
    <3> QED BY <1>4, <3>1
  <2>3. \A j \in (seq + n - 1) + 1 .. len : script[r][j] # "stdout"
    <3>1. \A k, j \in 1 .. len : k < j /\ script[r][k] = "exit" => script[r][j] # "stdout"
      BY ScriptFacts DEF LocalTypes
    <3>2. seq + n - 1 \in 1 .. len /\ script[r][seq + n - 1] = "exit"
      <4>1. seq + n - 1 \in 1 .. len
        <5> HIDE DEF seq, len
        <5> QED BY <1>2, <1>4
      <4> QED BY <2>1, <2>2, <4>1
    <3>3. \A j \in (seq + n - 1) + 1 .. len : j \in 1 .. len /\ seq + n - 1 < j
      <4> HIDE DEF seq, len
      <4> QED BY <1>2, <1>4
    <3> QED BY <3>1, <3>2, <3>3
  <2>4. Answered(r, len) = Answered(r, seq + n - 1)
    <3>1. seq + n - 1 \in Nat /\ len \in Nat /\ seq + n - 1 <= len
      <4> HIDE DEF seq, len
      <4> QED BY <1>2, <1>4
    <3> HIDE DEF seq, len
    <3> QED BY <2>3, <3>1, AnsweredAll
  <2> QED BY <1>14, <2>4
<1>17. CountInv(r)'
  <2>1. (IF session[r] = "open" THEN window[r].next - 1 ELSE Len(script[r]))' = last
        /\ (window[r].next - 1)' = last
    <3> HIDE DEF seq
    <3> QED BY <1>1, <1>4, <1>5
  <2>2. Answered(r, IF session[r] = "open" THEN window[r].next - 1 ELSE Len(script[r]))' = Answered(r, last)
    BY <2>1 DEF Answered
  <2>3. Answered(r, window[r].next - 1)' = Answered(r, last)
    BY <2>1 DEF Answered
  <2>4. Answered(r, Len(script[r]))' = Answered(r, len)
    BY DEF Answered
  <2>5. Connected(socket[r])' = Connected(socket[r])
    BY DEF Connected
  <2> HIDE DEF seq, len
  <2> QED BY <1>1, <1>12, <1>15, <1>16, <2>2, <2>3, <2>4, <2>5 DEF CountInv
<1>18. ExitInv(r)'
  BY ExitStays DEF ExitInv
<1> QED BY <1>17, <1>18

\* The step of the holder of the mutex.
LEMMA HolderCount ==
    ASSUME NEW r \in Runs, LocalInv, LocalTypes', script' = script, Holder, Head(todo).run = r
    PROVE  CountInv(r)' /\ ExitInv(r)'
<1>1. /\ LocalTypes /\ TodoInv /\ ToldInv(r) /\ (\A q \in Runs : WindowInv(q)) /\ CountInv(r) /\ ExitInv(r)
      /\ TodoTypes /\ window \in [Runs -> Window] /\ SessionTypes
  BY DEF LocalInv, LocalTypes, WindowTypes
<1>2. ~Free /\ todo # << >> /\ Head(todo) = todo[1] /\ Busy(r) /\ session[r] = "open"
  <2>1. ~Free
    BY DEF Holder, OfferStep, DeliverStep, CloseStep
  <2> QED BY <1>1, <2>1, StepUpdate DEF Free, Busy, TodoInv
<1>3. CASE DeliverStep
  BY <1>1, <1>3, EndDelivered, EventDelivered
<1>4. ASSUME Head(todo).op # "deliver", \A what : Due(r, what)' = {},
             elark' = elark, socket' = socket, told' = told,
             session'[r] = session[r] \/ session'[r] = "closed",
             session'[r] = "open" => window'[r].next = window[r].next
      PROVE  CountInv(r)' /\ ExitInv(r)'
  <2>1. \A what : Due(r, what) = {}
    BY <1>1, <1>2, <1>4, NothingDueAtHead
  <2>2. CountInv(r)'
    BY <1>1, <1>2, <1>4, <2>1, QuietCount
  <2>3. ExitInv(r)'
    BY <1>1, <1>4, ExitStays DEF ExitInv
  <2> QED BY <2>2, <2>3
<1>5. CASE CloseStep
  <2>1. Head(todo).op = "close" /\ todo' = << >> /\ UNCHANGED <<elark, socket, told>>
    BY <1>5 DEF CloseStep
  <2>2. ASSUME NEW what PROVE Due(r, what)' = {}
    <3>1. Due(r, what)' = {i \in 1 .. Len(todo') : todo'[i] = Deliver(what, r)}
      BY DEF Due, Places, Deliver
    <3> QED BY <2>1, <3>1, EmptyIsShort
  <2>3. session'[r] = "closed"
    BY <1>1, <1>2, <1>5 DEF CloseStep, CloseSession, SessionTypes
  <2> QED BY <1>4, <2>1, <2>2, <2>3
<1>6. CASE OfferStep
  <2> DEFINE w == window[r]
             seq == Head(todo).seq
             v == CheckGapTimeoutAt(w)
  <2>1. /\ Head(todo).op = "offer"
        /\ UNCHANGED <<elark, socket, session, daemon, told>>
        /\ v.next = w.next
    BY <1>1, <1>6, CheckedWindow DEF OfferStep
  <2>2. w.next \in Nat /\ seq \in Nat
    <3>1. seq \in Seqs /\ Seqs \subseteq Nat
      BY <1>1, <1>2, <2>1, HolderHead, RecvWindowAssumption DEF LocalTypes, Seqs
    <3>2. w.next \in 0 .. MaxSeq
      BY <1>1 DEF Window
    <3>3. seq \in Nat
      BY <3>1
    <3>4. w.next \in Nat
      <4> HIDE DEF w
      <4> QED BY <3>2, RecvWindowAssumption
    <3> QED BY <3>3, <3>4
  <2>3. CASE window' = [window EXCEPT ![r] = v] /\ todo' = <<Deliver("error", r), Close(r)>>
    <3>1. \A what : Due(r, what) = {}
      BY <1>1, <1>2, <2>1, NothingDueAtHead
    <3>2. window'[r].next = w.next
      BY <1>1, <2>1, <2>3
    <3> QED BY <1>1, <2>1, <2>3, <3>1, <3>2, EndingCount
  <2>4. CASE (window' = [window EXCEPT ![r] = v] \/ window' = [window EXCEPT ![r] = Buffered(v, seq)])
             /\ todo' = Tail(todo)
    <3>1. Buffered(v, seq).next = v.next
      <4>1. v \in Window
        BY <1>1, WindowOps
      <4> HIDE DEF v
      <4> QED BY <4>1 DEF Buffered, Window
    <3>2. window'[r] = v \/ window'[r] = Buffered(v, seq)
      BY <1>1, <2>4
    <3>3. window'[r].next = w.next
      <4> HIDE DEF v, w
      <4> QED BY <2>1, <3>1, <3>2
    <3>4. ASSUME NEW what PROVE Due(r, what)' = {}
      <4>1. Due(r, what) = {}
        BY <1>1, <1>2, <2>1, NothingDueAtHead
      <4>2. Head(todo) # Deliver(what, r)
        <5>1. Deliver(what, r).op = "deliver"
          BY StepFields
        <5> QED BY <2>1, <5>1
      <4> QED BY <1>1, <1>2, <2>4, <4>1, <4>2, DueTail
    <3> QED BY <1>4, <2>1, <3>3, <3>4
  <2>5. ASSUME NEW last \in Seqs, Completes(v, seq, last), OfferResult(w, seq) = "delivered",
               window' = [window EXCEPT ![r] = Advanced(v, last)],
               todo' = EventsOf(r, seq, last) \o Tail(todo)
        PROVE  CountInv(r)' /\ ExitInv(r)'
    <3>1. seq = w.next
      <4> HIDE DEF w, seq, v
      <4>1. ~(seq < w.next) /\ ~(seq > w.next)
        BY <2>5 DEF OfferResult
      <4> QED BY <2>2, <4>1
    <3>2. window'[r].next = Succ(last)
      <4>1. Advanced(v, last).next = Succ(last)
        BY DEF Advanced
      <4> QED BY <1>1, <2>5, <4>1
    <3> QED BY <1>1, <1>2, <2>1, <2>5, <3>1, <3>2, OfferDelivered
  <2> QED BY <1>6, <2>3, <2>4, <2>5 DEF OfferStep
<1> QED BY <1>3, <1>5, <1>6 DEF Holder

LEMMA NextCountInv ==
    ASSUME LocalInv, Next, NEW r \in Runs
    PROVE  CountInv(r)' /\ ExitInv(r)'
<1>1. /\ LocalTypes /\ TodoInv /\ StartInv(r) /\ ToldInv(r) /\ WindowInv(r) /\ CountInv(r) /\ ExitInv(r)
      /\ window \in [Runs -> Window] /\ SessionTypes /\ ScriptTypes
  BY DEF LocalInv, LocalTypes, WindowTypes
<1>2. LocalTypes' /\ script' = script /\ TodoInv'
  BY NextTypes, SameScript, NextTodoInv
<1>3. CASE Elark(r)
  BY <1>1, <1>2, <1>3, ElarkCount
<1>4. CASE Thread(r)
  BY <1>1, <1>2, <1>4, ThreadCount
<1>5. CASE Holder /\ Head(todo).run = r
  BY <1>2, <1>5, HolderCount
<1>6. Free => \A what : Due(r, what) = {}
  BY <1>1, NothingDue DEF Free, Busy
<1>7. CASE OnDrained(r)
  <2>1. /\ UNCHANGED <<elark, socket, todo, daemon, told>>
        /\ session'[r] = session[r] \/ (session[r] = "open" /\ session'[r] = "closed")
    BY <1>1, <1>7 DEF OnDrained, CloseSession, SessionTypes
  <2>2. session'[r] = "open" => window'[r].next = window[r].next
    BY <1>1, <1>7 DEF OnDrained, CloseSession, SessionTypes
  <2>3. \A what : Due(r, what)' = Due(r, what)
    BY <2>1 DEF Due, Places
  <2>4. Busy(r)' => Busy(r)
    BY <2>1 DEF Busy
  <2>5. CountInv(r)'
    BY <1>1, <1>2, <2>1, <2>2, <2>3, <2>4, QuietCount
  <2>6. ExitInv(r)'
    BY <1>1, <1>2, <2>1, ExitStays DEF ExitInv
  <2> QED BY <2>5, <2>6
<1>8. ASSUME Free, UNCHANGED <<elark, socket, session, told>>, window'[r].next = window[r].next,
             todo' = <<Deliver("error", r), Close(r)>>
      PROVE  CountInv(r)' /\ ExitInv(r)'
  BY <1>1, <1>2, <1>6, <1>8, EndingCount
<1>9. ASSUME Free, UNCHANGED <<elark, socket, session, window, told>>, daemon' = daemon,
             daemon = "running" \/ ~Busy(r)', \A what : Due(r, what)' = {}
      PROVE  CountInv(r)' /\ ExitInv(r)'
  <2>1. CountInv(r)'
    BY <1>1, <1>2, <1>6, <1>9, QuietCount
  <2>2. ExitInv(r)'
    BY <1>1, <1>2, <1>9, ExitStays DEF ExitInv
  <2> QED BY <2>1, <2>2
<1>10. CASE OnDrop(r)
  <2>1. Free /\ UNCHANGED <<elark, socket, session, window, told, daemon>>
    BY <1>10 DEF OnDrop
  <2>2. CASE todo' = <<Deliver("error", r), Close(r)>>
    BY <1>8, <2>1, <2>2
  <2>3. CASE todo' = << >>
    <3>1. ~Busy(r)'
      BY <2>3 DEF Busy
    <3>2. \A what : Due(r, what)' = {}
      BY <1>2, <3>1, NothingDueNext
    <3> QED BY <1>9, <2>1, <3>1, <3>2
  <2> QED BY <1>10, <2>2, <2>3 DEF OnDrop
<1>11. CASE Tick(r)
  <2>1. /\ Free /\ UNCHANGED <<elark, socket, session, told>>
        /\ todo' = <<Deliver("error", r), Close(r)>>
        /\ window' = [window EXCEPT ![r] = CheckGapTimeoutAt(@)]
    BY <1>11 DEF Tick
  <2>2. window'[r].next = window[r].next
    BY <1>1, <2>1, CheckedWindow
  <2> QED BY <1>8, <2>1, <2>2
<1>12. ASSUME NEW first \in Seqs, NEW last \in Seqs, ReceiveLocal(r, first, last)
       PROVE  CountInv(r)' /\ ExitInv(r)'
  <2>1. /\ Free /\ daemon = "running" /\ UNCHANGED <<elark, socket, session, window, told, daemon>>
        /\ first <= last /\ todo' = [i \in 1 .. last - first + 1 |-> Offer(first + i - 1, r)]
    BY <1>12 DEF ReceiveLocal
  <2>2. last - first + 1 \in Nat
    BY <2>1, RecvWindowAssumption DEF Seqs
  <2>3. Len(todo') = last - first + 1
    BY <2>1, <2>2
  <2>4. ASSUME NEW i \in 1 .. Len(todo') PROVE todo'[i].op # "deliver"
    <3>1. todo'[i] = Offer(first + i - 1, r)
      BY <2>1, <2>3, <2>4
    <3> QED BY <3>1, OfferFields
  <2>5. \A what : Places(todo', Deliver(what, r)) = {}
    BY <2>4, NoPlaceForRun
  <2>6. \A what : Due(r, what)' = {}
    BY <2>5 DEF Due, Places, Deliver
  <2> QED BY <1>9, <2>1, <2>6
<1>13. CASE /\ ~Elark(r) /\ ~Thread(r) /\ ~(Holder /\ Head(todo).run = r) /\ ~OnDrained(r) /\ ~OnDrop(r)
            /\ ~Tick(r) /\ ~(\E first, last \in Seqs : ReceiveLocal(r, first, last))
  <2>1. /\ elark'[r] = elark[r] /\ told'[r] = told[r] /\ session'[r] = session[r]
        /\ window'[r].next = window[r].next
        /\ socket'[r] = socket[r] \/ socket'[r] = ServerCloses(socket[r])
        /\ \A what : Due(r, what)' = Due(r, what)
        /\ Busy(r)' => Busy(r)
        /\ daemon' = "running" => daemon = "running"
    BY <1>2, <1>13, Elsewhere
  <2>2. socket[r] \in Socket
    BY <1>1 DEF LocalTypes, SocketTypes, Clients
  <2>3. ServerCloses(socket[r]).down = socket[r].down /\ ServerCloses(socket[r]).server = FALSE
    BY <2>2, SocketFields
  <2>4. socket'[r].down = socket[r].down /\ (Connected(socket'[r]) => Connected(socket[r]))
    BY <2>1, <2>3 DEF Connected
  <2>5. CountInv(r)'
    BY <1>1, <1>2, <2>1, <2>4, QuietCount
  <2>6. ExitInv(r)'
    BY <1>1, <1>2, <2>1, <2>4, ExitStays DEF ExitInv
  <2> QED BY <2>5, <2>6
<1> QED BY <1>3, <1>4, <1>5, <1>7, <1>10, <1>11, <1>12, <1>13

-----------------------------------------------------------------------------
(***************************************************************************)
(* The theorems.                                                           *)
(***************************************************************************)
LEMMA InitTypes == Init => LocalTypes
<1> SUFFICES ASSUME Init PROVE LocalTypes
  OBVIOUS
<1>1. ElarkTypes
  <2> DEFINE k == [pc |-> "new", tty |-> FALSE, acked |-> FALSE, interrupt |-> "none",
                   inputs |-> 0, printed |-> 0, code |-> "none"]
  <2>1. k \in Process
    BY LocalAssumption DEF Process, Codes
  <2>2. elark = [r \in Runs |-> k]
    BY DEF Init
  <2> HIDE DEF k
  <2> QED BY <2>1, <2>2 DEF ElarkTypes
<1>2. SocketTypes
  <2>1. NoSocket \in Socket /\ NoSocket.down = << >> /\ Len(<< >>) <= SocketSize
    BY SocketAssumption DEF NoSocket, Socket
  <2>2. socket = [c \in Clients |-> NoSocket]
    BY DEF Init
  <2> HIDE DEF NoSocket
  <2> QED BY <2>1, <2>2 DEF SocketTypes
<1>3. ThreadTypes
  BY DEF Init, ThreadTypes, Pcs, Clients
<1>4. SessionTypes
  <2> DEFINE k == [state |-> "none", queue |-> << >>, closing |-> FALSE, closed |-> FALSE]
  <2>1. k \in Connection
    BY DEF Connection
  <2>2. conn = [r \in Runs |-> k] /\ session = [r \in Runs |-> "none"] /\ callbacks = {}
    BY DEF Init
  <2> HIDE DEF k
  <2> QED BY <2>1, <2>2 DEF SessionTypes
<1>5. ScriptTypes
  BY DEF Init, ScriptTypes
<1>6. WindowTypes
  <2>1. NewRecvWindow \in Window
    BY RecvWindowAssumption DEF NewRecvWindow, Window
  <2>2. window = [r \in Runs |-> NewRecvWindow]
    BY DEF Init
  <2> HIDE DEF NewRecvWindow
  <2> QED BY <2>1, <2>2 DEF WindowTypes
<1>7. TodoTypes
  BY DEF Init, TodoTypes
<1> QED BY <1>1, <1>2, <1>3, <1>4, <1>5, <1>6, <1>7 DEF LocalTypes

LEMMA InitInv == Init => LocalInv
<1> SUFFICES ASSUME Init PROVE LocalInv
  OBVIOUS
<1>1. LocalTypes
  BY InitTypes
<1>2. TodoInv
  BY DEF Init, TodoInv
<1>3. ASSUME NEW r \in Runs
      PROVE  StartInv(r) /\ ToldInv(r) /\ ConnInv(r) /\ WindowInv(r) /\ CountInv(r) /\ ExitInv(r)
             /\ InterruptInv(r)
  <2>1. /\ r \in Clients /\ elark[r].pc = "new" /\ elark[r].interrupt = "none" /\ elark[r].printed = 0
        /\ elark[r].code = "none"
    BY DEF Init, Clients
  <2>2. /\ socket[r] = NoSocket /\ thread[r] = "none" /\ root[r] = "none" /\ session[r] = "none"
        /\ told[r] = "events" /\ conn[r].state = "none" /\ window[r] = NewRecvWindow /\ todo = << >>
    BY <2>1 DEF Init
  <2>3. socket[r].up = << >> /\ socket[r].down = << >> /\ 1 .. Len(<< >>) = {}
    BY <2>2, EmptyIsShort DEF NoSocket
  <2>4. StartInv(r)
    BY <2>1, <2>2, <2>3 DEF StartInv
  <2>5. ToldInv(r) /\ ConnInv(r)
    BY <2>2 DEF ToldInv, ConnInv
  <2>6. WindowInv(r)
    <3>1. Len(script[r]) \in Nat
      BY <1>1, ScriptFacts DEF LocalTypes
    <3> QED BY <2>2, <3>1 DEF WindowInv, NewRecvWindow
  <2>7. InterruptInv(r)
    BY <2>1 DEF InterruptInv
  <2>8. ExitInv(r)
    BY <2>1, <2>3 DEF ExitInv
  <2>9. CountInv(r)
    <3>1. \A s, x : s = << >> => Places(s, x) = {}
      BY EmptyIsShort DEF Places
    <3>2. Stdouts(socket[r].down) = 0 /\ \A what : Due(r, what) = {}
      BY <2>2, <2>3, <3>1, NoPlaces DEF Stdouts, Due
    <3>3. Output(r) = 0
      BY <2>1, <3>2, FS_EmptySet DEF Output
    <3>4. Len(script[r]) \in Nat
      BY <1>1, ScriptFacts DEF LocalTypes
    <3>5. 0 <= Answered(r, Len(script[r]))
      <4>1. Answered(r, Len(script[r])) \in Nat
        BY <3>4, AnsweredGrows
      <4> QED BY <4>1
    <3> QED BY <2>1, <2>2, <3>2, <3>3, <3>5 DEF CountInv, InHand
  <2> QED BY <2>4, <2>5, <2>6, <2>7, <2>8, <2>9
<1>4. ASSUME NEW k \in Kills PROVE KillInv(k)
  <2>1. k \in Clients
    BY DEF Clients
  <2>2. socket[k] = NoSocket /\ thread[k] = "none"
    BY <2>1 DEF Init
  <2> QED BY <2>2 DEF KillInv, NoSocket
<1> QED BY <1>1, <1>2, <1>3, <1>4 DEF LocalInv

LEMMA Stutters == LocalInv /\ UNCHANGED vars => LocalInv'
<1> SUFFICES ASSUME LocalInv, UNCHANGED vars PROVE LocalInv'
  OBVIOUS
<1>1. UNCHANGED <<elark, socket, thread, root, session, conn, callbacks, window, script, todo, target,
                  daemon, told>>
  BY DEF vars
<1>2. LocalTypes' /\ TodoInv'
  BY <1>1 DEF LocalInv, LocalTypes, ElarkTypes, SocketTypes, ThreadTypes, SessionTypes, ScriptTypes,
              WindowTypes, TodoTypes, TodoInv
<1>3. ASSUME NEW r \in Runs
      PROVE  StartInv(r)' /\ ToldInv(r)' /\ ConnInv(r)' /\ WindowInv(r)' /\ InterruptInv(r)'
  BY <1>1 DEF LocalInv, StartInv, ToldInv, ConnInv, CloseIsDue, WindowInv, InterruptInv
<1>4. ASSUME NEW r \in Runs PROVE CountInv(r)' /\ ExitInv(r)'
  <2>1. /\ LocalTypes /\ TodoInv /\ WindowInv(r) /\ CountInv(r) /\ ExitInv(r)
    BY DEF LocalInv
  <2>2. \A what : Due(r, what)' = Due(r, what)
    BY <1>1 DEF Due, Places
  <2>3. Busy(r)' => Busy(r)
    BY <1>1 DEF Busy
  <2>4. CountInv(r)'
    BY <1>1, <1>2, <2>1, <2>2, <2>3, QuietCount
  <2>5. ExitInv(r)'
    BY <1>1, <2>1, ExitStays DEF ExitInv
  <2> QED BY <2>4, <2>5
<1>5. ASSUME NEW k \in Kills PROVE KillInv(k)'
  BY <1>1 DEF LocalInv, KillInv
<1> QED BY <1>2, <1>3, <1>4, <1>5 DEF LocalInv

\* The inductive invariant of the requesting side: what the holder of
\* Manager.mu has to do, the session, its connection, its window, the events
\* on their way to its client and the client itself have to do with each
\* other.
THEOREM SpecLocalInv == Spec => []LocalInv
<1>1. Init => LocalInv
  BY InitInv
<1>2. LocalInv /\ [Next]_vars => LocalInv'
  <2>1. ASSUME LocalInv, Next PROVE LocalInv'
    <3>1. LocalTypes' /\ TodoInv'
      BY <2>1, NextTypes, NextTodoInv
    <3>2. ASSUME NEW r \in Runs
          PROVE  (StartInv(r) /\ ToldInv(r) /\ ConnInv(r) /\ WindowInv(r) /\ CountInv(r) /\ ExitInv(r)
                  /\ InterruptInv(r))'
      BY <2>1, NextStartInv, NextToldInv, NextConnInv, NextWindowInv, NextCountInv, NextInterruptInv
    <3>3. \A k \in Kills : KillInv(k)'
      BY <2>1, NextKillInv
    <3> QED BY <3>1, <3>2, <3>3 DEF LocalInv
  <2> QED BY <2>1, Stutters
<1> QED BY <1>1, <1>2, PTL DEF Spec

\* The types of the state, with the sizes of its parts: a socket holds no
\* more than fits it (ipcSubscriber.Deliver waits), and elark prints no more
\* than the remote has answered (RecvWindow).
THEOREM SpecTypeOK == Spec => []TypeOK
<1>1. LocalInv => TypeOK
  <2> SUFFICES ASSUME LocalInv PROVE TypeOK
    OBVIOUS
  <2>1. LocalTypes
    BY DEF LocalInv
  <2>2. ASSUME NEW r \in Runs PROVE elark[r].printed \in 0 .. MaxSeq
    <3>1. CountInv(r) /\ WindowInv(r)
      BY DEF LocalInv
    <3> DEFINE n == IF session[r] = "open" THEN window[r].next - 1 ELSE Len(script[r])
    <3>2. n \in Nat /\ n <= MaxSeq /\ MaxSeq \in Nat
      BY <2>1, <3>1, ScriptFacts DEF WindowInv, LocalTypes
    <3>3. Output(r) <= Answered(r, n)
      BY <3>1 DEF CountInv
    <3> HIDE DEF n
    <3>4. Answered(r, n) \in Nat /\ Answered(r, n) <= n
      BY <3>2, AnsweredGrows
    <3>5. /\ elark[r].printed \in Nat /\ Stdouts(socket[r].down) \in Nat
          /\ Cardinality(Due(r, "stdout")) \in Nat
          /\ Output(r) = elark[r].printed + Stdouts(socket[r].down) + Cardinality(Due(r, "stdout"))
      BY <2>1, Counts DEF Output
    <3> QED BY <3>2, <3>3, <3>4, <3>5
  <2>3. elark \in [Runs -> [pc : {"new", "stdin", "receive", "exited"}, tty : BOOLEAN, acked : BOOLEAN,
                            interrupt : {"none", "set", "written", "closed"},
                            inputs : 0 .. MaxInputs, printed : 0 .. MaxSeq, code : Codes]]
    <3>1. elark \in [Runs -> Process]
      BY <2>1 DEF LocalTypes, ElarkTypes
    <3>2. ASSUME NEW r \in Runs
          PROVE  elark[r] \in [pc : {"new", "stdin", "receive", "exited"}, tty : BOOLEAN, acked : BOOLEAN,
                               interrupt : {"none", "set", "written", "closed"},
                               inputs : 0 .. MaxInputs, printed : 0 .. MaxSeq, code : Codes]
      BY <2>2, <3>1 DEF Process
    <3> QED BY <3>1, <3>2
  <2> QED BY <2>1, <2>3 DEF TypeOK, LocalTypes, SocketTypes, ThreadTypes, SessionTypes, ScriptTypes,
                            WindowTypes, TodoTypes, Connection, Step
<1> QED BY <1>1, SpecLocalInv, PTL

\* An elark that reports the exit code of the command has printed all of its
\* output, whatever the chat loses, repeats or reorders: the receive window,
\* ipcSubscriber.Deliver that waits, and the socket, together.
THEOREM SpecExitCodeAfterOutput == Spec => []ExitCodeAfterOutput
<1>1. LocalInv => ExitCodeAfterOutput
  <2> SUFFICES ASSUME LocalInv, NEW r \in Runs, elark[r].code = "exit code"
               PROVE  elark[r].printed = Cardinality({i \in DOMAIN script[r] : script[r][i] = "stdout"})
    BY DEF ExitCodeAfterOutput
  <2>1. elark[r].printed = Answered(r, Len(script[r]))
    BY DEF LocalInv, ExitInv
  <2>2. DOMAIN script[r] = 1 .. Len(script[r])
    <3>1. script[r] \in Seq(Frames)
      BY ScriptFacts DEF LocalInv, LocalTypes
    <3> QED BY <3>1, LenProperties
  <2> QED BY <2>1, <2>2 DEF Answered
<1> QED BY <1>1, SpecLocalInv, PTL

\* A session ends once and then tells its client nothing more, whichever of
\* deliverLocalFrame, Tick and handleLocalOutboundDrop comes first.
THEOREM SpecNothingAfterEnd == Spec => []NothingAfterEnd
<1>1. LocalInv => NothingAfterEnd
  BY DEF LocalInv, ToldInv, NothingAfterEnd
<1> QED BY <1>1, SpecLocalInv, PTL

\* A connection of the outbound manager has its session, and a session whose
\* connection has gone has a callback on its way that closes it, or is being
\* closed (RegisterLocal, closeLocalLocked).
THEOREM SpecSessionsMatchConnections == Spec => []SessionsMatchConnections
<1>1. LocalInv => SessionsMatchConnections
  <2> SUFFICES ASSUME LocalInv, NEW r \in Runs
               PROVE  /\ conn[r].state = "open" => session[r] = "open"
                      /\ session[r] = "open" /\ conn[r].state = "gone" =>
                            \/ \E cause \in {"drained", "dropped"} : <<cause, r>> \in callbacks
                            \/ \E i \in DOMAIN todo : todo[i].run = r /\ todo[i].op \in {"deliver", "close"}
    BY DEF SessionsMatchConnections
  <2>1. ConnInv(r) /\ todo \in Seq(Step)
    BY DEF LocalInv, LocalTypes, TodoTypes
  <2>2. ASSUME CloseIsDue(r)
        PROVE  \E i \in DOMAIN todo : todo[i].run = r /\ todo[i].op \in {"deliver", "close"}
    <3>1. Len(todo) \in DOMAIN todo
      BY <2>1, <2>2 DEF CloseIsDue
    <3>2. todo[Len(todo)].run = r /\ todo[Len(todo)].op = "close"
      BY <2>2, StepFields DEF CloseIsDue
    <3> QED BY <3>1, <3>2
  <2> QED BY <2>1, <2>2 DEF ConnInv
<1> QED BY <1>1, SpecLocalInv, PTL

\* closeForInterrupt sets the exit code before it closes the connection, so
\* that the read that fails is not taken for an error of the daemon.
THEOREM SpecInterruptReported == Spec => []InterruptReported
<1>1. LocalInv => InterruptReported
  BY DEF LocalInv, InterruptInv, InterruptReported
<1> QED BY <1>1, SpecLocalInv, PTL
=============================================================================
