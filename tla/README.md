# TLA+ models of exec-over-lark

exec-over-lark runs a command on another machine through a Lark group chat.
`elark` talks to a local `elarkd` over a Unix socket; that daemon posts a root
message in the chat, the remote `elarkd` sees it on its websocket, runs the
command, and both sides then talk in replies to that root message. Each message
carries frames `EOL1 <seq> <type> <payload>`. There is no acknowledgement: the
sequence numbers only serve to drop repeated frames and to order the others, and
a number that does not come ends the session after a timeout.

This directory holds TLA+ modules of the parts where order, failure and time
matter, TLC configurations that check them on small instances, and proofs that
TLAPS checks for every value of the constants.

## The system

| part | state | operations | talks to |
|---|---|---|---|
| `elark` (`cmd/elark`) | terminal, one request, an interrupt | start, stdin, resize, signal, close; kill | IPC |
| IPC (`internal/ipc`) | listener, connections, a thread each | dispatch a request, send an event, close | CLI, local daemon |
| local daemon (`internal/daemon/local.go`) | bot id, ticker | StartLocalSession, HandleLarkEvent, run | IPC, session, outbound |
| session manager (`internal/session`) | two maps of sessions, a RecvWindow each, one mutex | RegisterLocal, AcceptRemoteStart, Receive..., Send..., Close..., Tick | outbound; delivers events to subscribers and tasks |
| sequence numbers (`internal/protocol`) | `Sequencer`, `RecvWindow` | NextSeq, OfferAt, CheckGapTimeoutAt | session, outbound |
| outbound manager (`internal/outbound`) | per chat: connections with queues, OpenRoot jobs, plan, timer | RegisterConnection, Enqueue, MarkCloseAfterDrained, DropConnection, OpenRoot, run loop, batches | Lark client; calls back OnDrained, OnDrop |
| remote daemon (`internal/daemon/remote.go`) | a task per command: event buffer, closeCh, three goroutines | HandleMessageEvent, Deliver, run, controlLoop, copyOutput | session, remoteexec, pty |
| remoteexec, pty | a process, its pipes or its terminal | Start, Write, Signal, Kill, Wait | the command |
| Lark client (`internal/lark`) | tenant token | send, reply, refresh, invalidate | HTTP |
| event source (`cmd/elarkd`) | the connection, parts of events | Run, handleFrame, ack | websocket, bootstrap, the daemons |
| elarkd process, service | none that lasts | start and stop, restart by launchd or systemd | all of the above |
| doctor, config, version | none | checks, files, text | |

What is hard about it:

* **The chat** loses messages (websocket down), repeats them (a send that failed
  after it was posted is sent again) and reorders them (batches of a connection
  are sent by concurrent goroutines).
* **Callbacks.** The outbound manager reports a drained or dropped connection by
  callbacks into the session manager, from its own goroutines or from inside
  the call that found the connection drained.
* **A mutex held over blocking calls.** The session manager delivers events with
  `Manager.mu` held: to tasks, into a channel that can be full, and to `elark`
  processes, into a socket that can be full.
* **Races at the end**: a command exits while its output is read, its stdin is
  written, the client closes or interrupts, or the peer is silent; on the local
  side an exit, an error, a gap, a drop, a kill and a Ctrl-C race for one session.
* **A client that leaves early.** `elark` goes away after Ctrl-C while the
  daemon still has its start message and its close to send.
* **Shared token, redelivered events, restarts.** Requests share a token that
  Lark can revoke; Lark repeats an event until it has the acknowledgement, and
  elarkd can end at any step and keeps nothing.
* **No HTTP timeout.** The Lark client takes `http.DefaultClient`, so a request
  that Lark accepts and never answers waits until its context is cancelled, and
  with it its batch, its OpenRoot caller or the reader of the websocket.
* **Time**: gap timeout, heartbeats, peer timeout, send cooldown, the 5 s of
  grace after an interrupt.

What makes each part correct: a stream hands frames up once and in order and
never waits for ever; the outbound queue loses and doubles nothing, ends every
connection it was asked to end, answers every OpenRoot, as long as Lark answers,
and keeps the cooldown;
the session manager keeps its sessions and the outbound connections in step and
lets none outlive its command, or the reverse; a task reports all the output and
then the exit; the local side tells its subscriber exactly one end of each
session, after all the output; Ctrl-C reaches the remote side; the daemon stops
when it is told to; an event is acknowledged only after it was handled, and
one that has come in is handled unless the connection breaks or elarkd stops; a
stale token never costs a request.

## Modules

| module | models | state and actions in the code |
|---|---|---|
| `RecvWindow` | the operators of `Sequencer` and `RecvWindow` | numbers run to `MaxSeq` and wrap as uint64 does; `gapAge` is `now - GapStartedAt`, cut off at the timeout |
| `Stream` | one direction of a connection: sender, chat, receiver | `SendFrame` = NextSeq and posting; the four `Offer...` actions are the four results of OfferAt; `Tick` = CheckGapTimeoutAt; `Lose` and the fact that an offered frame stays in the chat are the chat |
| `OrderedStream` | what a direction promises | implemented by `Stream`: accepted <- Sent, output <- delivered |
| `StreamProofs`, `OutboundProofs`, `RemoteProofs`, `LocalProofs`, `TokenProofs`, `EventsProofs` | theorems about the module each is named after | see Proofs |
| `Outbound` | one chat queue of the outbound manager | one action for every critical section of `chatQueue.mu`, with the callback and the wake-up that follow it; `pc`, `timer`, `flushIn`, `resched` are the run loop and its plan; `batches`, `rootSend` the sendBatch goroutines |
| `ReplyQueue` | what the outbound manager promises to the session layer about its connections | implemented by `Outbound`: phase <- state, numbered <- nextSeq - 1, inChat <- posted, reason <- outcome |
| `Remote` | remote half of `session.Manager`, the tasks and processes, with pipes or a terminal | `todo` is what the holder of `Manager.mu` has still to do; `task` the channel, closeCh, context and program counters of run, controlLoop and copyOutput; `send` the steps of SendRemote...; `proc` the process |
| `Ipc` | one connection of the Unix socket, as operators | `up` and `down` are what was written and not read; `client`, `server` the ends that are open |
| `Local` | `elark`, the IPC server's threads, the local daemon, the local half of `session.Manager` | `elark` is runRemote and forwardSignals; `thread` is serveConn with the handler it is in; `todo` as in `Remote`; `window` is the session's RecvWindow (module `RecvWindow`); `root`, `conn`, `callbacks` what `Outbound` shows of itself; `daemon` the steps of the stop |
| `Token` | the tenant token of the Lark client and the requests that share it | one action for each use of the client's mutex and each answer of Lark |
| `Events` | event source, bootstrap message, the handlers of the modes, the end, crash and restart of elarkd | extends `Token`: the bootstrap message is one of its requests; `ws` is Run, `stage` where handleFrame is, `given` what an event was given to, `cancelled` the context of runForeground |
| `MCOutbound`, `MCRemote`, `MCLocal`, `MCEvents` | the instances that TLC checks | sets of messages, roots, answers and events |

How they fit: `Outbound` implements `ReplyQueue` and shows that what is enqueued is
posted or its connection dropped, and that a marked connection drains, if Lark
answers every request for it; `Remote` and `Local` take exactly that of it (`OutboundRemoves`; `PostFrame`, `DropConn`, `OnDrained`, `OnDrop`).
`Stream` shows what a receive window makes of the chat; `Remote` takes messages
in that order, and `Local` runs the window itself, since the gap between
OpenRoot and RegisterLocal is a matter of single frames. `Events` ends where
`Local` and `Remote` begin, at the handlers. `Token` is what every send of
`Outbound` goes through; that it can fail is a choice there.

Modelling choices that a reader should know:

* A time is kept relative to now, so the state space is finite: ticks until
  something is due, or the age of something, cut off where the code no longer
  tells ages apart. Bounds are named in the CONSTANTS (`Max...`, `Total`).
* `Outbound` has one chat, since chats share only two maps of the manager. A
  frame is its number, its age and whether it is larger than a request on its
  own; `BatchLimit` frames that are not fit one request. `LarkPostsReply` and
  the step that takes the answer are separate, so that a send can fail although
  Lark posted it. A request can also stay unanswered for ever (`Silence`): the
  frame or the root message is then on its way for good, `inFlight` of its
  connection never comes down, and the properties that say what happens in the
  end name it. Each connection id is registered once. A heartbeat uses up a
  number of `MaxFrames`, which bounds heartbeats too.
* `Remote`: a message of the client is the list of what its frames make the
  session do. One output stream stands for stdout and stderr, a resize is
  handled like a signal. Which root message a start belongs to is chosen at the
  start of a behaviour (`Roots`), so that the same root can come in twice. A
  connection is removed in two steps, as in the code: from its chat
  (`OutboundRemoves`, `SendMark`), then from `Manager.conns` by its id
  (`OutboundForgets`, `SendForget`), and only then its callback runs. A start
  for the same root can come between any two of them; `StartOvertaken` is a
  start whose own registration such a late forgetConn takes away before it has
  used it. A write to a command that has closed its stdin fails while the
  command runs on (`CtlWriteFails`). A repeated start
  then runs the command again if the first session is over: `NoOutputAfterExit`
  and `OutputComplete` are about a root message that one start came in for
  (`StartedOnce`). A command runs with pipes or with a terminal (`Ptys`), whichever the start
  message asks for; a terminal never blocks its writer here.
* `Local`: a session, its connection and its request id all belong to one elark
  process and are named by it. The remote side is a list of frames that arrive
  in any order, repeated, or not at all, in messages of consecutive frames, once
  the root message is posted. How long the remote has been silent is not timed:
  `Tick` can find it silent at any moment. An input is a stdin, resize or signal
  message. What a client writes always fits the socket; what the daemon writes
  fits until `SocketSize` messages wait. Nothing is output behind the exit in an
  answer (`ScriptsAssumption`), which `NoOutputAfterExit` shows of `Remote`, and
  `MaxSeq` is above the longest answer, so that numbers do not run out.
* `Token` numbers tokens as Lark issues them. Lark may give the same token again
  or a new one, and revoke one at any moment; it always has one left that it
  accepts. `Forgets` is the end of the process.
* `Events`: parts of an event come in any order. A failure of any service cancels
  the context; the event source then returns, with status 500 for the event in
  hand (`Nack`), unless a handler holds it for ever (`HandlerStays`) or Lark
  never answers the bootstrap message. `ElarkdEnds` is the return of `wg.Wait`
  and may never come, nor need elarkd be started again. When it is, all that is
  left is what Lark knows (tokens, acknowledgements) and the history `given`.

## Runs

Every run explores its whole state space. `CHECK_DEADLOCK FALSE` is set for
`Remote` and `Local` only, where commands end, inputs are bounded and the system
stops.

| run | instance | shows |
|---|---|---|
| `stream` | 4 frames, timeout 2, fair | `InOrderOnce`, `GapIffPending`, `GapTimerMeasuresQuiet`: order and the gap timer under loss, repetition and reordering; `GapResolved`: no gap stays; it implements `OrderedStream` |
| `outbound` | 1 connection, 3 frames, 2 failures, heartbeats, fair | `NothingLost`, `OnePlace`, `InFlightCounts`, `NoLostWakeup` when batches in flight fail in any order and go back before frames of later batches; `FramesGetPosted`, `CloseEnds`, unless Lark never answers; it implements `ReplyQueue` |
| `outbound_chat` | 2 connections, 1 OpenRoot, fair | `CooldownKept`, `OpenRootAnswered` when connections and callers share the plan and the timer |
| `remote` | 1 command with pipes or a terminal, all kinds of message, gap, drops | `SessionsMatchConnections`, `NoOutputAfterExit`, `OutputComplete`, `KillHasReason` |
| `remote_two` | 2 starts, for 2 roots or one, room for 1 | a refused start; `SessionsMatchConnections` when a forgetConn or a callback of a first connection meets the second registration or session of the same id |
| `remote_live` | 1 command that reads its stdin, fair | `DeadCommandFreesSession`, `EndedSessionStopsCommand`, `PeerTimeoutNoticed` |
| `local` | 1 elark, 1 kill, answers with output or an error, a socket of 1, the daemon may stop | `ExitCodeAfterOutput`, `NothingAfterEnd`, `SessionsMatchConnections` |
| `local_live` | 1 elark, 1 input, the daemon may stop, fair | `InterruptReported`, `InterruptReachesRemote`, `MutexReleased`, `ElarkIsTold`, `StopCompletes` |
| `events` | a message in 2 parts, a bot-added event, both modes, the bootstrap message and another request, 2 tokens, fair | `AckedIsHandled`, `EventsHandled` over any number of lost connections, crashes, cancelled contexts and restarts, with handlers and requests that never return; `RefusedOnlyIfRevoked`, `GoodTokenKept` with requests that share the token |
| `remote_gap`, `remote_stuck`, `remote_exit` | 1 command each | disagreements of the code with its docs and tests, below |

Why the bounds are enough. Four frames let a window hold two separate runs and
have two gaps one after the other; timeout 2 tells a gap that is open, one that
is late and one that has expired apart. Three frames in batches of at most two
give two batches in flight, one of which fails behind the other, and a frame
that stays queued; two failures let a batch come back twice or both come back.
In the chat run the second connection and the root job compete for one plan, and
ages of 0 and 1 suffice to make either older. For `Remote` two messages let an
input be followed by an end, with every order of the goroutines between; a
buffer of 2 fills with one message of two events.

For `Local` one elark suffices for the races, which are all about one session:
its own threads, the kill, the ticker, the callbacks and the remote side. Other
sessions matter only through the mutex, and `MutexReleased` says that it is
given back. Three frames are an acknowledgement, output and an exit, of which
the first can be early, any can be missing and any two can come together; a
socket of one message is full as soon as elark does not read. `local` has no
typed input, which would only lengthen queues; `local_live` has one, for the
close behind it. `Events` needs two parts for an event that is half there and one
event of each kind that does something; connections, crashes and restarts are
not bounded, since nothing counts them. For the token, two requests and two
tokens give a refresh beside a stale answer. With three tokens, and the
bot-added event alone, `RefusedOnlyIfRevoked` and `GoodTokenKept` hold as well.

Definitions marked "Mutant" are plausible slips in the code (a dropped guard, a
callback too early, a plan that forgets the heartbeats). Put in place of the
definition before which they stand, each one makes TLC refute the property that
`PROJECT.json` names with it, so every property can fail.

### Fairness

* `Stream`: the ticker of the daemon (`tickLoop`) and the clock. The chat owes
  nothing: it may lose everything.
* `Outbound`: the run loop, the sendBatch goroutines, the caller waiting in
  OpenRoot, and the clock. Callers owe nothing, and Lark need not answer: the
  HTTP client has no timeout and the context of a batch no deadline, so each
  request can stay unanswered for ever, and `FramesGetPosted`, `CloseEnds` and
  `OpenRootAnswered` name exactly that as their exception, for the connection or
  caller concerned. Other connections and callers go on. Failures that can be
  retried are bounded by `MaxFailures`: a chat that always fails delivers nothing.
* `Remote`: the ticker, the holder of the mutex, callbacks, each goroutine of a
  task, the draining of a connection that is to be closed, and a process that
  reads its stdin. That a connection drains is an assumption about Lark, which has
  to answer the requests for its frames (`CloseEnds`). The client, failures, and the process's output and exit owe
  nothing. Goroutines that block have disabled actions, so weak fairness does
  not make them move.
* `remote_live` assumes a command that reads its stdin and a buffer that does
  not fill (5 events for the 4 that can come); `remote_stuck` shows what
  happens without these assumptions.
* `Local`: the holder of the mutex; the threads and callbacks, strongly, since
  a Go mutex hands itself over to a waiter that has waited long; the queue of
  the outbound manager, an assumption about Lark, which has to answer
  (`FramesGetPosted`, `OpenRootAnswered`): while a root message is not answered
  its elark waits, Ctrl-C or not; an elark that
  reads what it is sent and whose piped input ends. The remote, the person at
  the terminal, kills and the order to stop owe nothing, nor does the ticker.
  `MutexReleased` depends on the elark that reads: one that is stopped with its
  socket full keeps the mutex, and with it the daemon, until it goes on or dies.
* `Events`: the goroutine of the event source, from a frame it has read to its
  answer; its own request, the bootstrap message, which may stay unanswered
  (`LarkNeverAnswers`);
  and the reading of every frame of a connection in its turn (strongly: between
  two reads an event is handled). Nothing more: no process has to end, none has
  to be started again, and Lark need not repeat an event, as elarkd fetches no
  history (the README of the repository says so). `EventsHandled` is therefore
  about an event that has come over a connection that stays.

## Where the code and its docs disagree

* **Gap timeout deadlock** (`remote_gap`). `handleRemoteSequenceErrorLocked`
  enqueues the error, then calls MarkCloseAfterDrained with `Manager.mu` held.
  If the error has been posted in between, the outbound manager calls OnDrained
  in the same goroutine, and CloseRemoteConn locks the mutex again.
* **Blocking delivery** (`remote_stuck`). `Deliver` blocks on a full event
  buffer with `Manager.mu` held. The buffer's reader may itself need the mutex,
  or hang in a write to a command that does not read; the daemon stops.
* **Exit code hidden** (`remote_exit`). The end of a terminal is read as EIO on
  Linux. `IsReadEOF` in `pty.go` knows, `remoteOutputEOF` in `remote.go` does
  not: unless `run()` has cancelled the context by then, the client gets an
  error in place of the exit code.

Seen while modelling and not given a run of their own:

* With pipes `cmd.Wait` runs from the start and closes them when the command
  exits, read or not: `OutputComplete` is stated for terminals, and TLC refutes
  it at once without that condition.
* Input that is written when a command with pipes has just ended fails and is
  reported as an error before the exit.
* The interrupt event and the closed channel are ready together, and `select`
  may take the second: the command is killed without its five seconds.
* `elark kill` closes the session of another elark through CloseLocalConn, which
  delivers no event: that elark waits until somebody interrupts it
  (`ElarkIsTold` names the exception, and fails without it).
* A request to Lark that is never answered has no timeout (`client.go:104`): its
  connection never drains, so that its session keeps its place; an elark waits in
  OpenRoot, and its Ctrl-C with it; and when it is the bootstrap message, the only
  reader of the websocket waits and no event is read any more.
* A connection is removed under `chat.mu` and forgotten, by its id, under
  `Manager.mu` of the outbound manager. When its session has been closed in
  between and the same root message comes in again, the late forgetConn erases the
  new registration. The session of the new one is closed by the callback
  of the old, but DropConnection finds nothing in `m.conns`: the connection stays
  in its chat with its callbacks and heartbeats and without a session. TLC finds
  it in `remote_two` when `StartedOnce` is taken out of `SessionsMatchConnections`.
* After the event source has failed, elarkd waits in `wg.Wait` (`main.go:186`) for
  every other service, and for ever if one of them waits in one of the ways below:
  it neither works nor ends, and no service manager starts it again.
* A daemon that is told to stop can wait for ever: for a handler in OpenRoot,
  whose queue has stopped, or for a connection that was accepted when Close
  went through `Server.conns` (`StopCompletes` names both).
* An elark that dies leaves its session and its command running.
* What is piped into elark is read to its end before any output is received, and
  its end is never sent.
* Sequence numbers wrap at the end of uint64 in the window but not in the sender
  (set `Total = MaxSeq` in `Stream.cfg`).
* A frame can wait longer than `sequence_gap_timeout`, since every partial fill
  starts the timer again (the README says it is the longest wait;
  `GapTimerMeasuresQuiet` states what the code does).
* The session limit counts entries of the map, which go before their command has
  ended, so more commands can run than `exec.max_sessions`.
* A start message that comes in again after its session has ended runs the
  command again.
* A bootstrap message that could not be sent is acknowledged all the same.

## Proofs

Every safety invariant and every action property of the passing runs is a theorem
of its specification, and so are the two refinements. The theorems hold for all
values of the constants that satisfy the modules' assumptions: any number of
connections, callers, root messages, commands, clients, events and requests, any
messages and answers, any size of a buffer or a socket. `SessionsMatchConnections` of
`Remote` promises that a connection with callbacks has its session only for a root
that one start came in for (`StartedOnce`), since the code breaks it for others.

| module | theorem | states |
|---|---|---|
| `StreamProofs` | `TypeCorrect`, `InOrder`, `GapTimerRuns`, `GapTimerQuiet` | `[]TypeOK`, `[]InOrderOnce`, `[]GapIffPending`, `[]GapTimerMeasuresQuiet` |
| | `StreamRefinesOrderedStream` | `ImplementsOrderedStream` |
| `OutboundProofs` | `SpecOutboundInv` | the inductive invariant |
| | `SpecTypeOK`, `SpecNothingLost`, `SpecOnePlace`, `SpecInFlightCounts`, `SpecDrainedIsPosted`, `SpecNoLostWakeup` | `[]` of the invariant each is named after |
| | `SpecCooldownKept` | `CooldownKept`, an action property |
| | `SpecImplementsReplyQueue` | `ImplementsReplyQueue` |
| `RemoteProofs` | `SpecRemoteInv` | the inductive invariant |
| | `SpecTypeOK`, `SpecSessionsMatchConnections`, `SpecNoOutputAfterExit`, `SpecOutputComplete` | `[]` of the invariant |
| | `SpecKillHasReason` | `KillHasReason`, an action property |
| `LocalProofs` | `SpecLocalInv` | the inductive invariant |
| | `SpecTypeOK`, `SpecExitCodeAfterOutput`, `SpecNothingAfterEnd`, `SpecSessionsMatchConnections`, `SpecInterruptReported` | `[]` of the invariant |
| `EventsProofs` | `SpecEventsInv` | the inductive invariant |
| | `SpecTypeOK`, `SpecRefusedOnlyIfRevoked`, `SpecAckedIsHandled` | `[]` of the invariant |
| | `SpecGoodTokenKept` | `GoodTokenKept`, an action property |

### From which assumptions

The `ASSUME`s of the modules: types and finiteness of the constants, which TLC
evaluates for the instances of the runs, and three that say more.

* `Stream`: `Total < MaxSeq`, in the theorems. The sender stops before the last
  number; the theorems are false without it, and uint64 has room enough.
* `Local`: `ScriptsAssumption`. An answer has fewer frames than there are numbers,
  and no output behind the exit. The second half is `NoOutputAfterExit` of
  `Remote`, for a start that comes in once. Without it `ExitCodeAfterOutput` is
  false: output behind an exit finds its session closed.
* `Remote`: `MessagesAssumption`, messages are sequences of the kinds of frame
  there are.

### Along which argument

Hardly any of these properties is inductive.

* **`Stream`**, `IInv`: that the next delivered frame is the next number needs the
  window and the history to agree (`HistoryMatches`), that a pending frame was
  sent needs its bounds (`WindowBounds`), and the age of the gap is the quiet time
  only while the timer runs iff something waits (`GapMatches`). A delivery rests
  on `AppendRun` and `DeliveredStep`: the run that OfferAt completes continues
  the history.
* **`Outbound`**, `OutboundInv`: `QueueInv` has what `OnePlace` says for
  connections that have gone as well, whose batches are still on their way, and
  that no batch is empty, so that two batches are never the same one.
  `LifeInv` ties the counter to the number of batches, which makes "queue empty,
  counter at zero" mean that every number is posted. `CooldownHolds` has the
  cooldown end before the plan, before the timer and before a flush, in turn; it
  is what `CooldownKept` follows from. Lemmas on sequences carry the rest:
  `PrefixSuffix` (what popReplyBatchLocked cuts), `PutBack` (a batch before the
  queue), `AgedFrames` (time changes no number).
* **The refinement of `ReplyQueue`**: registering is Opens; a frame or a heartbeat
  that is numbered is Numbers; a message that Lark posts is Posts; every removal
  is Goes; everything else is a stutter. That a drain may take place is
  `LifeInv` after the step.
* **`Remote`**, `RemoteInv`: `SessionInv` says that a session without its own
  connection has its end on the way (a callback, a job of the holder of the mutex
  or a goroutine about to call back), however often its root is started; among
  what is on the way it names only what can no longer be lost (`EndIsDue`).
  `RouteInv` is about a root that is started once: no forgetConn is due for a
  connection that is registered (`ForgetIsDue`), so that no registration is taken
  away and a connection with callbacks has its session. `TaskInv` and `SendInv`
  relate the program counters of the three goroutines to the process; `ReasonInv`
  collects why a task may be stopped, from the event it waits in to the grace it
  has started or the error of a write it has reported, which gives
  `KillHasReason`; `LogInv` counts output: enqueued, held by copyOutput and unread
  make up what was written.
* **`Local`**, `LocalInv`: `TodoInv` fixes the shape of what the holder of the
  mutex has to do (events, then frames still to be offered, or an end and a
  close). `CountInv` counts output: printed, in the socket and due make up what
  the window has let pass, as long as the holder has not given up on the session
  (`InHand`). An exit frame passes the window behind all output, so that it is
  due, and then in the socket, only with all of it ahead (`ExitInv`).
  `ToldInv`, `ConnInv`, `StartInv`, `WindowInv` and `InterruptInv` say the rest.
* **`Events`**, `EventsInv`: the requests' part (`TokenProofs`) is that a second
  attempt that holds a token was granted it, and that a token that is cached,
  held or granted was issued. The source's part is that where handleFrame stands
  (`stage`) matches what the event was given to; the end of elarkd forgets the one
  and not the other.

Steps that only pass something on are lemmas of their own ("what a step leaves
alone"), so that every action is unfolded once for each part of an invariant that
it can disturb. TLC confirmed each inductive invariant on the instances of the
runs before it was proved.

### Only model-checked

* Liveness: `GapResolved`, `FramesGetPosted`, `CloseEnds`, `OpenRootAnswered`,
  `DeadCommandFreesSession`, `EndedSessionStopsCommand`, `PeerTimeoutNoticed`,
  `InterruptReachesRemote`, `MutexReleased`, `ElarkIsTold`, `StopCompletes`,
  `EventsHandled`. TLAPS does not reach fairness or ENABLED.
* The three disagreements: a proof cannot show that something is violated.

No module has a RECURSIVE operator. Induction over data is beyond the prover; the
sums over sequences that the counting needs are cardinalities of sets of places
in place of recursive counts.

## Not modelled

| part | why |
|---|---|
| frame codec | text conversions without a state; every module starts from frames |
| HTTP of the Lark client, the websocket's bytes and pings, terminal modes and sizes, JSON of IPC messages | I/O and formatting; what can come of them is a choice in the modules |
| status, session list, doctor, config, version | read only, or checks of an installation |
| install, uninstall, start and stop of the service | files and commands of launchd and systemd; only the restart they arrange is in `Events`. Installing for the other mode (user, `--system`) writes over the install record, so that a stop without a flag controls the second service only |
| the end of `Run` of the remote daemon | the process ends with it |
| a second registration of a connection id, in `Outbound` | it happens when a root message comes in twice; `Remote` has it, with both steps of a removal |
| a local and a remote end over two streams | `Local` has a remote that answers from a list, `Remote` a client that says anything: each is more general than the other end, except that what one misses cannot be told from the other's state |

## Plan

Done: `RecvWindow`, `Stream`, `OrderedStream`, `Outbound`, `ReplyQueue`, `Remote`,
`Ipc`, `Local`, `Token`, `Events`, and a module of proofs for each machine. Next:

1. What the two daemons promise to the processes at the ends, as abstract
   specifications beside `ReplyQueue`: the life of one command (started, output,
   one end) for `Remote`, the report to one elark for `Local`, both by the
   invariants that are proved already.
2. The opening of a root message as a part of `ReplyQueue`: an answer to each
   caller, "ok" only for a root that was posted.
3. `GapMatches` and `InOrderOnce` for the window inside `Local`, so that `Stream`
   and `Local` share their lemmas about `RecvWindow`.
