------------------------------- MODULE Remote -------------------------------
(***************************************************************************)
(* The executing side: the remote half of session.Manager (session.go) and *)
(* the tasks of RemoteDaemon (daemon/remote.go) with the process each one  *)
(* runs (remoteexec/exec.go, or pty/pty.go with a terminal).               *)
(*                                                                         *)
(* Manager.mu is held while events are delivered to a task, and delivering *)
(* can block.  todo is what its holder still has to do: the mutex is free  *)
(* when todo is empty.  Everything else here that needs the mutex is one   *)
(* step, taken when it is free.                                            *)
(*                                                                         *)
(* A message is the list of things its frames make the session do, in the  *)
(* order of the receive window (module Stream): a stdin or a signal frame, *)
(* one that cannot be decoded, an interrupt (a close with the client's     *)
(* interrupt as its reason), a close, an error, or the gap timeout.  The   *)
(* outbound manager is what module Outbound shows of it: a connection that *)
(* is to be closed drains in the end, and any connection can be dropped.   *)
(* It removes one in two steps, under two mutexes of its own, so that a    *)
(* start of the same root can come between them.                           *)
(* One output stream stands for stdout and stderr, a resize is handled     *)
(* like a signal.                                                          *)
(***************************************************************************)
EXTENDS Integers, Sequences, FiniteSets, SequencesExt

CONSTANTS
    Conns,        \* root message ids
    Starts,       \* root messages that come in, repeated ones included
    Roots,        \* which root message id each of them can have
    Messages,     \* what a reply message of the client can hold
    MaxSessions,  \* exec.max_sessions
    EventBuffer,  \* defaultRemoteEventBuffer
    PipeSize,     \* writes that fit the stdin pipe of a process
    ReadsStdin,   \* whether the processes read their stdin
    Ptys,         \* whether they run in a terminal (internal/pty) or have pipes
    MaxInputs,    \* bound: reply messages
    MaxGaps,      \* bound: gap timeouts that the ticker finds
    MaxOutput,    \* bound: chunks of output per process
    NoTask

ASSUME RemoteAssumption ==
    /\ IsFiniteSet(Conns) /\ IsFiniteSet(Starts)
    /\ Roots \subseteq [Starts -> Conns]
    /\ MaxSessions \in Nat \ {0} /\ EventBuffer \in Nat \ {0} /\ PipeSize \in Nat \ {0}
    /\ ReadsStdin \in BOOLEAN /\ Ptys \subseteq BOOLEAN
    /\ MaxInputs \in Nat /\ MaxGaps \in Nat /\ MaxOutput \in Nat
    /\ NoTask \notin Starts

VARIABLES
    session,    \* remoteByConn: the task that receives the events, or NoTask
    conn,       \* outbound connection: whether Manager.conns has it, its state
                \* in chatQueue.conns, the task of its callbacks and its start
    log,        \* history: the frames that were enqueued for a root message
    callbacks,  \* connections that are removed, by the start that opened them:
                \* forgetConn, OnDrained and OnDrop that have not run yet
    todo,       \* what the holder of Manager.mu still has to do
    silent,     \* the peer has said nothing for longer than its timeout
    task,       \* remoteTask and its goroutines
    send,       \* calls of SendRemote... by the goroutines of a task
    proc,       \* the process of a task
    ended,      \* history: the event that ended the session of a task
    inputs,     \* history: reply messages so far
    gaps        \* history: gap timeouts so far

vars == <<session, conn, log, callbacks, todo, silent, task, send, proc, ended, inputs, gaps>>

Inputs == {"stdin", "signal"}
Endings == {"interrupt", "close", "error", "peer_timeout", "dropped"}
Events == Inputs \union Endings \union {"gap"}
Malformed == "malformed"   \* a frame whose payload cannot be decoded
GapSteps == {"gap_error", "gap_mark", "gap_drained"}

\* The frames of a reply message are decoded to these.
Frames == Inputs \union {"interrupt", "close", "error", "gap", Malformed}

ASSUME MessagesAssumption == Messages \subseteq Seq(Frames)

Agents == {"run", "ctl", "copy"}

ConnOf(t) == task[t].connID
Free == todo = << >>
Sessions == {c \in Conns : session[c] # NoTask}

NewTask(c) == [connID |-> c, events |-> << >>, closed |-> FALSE, ctx |-> FALSE, run |-> "new",
               ctl |-> "none", copy |-> "none", failed |-> FALSE, grace |-> FALSE, result |-> "none"]
NewProc == [state |-> "none", pty |-> FALSE, stdin |-> 0, unread |-> 0, written |-> 0,
            sigint |-> FALSE, killed |-> FALSE]

\* What remoteexec starts, with three pipes, and what pty starts, with a terminal.
PipeProcess == [NewProc EXCEPT !.state = "running"]
PtyProcess == [PipeProcess EXCEPT !.pty = TRUE]

\* A connection that start t registers, with callbacks for owner or without.
Registered(t, state, owner) == [routed |-> TRUE, state |-> state, owner |-> owner, start |-> t]
NoConn == [routed |-> FALSE, state |-> "none", owner |-> NoTask, start |-> NoTask]
\* Its entry in chatQueue.conns is gone.
Removed(k) == [k EXCEPT !.state = "none", !.owner = NoTask]
\* Enqueue and MarkCloseAfterDrained find it.
Found(c) == conn[c].routed /\ conn[c].state # "none"
Idle == [stage |-> "idle", frame |-> "none"]

Init ==
    /\ session = [c \in Conns |-> NoTask]
    /\ conn = [c \in Conns |-> NoConn]
    /\ log = [c \in Conns |-> << >>]
    /\ callbacks = {}
    /\ todo = << >>
    /\ silent = [t \in Starts |-> FALSE]
    /\ \E root \in Roots : task = [t \in Starts |-> NewTask(root[t])]
    /\ send = [t \in Starts |-> [a \in Agents |-> Idle]]
    /\ proc = [t \in Starts |-> NewProc]
    /\ ended = [t \in Starts |-> "none"]
    /\ inputs = 0
    /\ gaps = 0

-----------------------------------------------------------------------------
(***************************************************************************)
(* Messages of the client, the ticker and the outbound manager.            *)
(***************************************************************************)

\* HandleMessageEvent and AcceptRemoteStart for a root message.
AcceptStart(t) ==
    LET c == ConnOf(t)
    IN  /\ Free
        /\ task[t].run = "new"
        /\ session[c] = NoTask
        /\ Cardinality(Sessions) < MaxSessions
        /\ ~conn[c].routed
        /\ conn' = [conn EXCEPT ![c] = Registered(t, "open", t)]
        /\ log' = [log EXCEPT ![c] = Append(@, "start_ack")]
        /\ session' = [session EXCEPT ![c] = t]
        /\ task' = [task EXCEPT ![t].run = "snapshot"]
        /\ UNCHANGED <<callbacks, todo, silent, send, proc, ended, inputs, gaps>>

\* The session limit is answered with an error frame by replyRemoteError.
RefuseStart(t) ==
    LET c == ConnOf(t)
    IN  /\ Free
        /\ task[t].run = "new"
        /\ session[c] = NoTask
        /\ Cardinality(Sessions) >= MaxSessions
        /\ ~conn[c].routed
        /\ conn' = [conn EXCEPT ![c] = Registered(t, "closing", NoTask)]
        /\ log' = [log EXCEPT ![c] = Append(@, "error")]
        /\ task' = [task EXCEPT ![t].run = "done"]
        /\ UNCHANGED <<session, callbacks, todo, silent, send, proc, ended, inputs, gaps>>

\* A root message whose id has a session, or is registered still, is ignored.
IgnoreStart(t) ==
    /\ Free
    /\ task[t].run = "new"
    /\ session[ConnOf(t)] # NoTask \/ conn[ConnOf(t)].routed
    /\ task' = [task EXCEPT ![t].run = "done"]
    /\ UNCHANGED <<session, conn, log, callbacks, todo, silent, send, proc, ended, inputs, gaps>>

Jobs(t, whats) == [i \in 1 .. Len(whats) |-> [task |-> t, what |-> whats[i]]]

\* ReceiveRemote; a message for a session that has ended is ignored.
ReceiveRemote(c, msg) ==
    /\ Free
    /\ session[c] # NoTask
    /\ inputs < MaxInputs
    /\ inputs' = inputs + 1
    /\ silent' = [silent EXCEPT ![session[c]] = FALSE]
    /\ todo' = Jobs(session[c], msg)
    /\ UNCHANGED <<session, conn, log, callbacks, task, send, proc, ended, gaps>>

PeerFallsSilent(c) ==
    /\ session[c] # NoTask
    /\ silent' = [silent EXCEPT ![session[c]] = TRUE]
    /\ UNCHANGED <<session, conn, log, callbacks, todo, task, send, proc, ended, inputs, gaps>>

\* Mutant: the ticker looks for gaps only.
TickGapsOnly ==
    /\ Free
    /\ \E gap \in SUBSET {session[c] : c \in Sessions} :
          /\ gaps + Cardinality(gap) <= MaxGaps
          /\ gaps' = gaps + Cardinality(gap)
          /\ todo' = SetToSeq({[task |-> t, what |-> "gap"] : t \in gap})
    /\ UNCHANGED <<session, conn, log, callbacks, silent, task, send, proc, ended, inputs>>

\* Tick: the gap timeout of a session goes before the timeout of its peer.
Tick ==
    LET live == {session[c] : c \in Sessions}
    IN  /\ Free
        /\ \E gap \in SUBSET live :
              /\ gaps + Cardinality(gap) <= MaxGaps
              /\ gaps' = gaps + Cardinality(gap)
              /\ LET timedOut == {t \in live \ gap : silent[t]}
                 IN  todo' = SetToSeq({[task |-> t, what |-> "gap"] : t \in gap} \union
                                      {[task |-> t, what |-> "peer_timeout"] : t \in timedOut})
        /\ UNCHANGED <<session, conn, log, callbacks, silent, task, send, proc, ended, inputs>>

\* The outbound manager removes a connection, and will forget its id and then
\* call back.  A refused connection has no callback.
OutboundRemoves(c, why) ==
    /\ conn[c].state \in IF why = "drained" THEN {"closing"} ELSE {"open", "closing"}
    /\ conn' = [conn EXCEPT ![c] = Removed(@)]
    /\ callbacks' = callbacks \union
          {[task |-> conn[c].start, forgotten |-> FALSE,
            why |-> IF conn[c].owner = NoTask THEN "refused" ELSE why]}
    /\ UNCHANGED <<session, log, todo, silent, task, send, proc, ended, inputs, gaps>>

\* forgetConn goes by the id, whichever registration it meets.
Forgotten(c) == [conn EXCEPT ![c].routed = FALSE]

\* What is left of a removal when its forgetConn has run.
Forgets(cb) ==
    /\ cb \in callbacks
    /\ ~cb.forgotten
    /\ callbacks' = (callbacks \ {cb}) \union
          (IF cb.why = "refused" THEN {} ELSE {[cb EXCEPT !.forgotten = TRUE]})

OutboundForgets(cb) ==
    /\ Forgets(cb)
    /\ conn' = Forgotten(ConnOf(cb.task))
    /\ UNCHANGED <<session, log, todo, silent, task, send, proc, ended, inputs, gaps>>

\* DropConnection, called with Manager.mu held: a connection that is not in
\* Manager.conns is left as it is.
DropConnection(c) == IF conn[c].routed THEN [conn EXCEPT ![c] = NoConn] ELSE conn

\* closeRemoteLocked, as a part of a step: the session of c, if there is one,
\* goes, its task is closed and its connection dropped.
closeRemoteLocked(c, why) ==
    LET t == session[c]
    IN  IF t = NoTask THEN UNCHANGED <<session, conn, task, ended>>
        ELSE /\ session' = [session EXCEPT ![c] = NoTask]
             /\ conn' = DropConnection(c)
             /\ task' = [task EXCEPT ![t].closed = TRUE]
             /\ ended' = [ended EXCEPT ![t] = why]

\* CloseRemoteConn, called as OnDrained.
CallDrained(cb) ==
    /\ Free
    /\ cb \in callbacks
    /\ cb.why = "drained" /\ cb.forgotten
    /\ callbacks' = callbacks \ {cb}
    /\ closeRemoteLocked(ConnOf(cb.task), "drained")
    /\ UNCHANGED <<log, todo, silent, send, proc, inputs, gaps>>

\* handleRemoteOutboundDrop
CallDropped(cb) ==
    LET t == session[ConnOf(cb.task)]
    IN  /\ Free
        /\ cb \in callbacks
        /\ cb.why = "dropped" /\ cb.forgotten
        /\ callbacks' = callbacks \ {cb}
        /\ todo' = IF t = NoTask THEN << >> ELSE Jobs(t, <<"dropped">>)
        /\ UNCHANGED <<session, conn, log, silent, task, send, proc, ended, inputs, gaps>>

-----------------------------------------------------------------------------
(***************************************************************************)
(* The holder of Manager.mu.                                               *)
(***************************************************************************)

\* Mutant: the events queue up without a limit.
DeliverUnbounded(t, what) ==
    task' = [task EXCEPT ![t].events = Append(@, what)]

\* remoteTask.Deliver: the event is queued, or the task is closed; when both
\* are possible either can happen, when neither is, Deliver blocks.
Deliver(t, what) ==
    \/ /\ Len(task[t].events) < EventBuffer
       /\ task' = [task EXCEPT ![t].events = Append(@, what)]
    \/ task[t].closed /\ UNCHANGED task

\* What is left when nothing more is done for task t, whose jobs are the first.
WithoutTask(t) ==
    SubSeq(todo, Cardinality({i \in 1 .. Len(todo) : todo[i].task = t}) + 1, Len(todo))

\* A stdin or a signal frame; an error of Deliver ends the message.
HandleInput ==
    LET t == todo[1].task
        what == todo[1].what
    IN  /\ ~Free
        /\ what \in Inputs
        /\ Deliver(t, what)
        /\ todo' = IF task' = task THEN WithoutTask(t) ELSE Tail(todo)
        /\ UNCHANGED <<session, conn, log, callbacks, silent, send, proc, ended, inputs, gaps>>

\* A payload that cannot be decoded ends the message, though the window has
\* moved on to its last frame.
HandleMalformed ==
    /\ ~Free
    /\ todo[1].what = Malformed
    /\ todo' = WithoutTask(todo[1].task)
    /\ UNCHANGED <<session, conn, log, callbacks, silent, task, send, proc, ended, inputs, gaps>>

\* Mutant: the connection of a session that ends is not dropped.
EndingKeepsConnection ==
    LET t == todo[1].task
        c == ConnOf(t)
        what == todo[1].what
    IN  /\ ~Free
        /\ what \in Endings
        /\ \/ /\ Len(task[t].events) < EventBuffer
              /\ task' = [task EXCEPT ![t].events = Append(@, what), ![t].closed = TRUE]
           \/ task[t].closed /\ UNCHANGED task
        /\ session' = [session EXCEPT ![c] = NoTask]
        /\ ended' = [ended EXCEPT ![t] = what]
        /\ todo' = WithoutTask(t)
        /\ UNCHANGED <<conn, log, callbacks, silent, send, proc, inputs, gaps>>

\* An event that ends the session, whether or not it could be delivered.
HandleEnding ==
    LET t == todo[1].task
        c == ConnOf(t)
        what == todo[1].what
    IN  /\ ~Free
        /\ what \in Endings
        /\ \/ /\ Len(task[t].events) < EventBuffer
              /\ task' = [task EXCEPT ![t].events = Append(@, what), ![t].closed = TRUE]
           \/ task[t].closed /\ UNCHANGED task
        /\ session' = [session EXCEPT ![c] = NoTask]
        /\ conn' = DropConnection(c)
        /\ ended' = [ended EXCEPT ![t] = what]
        /\ todo' = WithoutTask(t)
        /\ UNCHANGED <<log, callbacks, silent, send, proc, inputs, gaps>>

\* handleRemoteSequenceErrorLocked in three steps: the event, the error frame
\* and MarkCloseAfterDrained.  In between the frame can have been posted.
HandleGap ==
    LET t == todo[1].task
    IN  /\ ~Free
        /\ todo[1].what = "gap"
        /\ Deliver(t, "gap")
        /\ todo' = Jobs(t, <<"gap_error">>) \o WithoutTask(t)
        /\ UNCHANGED <<session, conn, log, callbacks, silent, send, proc, ended, inputs, gaps>>

GapError ==
    LET c == ConnOf(todo[1].task)
    IN  /\ ~Free
        /\ todo[1].what = "gap_error"
        /\ log' = IF Found(c) THEN [log EXCEPT ![c] = Append(@, "error")] ELSE log
        /\ todo' = Jobs(todo[1].task, <<"gap_mark">>) \o Tail(todo)
        /\ UNCHANGED <<session, conn, callbacks, silent, task, send, proc, ended, inputs, gaps>>

\* A connection that has drained calls back from MarkCloseAfterDrained: then
\* CloseRemoteConn waits for the mutex that its own goroutine holds.
GapMark ==
    LET c == ConnOf(todo[1].task)
    IN  /\ ~Free
        /\ todo[1].what = "gap_mark"
        /\ \/ /\ ~Found(c)
              /\ UNCHANGED conn
              /\ todo' = Tail(todo)
           \/ /\ Found(c)
              /\ conn' = [conn EXCEPT ![c].state = "closing"]
              /\ todo' = Tail(todo)
           \/ /\ Found(c)
              /\ conn' = [conn EXCEPT ![c] = NoConn]
              /\ todo' = Jobs(todo[1].task, <<"gap_drained">>) \o Tail(todo)
        /\ UNCHANGED <<session, log, callbacks, silent, task, send, proc, ended, inputs, gaps>>

-----------------------------------------------------------------------------
(***************************************************************************)
(* sendRemoteFrame: the session is looked up under the mutex, the frame is *)
(* enqueued and the connection marked after it has been released.          *)
(***************************************************************************)
Say(t, a, frame) == send' = [send EXCEPT ![t][a] = [stage |-> "check", frame |-> frame]]
Said(t, a) == send[t][a].stage = "idle"
Stage(t, a, stage) ==
    send' = [send EXCEPT ![t][a] = IF stage = "idle" THEN Idle ELSE [@ EXCEPT !.stage = stage]]

SendCheck(t, a) ==
    /\ Free
    /\ send[t][a].stage = "check"
    /\ Stage(t, a, IF session[ConnOf(t)] = NoTask THEN "idle" ELSE "enqueue")
    /\ UNCHANGED <<session, conn, log, callbacks, todo, silent, task, proc, ended, inputs, gaps>>

\* Mutant: the connection is never marked, whatever the frame.
SendEnqueueOnly(t, a) ==
    LET c == ConnOf(t)
        frame == send[t][a].frame
    IN  /\ send[t][a].stage = "enqueue"
        /\ Stage(t, a, "idle")
        /\ log' = IF Found(c) THEN [log EXCEPT ![c] = Append(@, frame)] ELSE log
        /\ UNCHANGED <<session, conn, callbacks, todo, silent, task, proc, ended, inputs, gaps>>

\* A connection that is missing is an error, on which copyOutput stops unless
\* the task's context is done.
SendEnqueue(t, a) ==
    LET c == ConnOf(t)
        frame == send[t][a].frame
    IN  /\ send[t][a].stage = "enqueue"
        /\ IF Found(c)
           THEN /\ log' = [log EXCEPT ![c] = Append(@, frame)]
                /\ Stage(t, a, IF frame = "output" THEN "idle" ELSE "mark")
                /\ UNCHANGED task
           ELSE /\ Stage(t, a, "idle")
                /\ task' = IF a = "copy" /\ ~task[t].ctx THEN [task EXCEPT ![t].failed = TRUE] ELSE task
                /\ UNCHANGED log
        /\ UNCHANGED <<session, conn, callbacks, todo, silent, proc, ended, inputs, gaps>>

\* A connection that has drained is removed here and now.
SendMark(t, a) ==
    LET c == ConnOf(t)
    IN  /\ send[t][a].stage = "mark"
        /\ \/ /\ ~Found(c)
              /\ UNCHANGED conn
              /\ Stage(t, a, "idle")
           \/ /\ Found(c)
              /\ conn' = [conn EXCEPT ![c].state = "closing"]
              /\ Stage(t, a, "idle")
           \/ /\ Found(c)
              /\ conn' = [conn EXCEPT ![c] = Removed(@)]
              /\ Stage(t, a, IF conn[c].owner = NoTask THEN "forget_refused" ELSE "forget")
        /\ UNCHANGED <<session, log, callbacks, todo, silent, task, proc, ended, inputs, gaps>>

\* forgetConn is next, and with "forget" OnDrained.
SendForgets(t, a) ==
    /\ send[t][a].stage \in {"forget", "forget_refused"}
    /\ Stage(t, a, IF send[t][a].stage = "forget" THEN "drained" ELSE "idle")

SendForget(t, a) ==
    /\ SendForgets(t, a)
    /\ conn' = Forgotten(ConnOf(t))
    /\ UNCHANGED <<session, log, callbacks, todo, silent, task, proc, ended, inputs, gaps>>

\* Mutant: the callback only ends a session that is still its own task's.
SendDrainedOwn(t, a) ==
    /\ Free
    /\ send[t][a].stage = "drained"
    /\ IF session[ConnOf(t)] = t THEN closeRemoteLocked(ConnOf(t), "drained")
       ELSE UNCHANGED <<session, conn, task, ended>>
    /\ Stage(t, a, "idle")
    /\ UNCHANGED <<log, callbacks, todo, silent, proc, inputs, gaps>>

\* OnDrained goes by the id as well.
SendDrained(t, a) ==
    /\ Free
    /\ send[t][a].stage = "drained"
    /\ closeRemoteLocked(ConnOf(t), "drained")
    /\ Stage(t, a, "idle")
    /\ UNCHANGED <<log, callbacks, todo, silent, proc, inputs, gaps>>

Send(t, a) ==
    SendCheck(t, a) \/ SendEnqueue(t, a) \/ SendMark(t, a) \/ SendForget(t, a) \/ SendDrained(t, a)

\* A start whose new registration is forgotten before its first frame or, when
\* it is refused, before its connection is marked: forgetConn was due for an
\* earlier connection of the same root.  There is an error and no session, and
\* DropConnection finds nothing to drop.
StartOvertaken(t) ==
    LET c == ConnOf(t)
        room == Cardinality(Sessions) < MaxSessions
    IN  /\ Free
        /\ task[t].run = "new"
        /\ session[c] = NoTask
        /\ ~conn[c].routed
        /\ \/ \E cb \in callbacks : ConnOf(cb.task) = c /\ Forgets(cb) /\ UNCHANGED send
           \/ \E s \in Starts, a \in Agents : ConnOf(s) = c /\ SendForgets(s, a) /\ UNCHANGED callbacks
        /\ conn' = [conn EXCEPT ![c] = [routed |-> FALSE, state |-> "open",
                                        owner |-> IF room THEN t ELSE NoTask, start |-> t]]
        /\ log' \in {log, IF room THEN log ELSE [log EXCEPT ![c] = Append(@, "error")]}
        /\ task' = [task EXCEPT ![t].run = "done"]
        /\ UNCHANGED <<session, todo, silent, proc, ended, inputs, gaps>>

-----------------------------------------------------------------------------
(***************************************************************************)
(* remoteTask.run                                                          *)
(***************************************************************************)
Finish(t) == task' = [task EXCEPT ![t].run = "done", ![t].closed = TRUE, ![t].ctx = TRUE]

RunSnapshot(t) ==
    /\ Free
    /\ task[t].run = "snapshot"
    /\ IF session[ConnOf(t)] = NoTask THEN Finish(t)
       ELSE task' = [task EXCEPT ![t].run = "start"]
    /\ UNCHANGED <<session, conn, log, callbacks, todo, silent, send, proc, ended, inputs, gaps>>

RunStart(t) ==
    /\ task[t].run = "start"
    /\ \E pty \in Ptys : proc' = [proc EXCEPT ![t] = IF pty THEN PtyProcess ELSE PipeProcess]
    /\ task' = [task EXCEPT ![t].run = "wait", ![t].ctl = "poll", ![t].copy = "read"]
    /\ UNCHANGED <<session, conn, log, callbacks, todo, silent, send, ended, inputs, gaps>>

RunStartFails(t) ==
    /\ task[t].run = "start"
    /\ task' = [task EXCEPT ![t].run = "reply"]
    /\ Say(t, "run", "error")
    /\ UNCHANGED <<session, conn, log, callbacks, todo, silent, proc, ended, inputs, gaps>>

\* proc.Wait has returned: close(done) and cancel().
RunWaited(t) ==
    /\ task[t].run = "wait"
    /\ proc[t].state = "reaped"
    /\ task' = [task EXCEPT ![t].run = "copying", ![t].ctx = TRUE]
    /\ UNCHANGED <<session, conn, log, callbacks, todo, silent, send, proc, ended, inputs, gaps>>

\* Mutant: the result is reported without waiting for the output.
RunNotCopied(t) ==
    /\ task[t].run = "copying"
    /\ IF task[t].result = "canceled"
       THEN Finish(t) /\ UNCHANGED send
       ELSE /\ task' = [task EXCEPT ![t].run = "reply"]
            /\ Say(t, "run", IF task[t].failed THEN "error" ELSE "exit")
    /\ UNCHANGED <<session, conn, log, callbacks, todo, silent, proc, ended, inputs, gaps>>

\* wg.Wait has returned: the result is reported, unless it was cancelled.
RunCopied(t) ==
    /\ task[t].run = "copying"
    /\ task[t].copy = "done"
    /\ IF task[t].result = "canceled"
       THEN Finish(t) /\ UNCHANGED send
       ELSE /\ task' = [task EXCEPT ![t].run = "reply"]
            /\ Say(t, "run", IF task[t].failed THEN "error" ELSE "exit")
    /\ UNCHANGED <<session, conn, log, callbacks, todo, silent, proc, ended, inputs, gaps>>

RunReplied(t) ==
    /\ task[t].run = "reply"
    /\ Said(t, "run")
    /\ Finish(t)
    /\ UNCHANGED <<session, conn, log, callbacks, todo, silent, send, proc, ended, inputs, gaps>>

Run(t) ==
    \/ RunSnapshot(t) \/ RunStart(t) \/ RunStartFails(t) \/ RunWaited(t) \/ RunCopied(t)
    \/ RunReplied(t)

-----------------------------------------------------------------------------
(***************************************************************************)
(* remoteTask.controlLoop                                                  *)
(***************************************************************************)
Killed(p) == IF p.state = "running" THEN [p EXCEPT !.state = "exited", !.killed = TRUE] ELSE p

\* cancel() and proc.Kill().
Stop(t) ==
    /\ task' = [task EXCEPT ![t].ctl = "done", ![t].ctx = TRUE]
    /\ proc' = [proc EXCEPT ![t] = Killed(@)]

\* Mutant: a signal stops the command as a close does.
CtlSignalStops(t) ==
    LET what == Head(task[t].events)
        rest == Tail(task[t].events)
    IN  /\ task[t].ctl \in {"poll", "select"}
        /\ task[t].events # << >>
        /\ \/ /\ what = "stdin"
              /\ task' = [task EXCEPT ![t].events = rest, ![t].ctl = "write"]
              /\ UNCHANGED proc
           \/ /\ what # "stdin"
              /\ task' = [task EXCEPT ![t].events = rest, ![t].ctl = "done", ![t].ctx = TRUE]
              /\ proc' = [proc EXCEPT ![t] = Killed(@)]
        /\ UNCHANGED <<session, conn, log, callbacks, todo, silent, send, ended, inputs, gaps>>

\* handleControlEvent of the next event.
CtlEvent(t) ==
    LET what == Head(task[t].events)
        rest == Tail(task[t].events)
    IN  /\ task[t].ctl \in {"poll", "select"}
        /\ task[t].events # << >>
        /\ \/ /\ what = "stdin"
              /\ task' = [task EXCEPT ![t].events = rest, ![t].ctl = "write"]
              /\ UNCHANGED proc
           \/ /\ what = "signal"
              /\ task' = [task EXCEPT ![t].events = rest, ![t].ctl = "poll"]
              /\ UNCHANGED proc
           \/ /\ what = "interrupt"
              /\ task' = [task EXCEPT ![t].events = rest, ![t].ctl = "done", ![t].grace = TRUE]
              /\ proc' = [proc EXCEPT ![t].sigint = TRUE]
           \/ /\ what \in Events \ (Inputs \union {"interrupt"})
              /\ task' = [task EXCEPT ![t].events = rest, ![t].ctl = "done", ![t].ctx = TRUE]
              /\ proc' = [proc EXCEPT ![t] = Killed(@)]
        /\ UNCHANGED <<session, conn, log, callbacks, todo, silent, send, ended, inputs, gaps>>

\* The first select finds no event.
CtlNoEvent(t) ==
    /\ task[t].ctl = "poll"
    /\ task[t].events = << >>
    /\ task' = [task EXCEPT ![t].ctl = "select"]
    /\ UNCHANGED <<session, conn, log, callbacks, todo, silent, send, proc, ended, inputs, gaps>>

\* The second select: done, ctx.Done or closeCh, or an event (CtlEvent), at
\* random when several are ready.
CtlDone(t) ==
    /\ task[t].ctl = "select"
    /\ task[t].run \in {"copying", "reply", "done"}
    /\ task' = [task EXCEPT ![t].ctl = "done"]
    /\ UNCHANGED <<session, conn, log, callbacks, todo, silent, send, proc, ended, inputs, gaps>>

\* Mutant: the loop ends without stopping the command.
CtlLeaves(t) ==
    /\ task[t].ctl = "select"
    /\ task[t].ctx \/ task[t].closed
    /\ task' = [task EXCEPT ![t].ctl = "done"]
    /\ UNCHANGED <<session, conn, log, callbacks, todo, silent, send, proc, ended, inputs, gaps>>

CtlClosed(t) ==
    /\ task[t].ctl = "select"
    /\ task[t].ctx \/ task[t].closed
    /\ Stop(t)
    /\ UNCHANGED <<session, conn, log, callbacks, todo, silent, send, ended, inputs, gaps>>

\* Writing to the stdin pipe, or to the terminal, blocks while it is full.  A
\* terminal can take what nobody reads any more.
CtlWrites(t) ==
    /\ task[t].ctl = "write"
    /\ proc[t].stdin < PipeSize
    /\ \/ proc[t].state = "running" /\ proc' = [proc EXCEPT ![t].stdin = @ + 1]
       \/ proc[t].pty /\ proc[t].state # "running" /\ UNCHANGED proc
    /\ task' = [task EXCEPT ![t].ctl = "poll"]
    /\ UNCHANGED <<session, conn, log, callbacks, todo, silent, send, ended, inputs, gaps>>

\* The process has gone, or it has closed its end of the pipe and runs on.
CtlWriteFails(t) ==
    /\ task[t].ctl = "write"
    /\ proc[t].state \in {"exited", "reaped"} \/ ~proc[t].pty
    /\ task' = [task EXCEPT ![t].ctl = "error"]
    /\ Say(t, "ctl", "error")
    /\ UNCHANGED <<session, conn, log, callbacks, todo, silent, proc, ended, inputs, gaps>>

CtlFailed(t) ==
    /\ task[t].ctl = "error"
    /\ Said(t, "ctl")
    /\ Stop(t)
    /\ UNCHANGED <<session, conn, log, callbacks, todo, silent, send, ended, inputs, gaps>>

Ctl(t) ==
    \/ CtlEvent(t) \/ CtlNoEvent(t) \/ CtlDone(t) \/ CtlClosed(t) \/ CtlWrites(t)
    \/ CtlWriteFails(t) \/ CtlFailed(t)

-----------------------------------------------------------------------------
(***************************************************************************)
(* remoteTask.copyOutput                                                   *)
(***************************************************************************)
CopyReads(t) ==
    /\ task[t].copy = "read"
    /\ proc[t].unread > 0
    /\ proc' = [proc EXCEPT ![t].unread = @ - 1]
    /\ task' = [task EXCEPT ![t].copy = "send"]
    /\ Say(t, "copy", "output")
    /\ UNCHANGED <<session, conn, log, callbacks, todo, silent, ended, inputs, gaps>>

CopySent(t) ==
    /\ task[t].copy = "send"
    /\ Said(t, "copy")
    /\ task' = [task EXCEPT ![t].copy = IF task[t].failed THEN "done" ELSE "read"]
    /\ UNCHANGED <<session, conn, log, callbacks, todo, silent, send, proc, ended, inputs, gaps>>

\* The end of the output, or the pipe was closed by Wait.  The end of a
\* terminal reads as EIO on Linux, which remoteOutputEOF does not know: it is
\* an error, unless run() has cancelled the context already.
CopyEnds(t) ==
    /\ task[t].copy = "read"
    /\ proc[t].unread = 0
    /\ proc[t].state \in {"exited", "reaped"}
    /\ \E failed \in {FALSE, proc[t].pty /\ ~task[t].ctx} :
          task' = [task EXCEPT ![t].copy = "done", ![t].failed = @ \/ failed]
    /\ UNCHANGED <<session, conn, log, callbacks, todo, silent, send, proc, ended, inputs, gaps>>

Copy(t) == CopyReads(t) \/ CopySent(t) \/ CopyEnds(t)

-----------------------------------------------------------------------------
(***************************************************************************)
(* The process and the goroutines of remoteexec that watch it.             *)
(***************************************************************************)
ProcReads(t) ==
    /\ ReadsStdin
    /\ proc[t].state = "running"
    /\ proc[t].stdin > 0
    /\ proc' = [proc EXCEPT ![t].stdin = @ - 1]
    /\ UNCHANGED <<session, conn, log, callbacks, todo, silent, task, send, ended, inputs, gaps>>

ProcWrites(t) ==
    /\ proc[t].state = "running"
    /\ proc[t].written < MaxOutput
    /\ proc' = [proc EXCEPT ![t].written = @ + 1, ![t].unread = @ + 1]
    /\ UNCHANGED <<session, conn, log, callbacks, todo, silent, task, send, ended, inputs, gaps>>

ProcExits(t) ==
    /\ proc[t].state = "running"
    /\ proc' = [proc EXCEPT ![t].state = "exited"]
    /\ UNCHANGED <<session, conn, log, callbacks, todo, silent, task, send, ended, inputs, gaps>>

\* Session.cancel when the context is done, and killAfterGrace.
KillProc(t) ==
    /\ task[t].ctx \/ task[t].grace
    /\ proc[t].state = "running"
    /\ proc' = [proc EXCEPT ![t] = Killed(@)]
    /\ UNCHANGED <<session, conn, log, callbacks, todo, silent, task, send, ended, inputs, gaps>>

\* classifyWait calls a failure cancelled when the context is done by then; a
\* command that was not killed can have failed or not.
Results(t) ==
    IF ~task[t].ctx THEN {"exit"}
    ELSE IF proc[t].killed THEN {"canceled"} ELSE {"exit", "canceled"}

\* Mutant: the terminal is closed with what is unread, as the pipes are.
ReapCloses(t) ==
    /\ proc[t].state = "exited"
    /\ proc' = [proc EXCEPT ![t].state = "reaped", ![t].unread = 0]
    /\ \E result \in Results(t) : task' = [task EXCEPT ![t].result = result]
    /\ UNCHANGED <<session, conn, log, callbacks, todo, silent, send, ended, inputs, gaps>>

\* cmd.Wait closes the pipes, whatever is unread; a terminal stays open.
Reap(t) ==
    /\ proc[t].state = "exited"
    /\ proc' = [proc EXCEPT ![t].state = "reaped", ![t].unread = IF proc[t].pty THEN @ ELSE 0]
    /\ \E result \in Results(t) : task' = [task EXCEPT ![t].result = result]
    /\ UNCHANGED <<session, conn, log, callbacks, todo, silent, send, ended, inputs, gaps>>

-----------------------------------------------------------------------------
Holder == HandleInput \/ HandleMalformed \/ HandleEnding \/ HandleGap \/ GapError \/ GapMark

Callback == \E cb \in callbacks : OutboundForgets(cb) \/ CallDrained(cb) \/ CallDropped(cb)

Environment ==
    \/ \E t \in Starts : AcceptStart(t) \/ RefuseStart(t) \/ IgnoreStart(t) \/ StartOvertaken(t)
    \/ \E c \in Conns : \/ \E msg \in Messages : ReceiveRemote(c, msg)
                        \/ PeerFallsSilent(c)
                        \/ OutboundRemoves(c, "dropped")
    \/ \E t \in Starts : ProcWrites(t) \/ ProcExits(t)

Next ==
    \/ Environment
    \/ Tick
    \/ Holder
    \/ Callback
    \/ \E c \in Conns : OutboundRemoves(c, "drained")
    \/ \E t \in Starts : \/ Run(t) \/ Ctl(t) \/ Copy(t)
                         \/ \E a \in Agents : Send(t, a)
                         \/ ProcReads(t) \/ KillProc(t) \/ Reap(t)

Spec == Init /\ [][Next]_vars

\* Goroutines run on, the ticker ticks and a process that reads its stdin does
\* so.  A connection that is to be closed drains: that is so if Lark answers
\* the requests for its frames (CloseEnds of module Outbound), which nothing in
\* the code can enforce.  The client, the process and failures owe nothing.
FairSpec ==
    /\ Spec
    /\ WF_vars(Tick)
    /\ WF_vars(Holder)
    /\ WF_vars(Callback)
    /\ \A c \in Conns : WF_vars(OutboundRemoves(c, "drained"))
    /\ \A t \in Starts : /\ WF_vars(Run(t)) /\ WF_vars(Ctl(t)) /\ WF_vars(Copy(t))
                         /\ \A a \in Agents : WF_vars(Send(t, a))
                         /\ WF_vars(ProcReads(t)) /\ WF_vars(KillProc(t)) /\ WF_vars(Reap(t))

-----------------------------------------------------------------------------
TypeOK ==
    /\ session \in [Conns -> Starts \union {NoTask}]
    /\ conn \in [Conns -> [routed : BOOLEAN, state : {"none", "open", "closing"},
                            owner : Starts \union {NoTask}, start : Starts \union {NoTask}]]
    /\ log \in [Conns -> Seq({"start_ack", "output", "error", "exit"})]
    /\ callbacks \subseteq [task : Starts, why : {"drained", "dropped", "refused"},
                            forgotten : BOOLEAN]
    /\ todo \in Seq([task : Starts, what : Events \union GapSteps \union {Malformed}])
    /\ silent \in [Starts -> BOOLEAN]
    /\ task \in [Starts -> [connID : Conns, events : Seq(Events), closed : BOOLEAN, ctx : BOOLEAN,
                            run : {"new", "snapshot", "start", "wait", "copying", "reply", "done"},
                            ctl : {"none", "poll", "select", "write", "error", "done"},
                            copy : {"none", "read", "send", "done"},
                            failed : BOOLEAN, grace : BOOLEAN,
                            result : {"none", "exit", "canceled"}]]
    /\ \A t \in Starts : Len(task[t].events) <= EventBuffer
    /\ send \in [Starts -> [Agents -> [stage : {"idle", "check", "enqueue", "mark", "forget",
                                                "forget_refused", "drained"},
                                       frame : {"none", "output", "error", "exit"}]]]
    /\ proc \in [Starts -> [state : {"none", "running", "exited", "reaped"}, pty : BOOLEAN,
                            stdin : 0 .. PipeSize,
                            unread : 0 .. MaxOutput, written : 0 .. MaxOutput,
                            sigint : BOOLEAN, killed : BOOLEAN]]
    /\ ended \in [Starts -> Endings \union {"none", "drained"}]
    /\ inputs \in 0 .. MaxInputs
    /\ gaps \in 0 .. MaxGaps

\* The root message of c starts at most one task.  (One that Lark delivers again
\* after its session has ended starts another, which shares the connection id.)
StartedOnce(c) == \A s, t \in Starts : ConnOf(s) = c /\ ConnOf(t) = c => s = t

\* Sessions and outbound connections go together: a session without its
\* connection is about to be ended by a callback, and a connection that has
\* callbacks belongs to the session that is in the map.  closeRemoteLocked, the
\* two callbacks and AcceptRemoteStart keep the two maps of two managers in
\* step without a common lock.  (The second half is lost when a root starts
\* again between the removal of its first connection and forgetConn, which then
\* forgets the new one.)
EndIsComing(c) ==
    \/ \E cb \in callbacks : ConnOf(cb.task) = c /\ cb.why # "refused"
    \/ \E i \in 1 .. Len(todo) : ConnOf(todo[i].task) = c
    \/ \E t \in Starts : ConnOf(t) = c /\ \E a \in Agents : send[t][a].stage \in {"forget", "drained"}

SessionsMatchConnections ==
    \A c \in Conns :
        /\ session[c] # NoTask => conn[c].owner = session[c] \/ EndIsComing(c)
        /\ StartedOnce(c) /\ conn[c].owner # NoTask => conn[c].owner = session[c]

\* The exit frame is the end of the output: copyOutput has enqueued what it
\* read before run() reports the exit (wg.Wait), so that a client that stops at
\* the exit code has seen all that was sent.
NoOutputAfterExit ==
    \A c \in Conns : StartedOnce(c) =>
        \A i, j \in 1 .. Len(log[c]) :
            i < j /\ log[c][i] = "exit" => log[c][j] # "output"

\* The daemon never kills a command whose client is still there and knows of
\* no error: the session has ended, or an error was or is being reported, or
\* the connection is gone.
KillHasReason ==
    [][\A t \in Starts :
          proc'[t].killed /\ ~proc[t].killed =>
              \/ session[ConnOf(t)] # t
              \/ Contains(log[ConnOf(t)], "error")
              \/ \E i \in 1 .. Len(todo) : todo[i].task = t
              \/ conn[ConnOf(t)].owner # t
              \/ ~conn[ConnOf(t)].routed]_vars

\* A command that has ended frees its session in the end, so that it does not
\* count against the session limit for ever.
DeadCommandFreesSession ==
    \A t \in Starts : proc[t].state = "exited" ~> session[ConnOf(t)] # t

\* When a session has ended its command does not go on: not even one that is
\* started after the session was closed (run() looks at the session before it
\* starts the process, not after).
EndedSessionStopsCommand ==
    \A t \in Starts : ended[t] # "none" ~> [](proc[t].state # "running")

\* A peer that has fallen silent ends its session (connection.heartbeat_timeout).
PeerTimeoutNoticed ==
    \A t \in Starts : silent[t] /\ session[ConnOf(t)] = t ~>
                          ~silent[t] \/ session[ConnOf(t)] # t

Outputs(frames) == Cardinality({i \in 1 .. Len(frames) : frames[i] = "output"})

\* With a terminal the output of the command reaches the client: when the exit
\* is reported all of the output was, though the process is reaped and the
\* context cancelled while copyOutput still reads.  (With pipes cmd.Wait closes
\* what is unread, and the end of the output can be lost.)
OutputComplete ==
    \A t \in Starts :
        StartedOnce(ConnOf(t)) /\ proc[t].pty /\ Contains(log[ConnOf(t)], "exit") =>
            Outputs(log[ConnOf(t)]) = proc[t].written

\* A command that ended by itself is reported with its exit code, not with an
\* error: the end of a terminal is the end of its output (IsReadEOF in pty.go).
ExitCodeReported ==
    \A t \in Starts : task[t].result = "exit" => ~Contains(log[ConnOf(t)], "error")

\* A session whose gap has timed out is told to the client and cleaned up
\* (TestRemoteGapTimeoutSendsErrorAndCleansUp).
GapTimeoutCleansUp ==
    \A t \in Starts : (\E i \in 1 .. Len(todo) : todo[i].task = t /\ todo[i].what = "gap") ~>
                          session[ConnOf(t)] # t
=============================================================================
