----------------------------- MODULE RemoteProofs -----------------------------
(***************************************************************************)
(* Theorems about the executing side, for any number of root messages and  *)
(* of commands they start, any messages of the client, every bound of the  *)
(* buffers, and for commands with pipes and in a terminal.                 *)
(***************************************************************************)
EXTENDS Remote, FiniteSetTheorems, SequenceTheorems, TLAPS

(***************************************************************************)
(* The inductive invariant.  Its parts are about the session of a          *)
(* connection, the goroutines of a task, what they send, why a task is     *)
(* stopped, and what was enqueued for the client.                          *)
(***************************************************************************)

\* The end of the session of c is due, and nothing that is due can lose it:
\* unlike the other jobs of the holder of the mutex, these are never skipped.
EndIsDue(c) ==
    \/ \E cb \in callbacks : ConnOf(cb.task) = c /\ cb.why # "refused"
    \/ /\ todo # << >>
       /\ ConnOf(todo[1].task) = c
       /\ todo[1].what \in {"dropped", "gap_drained"}
    \/ \E t \in Starts : ConnOf(t) = c /\ \E a \in Agents : send[t][a].stage \in {"forget", "drained"}

SessionInv(c) ==
    /\ session[c] # NoTask => ConnOf(session[c]) = c /\ task[session[c]].run # "new"
    /\ conn[c].state = "none" => conn[c].owner = NoTask
    /\ conn[c].state # "none" =>
           /\ conn[c].start \in Starts /\ ConnOf(conn[c].start) = c
           /\ task[conn[c].start].run # "new"
    /\ session[c] # NoTask => conn[c].owner = session[c] \/ EndIsDue(c)

\* forgetConn is still to come for the connection of c.
ForgetIsDue(c) ==
    \/ \E cb \in callbacks : ConnOf(cb.task) = c /\ ~cb.forgotten
    \/ \E t \in Starts :
          ConnOf(t) = c /\ \E a \in Agents : send[t][a].stage \in {"forget", "forget_refused"}

\* The two maps of the outbound manager, and its callbacks with the sessions,
\* as long as the root of c starts once: no connection is registered while
\* forgetConn is due for an earlier one.
RouteInv(c) ==
    StartedOnce(c) =>
        /\ conn[c].state # "none" => conn[c].routed
        /\ ForgetIsDue(c) => conn[c].state = "none"
        /\ conn[c].owner # NoTask => conn[c].owner = session[c]

\* Only tasks that have a session, or had one, get events, and only starts
\* that opened a connection see it removed.
TodoInv == \A i \in 1 .. Len(todo) : task[todo[i].task].run # "new"
CallbacksInv == \A cb \in callbacks : task[cb.task].run # "new"
JobsInv == TodoInv /\ CallbacksInv

\* A task, its process and its goroutines.
TaskInv(t) ==
    /\ task[t].run \in {"new", "snapshot", "start"} =>
           ~task[t].grace /\ ~task[t].ctx /\ proc[t].state = "none"
    /\ task[t].run = "new" => ~task[t].closed /\ task[t].events = << >>
    /\ task[t].run = "wait" => proc[t].state # "none"
    /\ task[t].run = "copying" => proc[t].state = "reaped"
    /\ proc[t].state \in {"running", "exited"} => task[t].run = "wait"
    /\ proc[t].state = "none" =>
           /\ task[t].ctl = "none" /\ task[t].copy = "none" /\ ~proc[t].pty
           /\ proc[t].unread = 0 /\ proc[t].written = 0
    /\ task[t].ctx => proc[t].state # "running"
    /\ task[t].copy = "done" /\ ~task[t].failed =>
           proc[t].unread = 0 /\ proc[t].state \in {"exited", "reaped"}
    /\ proc[t].unread <= proc[t].written

\* What the goroutines of a task are sending.
SendInv(t) ==
    /\ \A a \in Agents : /\ send[t][a].frame = "output" => a = "copy"
                         /\ send[t][a].frame = "exit" => a = "run"
                         /\ send[t][a].stage = "idle" <=> send[t][a].frame = "none"
    /\ send[t]["copy"].stage # "idle" =>
           /\ task[t].copy = "send" /\ send[t]["copy"].frame = "output"
           /\ send[t]["copy"].stage \in {"check", "enqueue"}
    /\ send[t]["run"].stage # "idle" => task[t].run = "reply"
    /\ send[t]["ctl"].stage # "idle" => task[t].ctl = "error"
    /\ send[t]["run"].frame = "exit" => task[t].copy = "done" /\ ~task[t].failed

\* Why task t may be stopped.
Reason(t) ==
    \/ session[ConnOf(t)] # t
    \/ Contains(log[ConnOf(t)], "error")
    \/ conn[ConnOf(t)].owner # t
    \/ ~conn[ConnOf(t)].routed
    \/ todo # << >> /\ todo[1] = [task |-> t, what |-> "gap_error"]

ReasonInv(t) ==
    /\ \A i \in 1 .. Len(task[t].events) : task[t].events[i] \notin Inputs => Reason(t)
    /\ task[t].grace => Reason(t)
    /\ task[t].closed /\ task[t].run # "done" => Reason(t)
    /\ task[t].ctl = "error" /\ send[t]["ctl"].stage \notin {"check", "enqueue"} => Reason(t)

\* Output that copyOutput has read and that is not enqueued yet.
Held(t) == IF send[t]["copy"].stage = "idle" THEN 0 ELSE 1

LogInv(t) ==
    LET c == ConnOf(t)
    IN  StartedOnce(c) =>
            /\ task[t].run = "new" => conn[c].state = "none" /\ log[c] = << >>
            /\ conn[c].state # "none" =>
                   \/ conn[c].owner = t
                   \/ task[t].run = "done" /\ proc[t].state = "none"
            /\ Contains(log[c], "exit") =>
                   /\ task[t].copy = "done" /\ ~task[t].failed
                   /\ proc[t].pty => Outputs(log[c]) = proc[t].written
            /\ conn[c].state # "none" /\ (proc[t].pty \/ proc[t].state = "none") =>
                   Outputs(log[c]) + Held(t) + proc[t].unread = proc[t].written

RemoteInv ==
    /\ TypeOK
    /\ JobsInv
    /\ \A c \in Conns : SessionInv(c) /\ RouteInv(c)
    /\ \A t \in Starts : TaskInv(t) /\ SendInv(t) /\ ReasonInv(t) /\ LogInv(t)
    /\ NoOutputAfterExit

-----------------------------------------------------------------------------
(***************************************************************************)
(* Types.                                                                  *)
(***************************************************************************)
RunStates == {"new", "snapshot", "start", "wait", "copying", "reply", "done"}
CtlStates == {"none", "poll", "select", "write", "error", "done"}
CopyStates == {"none", "read", "send", "done"}
ResultKinds == {"none", "exit", "canceled"}

Task == [connID : Conns, events : Seq(Events), closed : BOOLEAN, ctx : BOOLEAN,
         run : RunStates, ctl : CtlStates, copy : CopyStates,
         failed : BOOLEAN, grace : BOOLEAN, result : ResultKinds]
Stages == {"idle", "check", "enqueue", "mark", "forget", "forget_refused", "drained"}
Call == [stage : Stages,
         frame : {"none", "output", "error", "exit"}]
Process == [state : {"none", "running", "exited", "reaped"}, pty : BOOLEAN,
            stdin : 0 .. PipeSize, unread : 0 .. MaxOutput, written : 0 .. MaxOutput,
            sigint : BOOLEAN, killed : BOOLEAN]
Job == [task : Starts, what : Events \union GapSteps \union {Malformed}]
Callbacks == [task : Starts, why : {"drained", "dropped", "refused"}, forgotten : BOOLEAN]
Connection == [routed : BOOLEAN, state : {"none", "open", "closing"},
               owner : Starts \union {NoTask}, start : Starts \union {NoTask}]
LogFrame == {"start_ack", "output", "error", "exit"}

SessionTypes ==
    /\ session \in [Conns -> Starts \union {NoTask}]
    /\ conn \in [Conns -> Connection]
    /\ callbacks \subseteq Callbacks
    /\ ended \in [Starts -> Endings \union {"none", "drained"}]
LogTypes == log \in [Conns -> Seq(LogFrame)]
InputTypes ==
    /\ todo \in Seq(Job)
    /\ silent \in [Starts -> BOOLEAN]
    /\ inputs \in 0 .. MaxInputs
    /\ gaps \in 0 .. MaxGaps
TaskTypes ==
    /\ task \in [Starts -> Task]
    /\ \A t \in Starts : Len(task[t].events) <= EventBuffer
SendTypes == send \in [Starts -> [Agents -> Call]]
ProcTypes == proc \in [Starts -> Process]

LEMMA TypeParts ==
    /\ TypeOK <=> SessionTypes /\ LogTypes /\ InputTypes /\ TaskTypes /\ SendTypes /\ ProcTypes
    /\ TypeOK' <=> SessionTypes' /\ LogTypes' /\ InputTypes' /\ TaskTypes' /\ SendTypes' /\ ProcTypes'
  BY DEF TypeOK, SessionTypes, LogTypes, InputTypes, TaskTypes, SendTypes, ProcTypes,
         Task, RunStates, CtlStates, CopyStates, ResultKinds, Stages, Call, Process, Job, Callbacks, Connection, LogFrame


-----------------------------------------------------------------------------
(***************************************************************************)
(* What a step sets in a task leaves it a task.                            *)
(***************************************************************************)
LEMMA TaskBecomes ==
    ASSUME TaskTypes, NEW t \in Starts, NEW k \in Task, Len(k.events) <= EventBuffer,
           task' = [task EXCEPT ![t] = k]
    PROVE  TaskTypes'
  BY DEF TaskTypes

LEMMA TaskRun ==
    ASSUME TaskTypes, NEW t \in Starts, NEW run \in RunStates, 
           task' = [task EXCEPT ![t].run = run]
    PROVE  TaskTypes'
<1> DEFINE k == [task[t] EXCEPT !.run = run]
<1>1. k \in Task /\ Len(k.events) <= EventBuffer
  BY DEF TaskTypes, Task
<1>2. task' = [task EXCEPT ![t] = k]
  OBVIOUS
<1> HIDE DEF k
<1> QED BY <1>1, <1>2, TaskBecomes

LEMMA TaskRunCtx ==
    ASSUME TaskTypes, NEW t \in Starts, NEW run \in RunStates, 
           task' = [task EXCEPT ![t].run = run, ![t].ctx = TRUE]
    PROVE  TaskTypes'
<1> DEFINE k == [task[t] EXCEPT !.run = run, !.ctx = TRUE]
<1>1. k \in Task /\ Len(k.events) <= EventBuffer
  BY DEF TaskTypes, Task
<1>2. task' = [task EXCEPT ![t] = k]
  OBVIOUS
<1> HIDE DEF k
<1> QED BY <1>1, <1>2, TaskBecomes

LEMMA TaskFinish ==
    ASSUME TaskTypes, NEW t \in Starts, NEW run \in RunStates, 
           task' = [task EXCEPT ![t].run = run, ![t].closed = TRUE, ![t].ctx = TRUE]
    PROVE  TaskTypes'
<1> DEFINE k == [task[t] EXCEPT !.run = run, !.closed = TRUE, !.ctx = TRUE]
<1>1. k \in Task /\ Len(k.events) <= EventBuffer
  BY DEF TaskTypes, Task
<1>2. task' = [task EXCEPT ![t] = k]
  OBVIOUS
<1> HIDE DEF k
<1> QED BY <1>1, <1>2, TaskBecomes

LEMMA TaskStarted ==
    ASSUME TaskTypes, NEW t \in Starts, NEW run \in RunStates, NEW ctl \in CtlStates, NEW copy \in CopyStates, 
           task' = [task EXCEPT ![t].run = run, ![t].ctl = ctl, ![t].copy = copy]
    PROVE  TaskTypes'
<1> DEFINE k == [task[t] EXCEPT !.run = run, !.ctl = ctl, !.copy = copy]
<1>1. k \in Task /\ Len(k.events) <= EventBuffer
  BY DEF TaskTypes, Task
<1>2. task' = [task EXCEPT ![t] = k]
  OBVIOUS
<1> HIDE DEF k
<1> QED BY <1>1, <1>2, TaskBecomes

LEMMA TaskCtl ==
    ASSUME TaskTypes, NEW t \in Starts, NEW ctl \in CtlStates, 
           task' = [task EXCEPT ![t].ctl = ctl]
    PROVE  TaskTypes'
<1> DEFINE k == [task[t] EXCEPT !.ctl = ctl]
<1>1. k \in Task /\ Len(k.events) <= EventBuffer
  BY DEF TaskTypes, Task
<1>2. task' = [task EXCEPT ![t] = k]
  OBVIOUS
<1> HIDE DEF k
<1> QED BY <1>1, <1>2, TaskBecomes

LEMMA TaskStop ==
    ASSUME TaskTypes, NEW t \in Starts, NEW ctl \in CtlStates, 
           task' = [task EXCEPT ![t].ctl = ctl, ![t].ctx = TRUE]
    PROVE  TaskTypes'
<1> DEFINE k == [task[t] EXCEPT !.ctl = ctl, !.ctx = TRUE]
<1>1. k \in Task /\ Len(k.events) <= EventBuffer
  BY DEF TaskTypes, Task
<1>2. task' = [task EXCEPT ![t] = k]
  OBVIOUS
<1> HIDE DEF k
<1> QED BY <1>1, <1>2, TaskBecomes

LEMMA TaskCtlEvent ==
    ASSUME TaskTypes, NEW t \in Starts, NEW e \in Seq(Events), Len(e) <= EventBuffer, NEW ctl \in CtlStates, 
           task' = [task EXCEPT ![t].events = e, ![t].ctl = ctl]
    PROVE  TaskTypes'
<1> DEFINE k == [task[t] EXCEPT !.events = e, !.ctl = ctl]
<1>1. k \in Task /\ Len(k.events) <= EventBuffer
  BY DEF TaskTypes, Task
<1>2. task' = [task EXCEPT ![t] = k]
  OBVIOUS
<1> HIDE DEF k
<1> QED BY <1>1, <1>2, TaskBecomes

LEMMA TaskCtlInterrupt ==
    ASSUME TaskTypes, NEW t \in Starts, NEW e \in Seq(Events), Len(e) <= EventBuffer, NEW ctl \in CtlStates, 
           task' = [task EXCEPT ![t].events = e, ![t].ctl = ctl, ![t].grace = TRUE]
    PROVE  TaskTypes'
<1> DEFINE k == [task[t] EXCEPT !.events = e, !.ctl = ctl, !.grace = TRUE]
<1>1. k \in Task /\ Len(k.events) <= EventBuffer
  BY DEF TaskTypes, Task
<1>2. task' = [task EXCEPT ![t] = k]
  OBVIOUS
<1> HIDE DEF k
<1> QED BY <1>1, <1>2, TaskBecomes

LEMMA TaskCtlStop ==
    ASSUME TaskTypes, NEW t \in Starts, NEW e \in Seq(Events), Len(e) <= EventBuffer, NEW ctl \in CtlStates, 
           task' = [task EXCEPT ![t].events = e, ![t].ctl = ctl, ![t].ctx = TRUE]
    PROVE  TaskTypes'
<1> DEFINE k == [task[t] EXCEPT !.events = e, !.ctl = ctl, !.ctx = TRUE]
<1>1. k \in Task /\ Len(k.events) <= EventBuffer
  BY DEF TaskTypes, Task
<1>2. task' = [task EXCEPT ![t] = k]
  OBVIOUS
<1> HIDE DEF k
<1> QED BY <1>1, <1>2, TaskBecomes

LEMMA TaskEvents ==
    ASSUME TaskTypes, NEW t \in Starts, NEW e \in Seq(Events), Len(e) <= EventBuffer, 
           task' = [task EXCEPT ![t].events = e]
    PROVE  TaskTypes'
<1> DEFINE k == [task[t] EXCEPT !.events = e]
<1>1. k \in Task /\ Len(k.events) <= EventBuffer
  BY DEF TaskTypes, Task
<1>2. task' = [task EXCEPT ![t] = k]
  OBVIOUS
<1> HIDE DEF k
<1> QED BY <1>1, <1>2, TaskBecomes

LEMMA TaskLastEvent ==
    ASSUME TaskTypes, NEW t \in Starts, NEW e \in Seq(Events), Len(e) <= EventBuffer, 
           task' = [task EXCEPT ![t].events = e, ![t].closed = TRUE]
    PROVE  TaskTypes'
<1> DEFINE k == [task[t] EXCEPT !.events = e, !.closed = TRUE]
<1>1. k \in Task /\ Len(k.events) <= EventBuffer
  BY DEF TaskTypes, Task
<1>2. task' = [task EXCEPT ![t] = k]
  OBVIOUS
<1> HIDE DEF k
<1> QED BY <1>1, <1>2, TaskBecomes

LEMMA TaskClose ==
    ASSUME TaskTypes, NEW t \in Starts, 
           task' = [task EXCEPT ![t].closed = TRUE]
    PROVE  TaskTypes'
<1> DEFINE k == [task[t] EXCEPT !.closed = TRUE]
<1>1. k \in Task /\ Len(k.events) <= EventBuffer
  BY DEF TaskTypes, Task
<1>2. task' = [task EXCEPT ![t] = k]
  OBVIOUS
<1> HIDE DEF k
<1> QED BY <1>1, <1>2, TaskBecomes

LEMMA TaskCopy ==
    ASSUME TaskTypes, NEW t \in Starts, NEW copy \in CopyStates, 
           task' = [task EXCEPT ![t].copy = copy]
    PROVE  TaskTypes'
<1> DEFINE k == [task[t] EXCEPT !.copy = copy]
<1>1. k \in Task /\ Len(k.events) <= EventBuffer
  BY DEF TaskTypes, Task
<1>2. task' = [task EXCEPT ![t] = k]
  OBVIOUS
<1> HIDE DEF k
<1> QED BY <1>1, <1>2, TaskBecomes

LEMMA TaskCopyFailed ==
    ASSUME TaskTypes, NEW t \in Starts, NEW copy \in CopyStates, NEW failed \in BOOLEAN, 
           task' = [task EXCEPT ![t].copy = copy, ![t].failed = failed]
    PROVE  TaskTypes'
<1> DEFINE k == [task[t] EXCEPT !.copy = copy, !.failed = failed]
<1>1. k \in Task /\ Len(k.events) <= EventBuffer
  BY DEF TaskTypes, Task
<1>2. task' = [task EXCEPT ![t] = k]
  OBVIOUS
<1> HIDE DEF k
<1> QED BY <1>1, <1>2, TaskBecomes

LEMMA TaskFailed ==
    ASSUME TaskTypes, NEW t \in Starts, NEW failed \in BOOLEAN, 
           task' = [task EXCEPT ![t].failed = failed]
    PROVE  TaskTypes'
<1> DEFINE k == [task[t] EXCEPT !.failed = failed]
<1>1. k \in Task /\ Len(k.events) <= EventBuffer
  BY DEF TaskTypes, Task
<1>2. task' = [task EXCEPT ![t] = k]
  OBVIOUS
<1> HIDE DEF k
<1> QED BY <1>1, <1>2, TaskBecomes

LEMMA TaskResult ==
    ASSUME TaskTypes, NEW t \in Starts, NEW result \in ResultKinds, 
           task' = [task EXCEPT ![t].result = result]
    PROVE  TaskTypes'
<1> DEFINE k == [task[t] EXCEPT !.result = result]
<1>1. k \in Task /\ Len(k.events) <= EventBuffer
  BY DEF TaskTypes, Task
<1>2. task' = [task EXCEPT ![t] = k]
  OBVIOUS
<1> HIDE DEF k
<1> QED BY <1>1, <1>2, TaskBecomes

-----------------------------------------------------------------------------
(***************************************************************************)
(* Every step keeps the types.                                             *)
(***************************************************************************)

\* A step of the goroutines of a task or of its process.
TaskStep(t) ==
    \/ Run(t) \/ Ctl(t) \/ Copy(t)
    \/ ProcReads(t) \/ ProcWrites(t) \/ ProcExits(t) \/ KillProc(t) \/ Reap(t)

outsideVars == <<session, conn, log, callbacks, todo, silent, ended, inputs, gaps>>

LEMMA TaskStepLeaves == ASSUME NEW t, TaskStep(t) PROVE UNCHANGED outsideVars
<1>1. CASE Run(t)
  BY <1>1, Zenon DEF Run, RunSnapshot, RunStart, RunStartFails, RunWaited, RunCopied, RunReplied, outsideVars
<1>2. CASE Ctl(t)
  BY <1>2, Zenon DEF Ctl, CtlEvent, CtlNoEvent, CtlDone, CtlClosed, CtlWrites, CtlWriteFails, CtlFailed, outsideVars
<1>3. CASE Copy(t)
  BY <1>3, Zenon DEF Copy, CopyReads, CopySent, CopyEnds, outsideVars
<1>4. CASE ProcReads(t) \/ ProcWrites(t) \/ ProcExits(t) \/ KillProc(t) \/ Reap(t)
  BY <1>4, Zenon DEF ProcReads, ProcWrites, ProcExits, KillProc, Reap, outsideVars
<1> QED BY <1>1, <1>2, <1>3, <1>4 DEF TaskStep

LEMMA TaskStepTaskTypes == ASSUME NEW t \in Starts, TypeOK, TaskStep(t) PROVE TaskTypes'
<1> USE DEF RunStates, CtlStates, CopyStates, ResultKinds
<1>0. TaskTypes /\ task[t] \in Task /\ task[t].events \in Seq(Events)
  BY TypeParts DEF TaskTypes, Task
<1>1. CASE UNCHANGED task
  BY <1>0, <1>1 DEF TaskTypes
<1>2. CASE RunSnapshot(t)
  <2>1. CASE session[ConnOf(t)] = NoTask
    BY <1>0, <1>2, <2>1, TaskFinish DEF RunSnapshot, Finish
  <2>2. CASE session[ConnOf(t)] # NoTask
    BY <1>0, <1>2, <2>2, TaskRun DEF RunSnapshot, Finish
  <2> QED BY <2>1, <2>2
<1>3. CASE RunStart(t)
  BY <1>0, <1>3, TaskStarted DEF RunStart, Finish, Stop, Results
<1>4. CASE RunStartFails(t)
  BY <1>0, <1>4, TaskRun DEF RunStartFails, Finish, Stop, Results
<1>5. CASE RunWaited(t)
  BY <1>0, <1>5, TaskRunCtx DEF RunWaited, Finish, Stop, Results
<1>6. CASE RunCopied(t)
  <2>1. CASE task[t].result = "canceled"
    BY <1>0, <1>6, <2>1, TaskFinish DEF RunCopied, Finish
  <2>2. CASE task[t].result # "canceled"
    BY <1>0, <1>6, <2>2, TaskRun DEF RunCopied, Finish
  <2> QED BY <2>1, <2>2
<1>7. CASE RunReplied(t)
  BY <1>0, <1>7, TaskFinish DEF RunReplied, Finish, Stop, Results
<1>8. CASE CtlNoEvent(t)
  BY <1>0, <1>8, TaskCtl DEF CtlNoEvent, Finish, Stop, Results
<1>9. CASE CtlDone(t)
  BY <1>0, <1>9, TaskCtl DEF CtlDone, Finish, Stop, Results
<1>10. CASE CtlClosed(t)
  BY <1>0, <1>10, TaskStop DEF CtlClosed, Finish, Stop, Results
<1>11. CASE CtlWrites(t)
  BY <1>0, <1>11, TaskCtl DEF CtlWrites, Finish, Stop, Results
<1>12. CASE CtlWriteFails(t)
  BY <1>0, <1>12, TaskCtl DEF CtlWriteFails, Finish, Stop, Results
<1>13. CASE CtlFailed(t)
  BY <1>0, <1>13, TaskStop DEF CtlFailed, Finish, Stop, Results
<1>14. CASE CopyReads(t)
  BY <1>0, <1>14, TaskCopy DEF CopyReads, Finish, Stop, Results
<1>15. CASE CopySent(t)
  BY <1>0, <1>15, TaskCopy DEF CopySent, Finish, Stop, Results
<1>16. CASE CopyEnds(t)
  BY <1>0, <1>16, TaskCopyFailed DEF CopyEnds, Finish, Stop, Results
<1>17. CASE Reap(t)
  BY <1>0, <1>17, TaskResult DEF Reap, Finish, Stop, Results
<1>18. CASE CtlEvent(t)
  <2> DEFINE rest == Tail(task[t].events)
  <2>1. rest \in Seq(Events) /\ Len(rest) <= EventBuffer
    <3>1. task[t].events # << >> /\ Len(task[t].events) <= EventBuffer
      BY <1>0, <1>18 DEF CtlEvent, TaskTypes
    <3>2. rest \in Seq(Events) /\ Len(rest) = Len(task[t].events) - 1
      BY <1>0, <3>1
    <3> QED BY <1>0, <3>1, <3>2, RemoteAssumption DEF RemoteAssumption
  <2>2. \/ \E ctl \in CtlStates : task' = [task EXCEPT ![t].events = rest, ![t].ctl = ctl]
        \/ task' = [task EXCEPT ![t].events = rest, ![t].ctl = "done", ![t].grace = TRUE]
        \/ task' = [task EXCEPT ![t].events = rest, ![t].ctl = "done", ![t].ctx = TRUE]
    BY <1>18 DEF CtlEvent
  <2> HIDE DEF rest
  <2>3. CASE \E ctl \in CtlStates : task' = [task EXCEPT ![t].events = rest, ![t].ctl = ctl]
    BY <1>0, <2>1, <2>3, TaskCtlEvent
  <2>4. CASE task' = [task EXCEPT ![t].events = rest, ![t].ctl = "done", ![t].grace = TRUE]
    BY <1>0, <2>1, <2>4, TaskCtlInterrupt
  <2>5. CASE task' = [task EXCEPT ![t].events = rest, ![t].ctl = "done", ![t].ctx = TRUE]
    BY <1>0, <2>1, <2>5, TaskCtlStop
  <2> QED BY <2>2, <2>3, <2>4, <2>5
<1> QED BY <1>1, <1>2, <1>3, <1>4, <1>5, <1>6, <1>7, <1>8, <1>9, <1>10, <1>11, <1>12, <1>13, <1>14, <1>15, <1>16, <1>17, <1>18 DEF TaskStep, Run, Ctl, Copy,
           ProcReads, ProcWrites, ProcExits, KillProc

LEMMA TaskStepProcTypes ==
    ASSUME NEW t \in Starts, TypeOK, TaskInv(t), TaskStep(t) PROVE ProcTypes'
<1> USE RemoteAssumption DEF RemoteAssumption
<1>0. ProcTypes /\ proc[t] \in Process
  BY TypeParts DEF ProcTypes
<1>1. CASE UNCHANGED proc
  BY <1>0, <1>1 DEF ProcTypes
<1>2. CASE RunStart(t)
  <2>1. PipeProcess \in Process /\ PtyProcess \in Process
    <3>1. NewProc \in Process
      BY DEF Process, NewProc
    <3>2. PipeProcess \in Process
      BY <3>1 DEF Process, PipeProcess
    <3> QED BY <3>2 DEF Process, PtyProcess
  <2> QED BY <1>0, <1>2, <2>1 DEF RunStart, ProcTypes
<1>3. ASSUME proc' = [proc EXCEPT ![t] = Killed(@)] PROVE ProcTypes'
  <2>1. Killed(proc[t]) \in Process
    BY <1>0 DEF Killed, Process
  <2> QED BY <1>0, <1>3, <2>1 DEF ProcTypes
<1>4. CASE CtlEvent(t)
  <2>1. [proc[t] EXCEPT !.sigint = TRUE] \in Process
    BY <1>0 DEF Process
  <2> QED BY <1>0, <1>1, <1>3, <1>4, <2>1 DEF CtlEvent, ProcTypes
<1>5. CASE CtlClosed(t) \/ CtlFailed(t) \/ KillProc(t)
  BY <1>3, <1>5 DEF CtlClosed, CtlFailed, KillProc, Stop
<1>6. CASE CtlWrites(t)
  <2> DEFINE p == [proc[t] EXCEPT !.stdin = @ + 1]
  <2>1. p \in Process
    <3>1. proc[t].stdin + 1 \in 0 .. PipeSize
      BY <1>0, <1>6 DEF CtlWrites, Process
    <3> QED BY <1>0, <3>1 DEF Process
  <2>2. proc' = [proc EXCEPT ![t] = p] \/ UNCHANGED proc
    BY <1>6 DEF CtlWrites
  <2> HIDE DEF p
  <2> QED BY <1>0, <1>1, <2>1, <2>2 DEF ProcTypes
<1>7. CASE CopyReads(t)
  <2> DEFINE p == [proc[t] EXCEPT !.unread = @ - 1]
  <2>1. p \in Process
    <3>1. proc[t].unread - 1 \in 0 .. MaxOutput
      BY <1>0, <1>7 DEF CopyReads, Process
    <3> QED BY <1>0, <3>1 DEF Process
  <2>2. proc' = [proc EXCEPT ![t] = p] \/ UNCHANGED proc
    BY <1>7 DEF CopyReads
  <2> HIDE DEF p
  <2> QED BY <1>0, <1>1, <2>1, <2>2 DEF ProcTypes
<1>8. CASE ProcReads(t)
  <2> DEFINE p == [proc[t] EXCEPT !.stdin = @ - 1]
  <2>1. p \in Process
    <3>1. proc[t].stdin - 1 \in 0 .. PipeSize
      BY <1>0, <1>8 DEF ProcReads, Process
    <3> QED BY <1>0, <3>1 DEF Process
  <2>2. proc' = [proc EXCEPT ![t] = p] \/ UNCHANGED proc
    BY <1>8 DEF ProcReads
  <2> HIDE DEF p
  <2> QED BY <1>0, <1>1, <2>1, <2>2 DEF ProcTypes
<1>9. CASE ProcWrites(t)
  <2> DEFINE p == [proc[t] EXCEPT !.written = @ + 1, !.unread = @ + 1]
  <2>1. p \in Process
    <3>1. proc[t].written + 1 \in 0 .. MaxOutput /\ proc[t].unread + 1 \in 0 .. MaxOutput
      <4>1. proc[t].written \in 0 .. MaxOutput /\ proc[t].unread \in 0 .. MaxOutput
        BY <1>0 DEF Process
      <4>2. proc[t].unread <= proc[t].written /\ proc[t].written < MaxOutput
        BY <1>9 DEF ProcWrites, TaskInv
      <4> QED BY <4>1, <4>2
    <3> QED BY <1>0, <3>1 DEF Process
  <2>2. proc' = [proc EXCEPT ![t] = p] \/ UNCHANGED proc
    BY <1>9 DEF ProcWrites
  <2> HIDE DEF p
  <2> QED BY <1>0, <1>1, <2>1, <2>2 DEF ProcTypes
<1>10. CASE ProcExits(t)
  <2> DEFINE p == [proc[t] EXCEPT !.state = "exited"]
  <2>1. p \in Process
    BY <1>0, <1>10 DEF ProcExits, Process, TaskInv
  <2>2. proc' = [proc EXCEPT ![t] = p] \/ UNCHANGED proc
    BY <1>10 DEF ProcExits
  <2> HIDE DEF p
  <2> QED BY <1>0, <1>1, <2>1, <2>2 DEF ProcTypes
<1>11. CASE Reap(t)
  <2> DEFINE p == [proc[t] EXCEPT !.state = "reaped", !.unread = IF proc[t].pty THEN @ ELSE 0]
  <2>1. p \in Process
    <3>1. (IF proc[t].pty THEN proc[t].unread ELSE 0) \in 0 .. MaxOutput
      BY <1>0 DEF Process
    <3> QED BY <1>0, <3>1 DEF Process
  <2>2. proc' = [proc EXCEPT ![t] = p] \/ UNCHANGED proc
    BY <1>11 DEF Reap
  <2> HIDE DEF p
  <2> QED BY <1>0, <1>1, <2>1, <2>2 DEF ProcTypes
<1> QED BY <1>1, <1>2, <1>3, <1>4, <1>5, <1>6, <1>7, <1>8, <1>9, <1>10, <1>11 DEF TaskStep, Run, Ctl, Copy, RunSnapshot,
           RunStartFails, RunWaited, RunCopied, RunReplied, CtlNoEvent, CtlDone, CtlWriteFails,
           CopySent, CopyEnds

LEMMA SayTypes ==
    ASSUME SendTypes, NEW t \in Starts, NEW a \in Agents,
           NEW frame \in {"output", "error", "exit"}, Say(t, a, frame)
    PROVE  SendTypes'
<1>1. [stage |-> "check", frame |-> frame] \in Call
  BY DEF Call, Stages
<1> QED BY <1>1 DEF Say, SendTypes

LEMMA StageTypes ==
    ASSUME SendTypes, NEW t \in Starts, NEW a \in Agents,
           NEW stage \in Stages, Stage(t, a, stage)
    PROVE  SendTypes'
<1>0. Idle \in Call
  BY DEF Idle, Call, Stages
<1>a. send[t][a] \in Call
  BY DEF SendTypes
<1>b. [send[t][a] EXCEPT !.stage = stage] \in Call
  BY <1>a DEF Call
<1>1. Idle \in Call /\ [send[t][a] EXCEPT !.stage = stage] \in Call
  BY <1>0, <1>b
<1>2. CASE stage = "idle"
  BY <1>1, <1>2 DEF Stage, SendTypes
<1>3. CASE stage # "idle"
  BY <1>1, <1>3 DEF Stage, SendTypes
<1> QED BY <1>2, <1>3

LEMMA TaskStepSendTypes == ASSUME NEW t \in Starts, TypeOK, TaskStep(t) PROVE SendTypes'
<1>0. SendTypes
  BY TypeParts
<1>1. CASE UNCHANGED send
  BY <1>0, <1>1 DEF SendTypes
<1>2. CASE RunStartFails(t) \/ CtlWriteFails(t) \/ CopyReads(t)
  BY <1>0, <1>2, SayTypes DEF RunStartFails, CtlWriteFails, CopyReads, Agents
<1>3. CASE RunCopied(t)
  BY <1>0, <1>1, <1>3, SayTypes DEF RunCopied, Agents
<1> QED BY <1>1, <1>2, <1>3 DEF TaskStep, Run, Ctl, Copy, RunSnapshot, RunStart, RunWaited,
           RunReplied, CtlEvent, CtlNoEvent, CtlDone, CtlClosed, CtlWrites, CtlFailed,
           CopySent, CopyEnds, ProcReads, ProcWrites, ProcExits, KillProc, Reap

\* closeRemoteLocked keeps the types.
LEMMA CloseTypes ==
    ASSUME TypeOK, NEW c \in Conns, NEW why \in Endings \union {"none", "drained"},
           closeRemoteLocked(c, why)
    PROVE  /\ callbacks' \subseteq callbacks => SessionTypes'
           /\ TaskTypes'
<1>0. SessionTypes /\ TaskTypes
  BY TypeParts
<1>1. CASE session[c] = NoTask
  BY <1>0, <1>1 DEF closeRemoteLocked, SessionTypes, TaskTypes
<1>2. CASE session[c] # NoTask
  <2>1. session[c] \in Starts /\ NoConn \in Connection
    BY <1>0, <1>2 DEF SessionTypes, NoConn, Connection
  <2>2. callbacks' \subseteq callbacks => SessionTypes'
    <3>1. DropConnection(c) \in [Conns -> Connection]
      BY <1>0, <2>1 DEF DropConnection, SessionTypes
    <3> QED BY <1>0, <1>2, <2>1, <3>1 DEF closeRemoteLocked, SessionTypes
  <2>3. TaskTypes'
    BY <1>0, <1>2, <2>1, TaskClose DEF closeRemoteLocked
  <2> QED BY <2>2, <2>3
<1> QED BY <1>1, <1>2

LEMMA ClosingTypes ==
    ASSUME SessionTypes, NEW c \in Conns
    PROVE  /\ [conn[c] EXCEPT !.state = "closing"] \in Connection
           /\ [conn[c] EXCEPT !.routed = FALSE] \in Connection
           /\ Removed(conn[c]) \in Connection
           /\ NoConn \in Connection
  BY DEF SessionTypes, NoConn, Removed, Connection

\* forgetConn leaves a connection a connection, and of the callbacks those that
\* are no call for it any more.
LEMMA ForgottenTypes ==
    ASSUME SessionTypes, NEW c \in Conns
    PROVE  Forgotten(c) \in [Conns -> Connection]
<1>1. [conn[c] EXCEPT !.routed = FALSE] \in Connection
  BY ClosingTypes
<1>2. Forgotten(c) = [conn EXCEPT ![c] = [conn[c] EXCEPT !.routed = FALSE]]
  BY DEF Forgotten
<1> QED BY <1>1, <1>2 DEF SessionTypes

LEMMA ForgetsEntries ==
    ASSUME callbacks \subseteq Callbacks, NEW cb, Forgets(cb)
    PROVE  /\ callbacks' \subseteq Callbacks
           /\ \A b \in callbacks : b.why # "refused" =>
                 \E b2 \in callbacks' : b2.task = b.task /\ b2.why # "refused"
           /\ \A b \in callbacks' :
                 \E b2 \in callbacks : b2.task = b.task /\ (~b.forgotten => ~b2.forgotten)
<1> DEFINE f == [cb EXCEPT !.forgotten = TRUE]
<1>1. cb \in callbacks /\ cb \in Callbacks /\ ~cb.forgotten
  BY DEF Forgets
<1>2. f \in Callbacks /\ f.task = cb.task /\ f.why = cb.why /\ f.forgotten
  BY <1>1 DEF Callbacks
<1>3. callbacks' = (callbacks \ {cb}) \union (IF cb.why = "refused" THEN {} ELSE {f})
  BY DEF Forgets
<1> HIDE DEF f
<1>4. callbacks' \subseteq callbacks \union {f}
  BY <1>3
<1>5. callbacks' \subseteq Callbacks
  BY <1>2, <1>4
<1>6. ASSUME NEW b \in callbacks, b.why # "refused"
      PROVE  \E b2 \in callbacks' : b2.task = b.task /\ b2.why # "refused"
  <2>1. CASE b # cb
    BY <1>3, <1>6, <2>1
  <2>2. CASE b = cb
    <3>1. f \in callbacks'
      BY <1>3, <1>6, <2>2
    <3> QED BY <1>2, <1>6, <2>2, <3>1
  <2> QED BY <2>1, <2>2
<1>7. ASSUME NEW b \in callbacks'
      PROVE  \E b2 \in callbacks : b2.task = b.task /\ (~b.forgotten => ~b2.forgotten)
  <2>1. CASE b \in callbacks
    BY <2>1
  <2>2. CASE b = f
    BY <1>1, <1>2, <2>2
  <2> QED BY <1>4, <2>1, <2>2
<1> QED BY <1>5, <1>6, <1>7

LEMMA LogGrows ==
    ASSUME LogTypes, NEW c \in Conns, NEW frame \in LogFrame,
           log' = [log EXCEPT ![c] = Append(@, frame)]
    PROVE  LogTypes'
<1>1. Append(log[c], frame) \in Seq(LogFrame)
  BY DEF LogTypes
<1> QED BY <1>1 DEF LogTypes

LEMMA SendStepTypes ==
    ASSUME TypeOK, NEW t \in Starts, SendInv(t), NEW a \in Agents, Send(t, a)
    PROVE  TypeOK'
<1>0. /\ SessionTypes /\ LogTypes /\ InputTypes /\ TaskTypes /\ SendTypes /\ ProcTypes
      /\ ConnOf(t) \in Conns
  BY TypeParts DEF TaskTypes, Task, ConnOf
<1>1. InputTypes' /\ ProcTypes'
  BY <1>0 DEF Send, SendCheck, SendEnqueue, SendMark, SendForget, SendDrained, InputTypes, ProcTypes
<1>2. CASE SendCheck(t, a)
  <2>1. SessionTypes' /\ LogTypes' /\ TaskTypes'
    BY <1>0, <1>2 DEF SendCheck, SessionTypes, LogTypes, TaskTypes
  <2> QED BY <1>0, <1>1, <1>2, <2>1, StageTypes, TypeParts DEF SendCheck, Stages
<1>3. CASE SendEnqueue(t, a)
  <2>1. SessionTypes'
    BY <1>0, <1>3 DEF SendEnqueue, SessionTypes
  <2>2. CASE ~Found(ConnOf(t))
    <3>1. LogTypes' /\ SendTypes'
      BY <1>0, <1>3, <2>2, StageTypes DEF SendEnqueue, LogTypes, Stages
    <3>2. TaskTypes'
      <4>1. CASE UNCHANGED task
        BY <1>0, <4>1 DEF TaskTypes
      <4> QED BY <1>0, <1>3, <2>2, <4>1, TaskFailed DEF SendEnqueue
    <3> QED BY <1>1, <2>1, <3>1, <3>2, TypeParts
  <2>3. CASE Found(ConnOf(t))
    <3>1. SendTypes' /\ TaskTypes'
      BY <1>0, <1>3, <2>3, StageTypes DEF SendEnqueue, TaskTypes, Stages
    <3>2. send[t][a].frame \in LogFrame
      BY <1>0, <1>3 DEF SendEnqueue, SendInv, SendTypes, Call, LogFrame
    <3>3. LogTypes'
      BY <1>0, <1>3, <2>3, <3>2, LogGrows DEF SendEnqueue
    <3> QED BY <1>1, <2>1, <3>1, <3>3, TypeParts
  <2> QED BY <2>2, <2>3
<1>4. CASE SendMark(t, a)
  <2>1. LogTypes' /\ TaskTypes'
    BY <1>0, <1>4 DEF SendMark, LogTypes, TaskTypes
  <2>2. SendTypes'
    BY <1>0, <1>4, StageTypes DEF SendMark, Stages
  <2>3. SessionTypes'
    BY <1>0, <1>4, ClosingTypes DEF SendMark, SessionTypes
  <2> QED BY <1>1, <2>1, <2>2, <2>3, TypeParts
<1>5. CASE SendDrained(t, a)
  <2>1. LogTypes' /\ SendTypes'
    BY <1>0, <1>5, StageTypes DEF SendDrained, LogTypes, Stages
  <2> QED BY <1>0, <1>1, <1>5, <2>1, CloseTypes, TypeParts DEF SendDrained
<1>6. CASE SendForget(t, a)
  <2>1. LogTypes' /\ TaskTypes'
    BY <1>0, <1>6 DEF SendForget, LogTypes, TaskTypes
  <2>2. SendTypes'
    BY <1>0, <1>6, StageTypes DEF SendForget, SendForgets, Stages
  <2>3. SessionTypes'
    BY <1>0, <1>6, ForgottenTypes DEF SendForget, SessionTypes
  <2> QED BY <1>1, <2>1, <2>2, <2>3, TypeParts
<1> QED BY <1>2, <1>3, <1>4, <1>5, <1>6 DEF Send

\* The jobs of a sequence of things to do for one task.
LEMMA JobsTypes ==
    ASSUME NEW t \in Starts, NEW whats \in Seq(Events \union GapSteps \union {Malformed})
    PROVE  /\ Jobs(t, whats) \in Seq(Job) /\ Len(Jobs(t, whats)) = Len(whats)
           /\ \A i \in 1 .. Len(whats) : Jobs(t, whats)[i] = [task |-> t, what |-> whats[i]]
           /\ \A i \in 1 .. Len(Jobs(t, whats)) : Jobs(t, whats)[i].task = t
<1>1. Len(whats) \in Nat /\ \A i \in 1 .. Len(whats) : whats[i] \in Events \union GapSteps \union {Malformed}
  OBVIOUS
<1>2. \A i \in 1 .. Len(whats) : [task |-> t, what |-> whats[i]] \in Job
  BY <1>1 DEF Job
<1> QED BY <1>1, <1>2 DEF Jobs

LEMMA OneJob ==
    ASSUME NEW t \in Starts, NEW what \in Events \union GapSteps
    PROVE  Jobs(t, <<what>>) = <<[task |-> t, what |-> what]>> /\ [task |-> t, what |-> what] \in Job
<1>1. [task |-> t, what |-> what] \in Job
  BY DEF Job
<1>2. Len(<<what>>) = 1 /\ <<what>>[1] = what
  OBVIOUS
<1>3. Jobs(t, <<what>>) = [i \in 1 .. 1 |-> [task |-> t, what |-> <<what>>[i]]]
  BY <1>2 DEF Jobs
<1>4. [i \in 1 .. 1 |-> [task |-> t, what |-> <<what>>[i]]] = <<[task |-> t, what |-> what]>>
  BY <1>2
<1> QED BY <1>1, <1>3, <1>4

\* A finite set as a sequence.
LEMMA SetToSeqTypes ==
    ASSUME NEW S, IsFiniteSet(S)
    PROVE  /\ SetToSeq(S) \in Seq(S)
           /\ \A i \in 1 .. Len(SetToSeq(S)) : SetToSeq(S)[i] \in S
<1>1. PICK f \in Bijection(1 .. Cardinality(S), S) : TRUE
  BY FS_CardinalityType DEF ExistsBijection
<1>2. f \in [1 .. Cardinality(S) -> S] /\ IsInjective(f)
  BY <1>1 DEF Bijection, Injection, IsInjective
<1>3. SetToSeq(S) \in [1 .. Cardinality(S) -> S]
  BY <1>2, Zenon DEF SetToSeq
<1> QED BY <1>3, FS_CardinalityType

LEMMA TailTypes ==
    ASSUME InputTypes, ~Free
    PROVE  /\ todo[1] \in Job /\ todo # << >>
           /\ Tail(todo) \in Seq(Job)
           /\ Len(Tail(todo)) = Len(todo) - 1
           /\ \A i \in 1 .. Len(Tail(todo)) : Tail(todo)[i] = todo[i + 1]
  BY DEF InputTypes, Free

\* Nothing more is done for t: what is left are jobs that were there.
LEMMA WithoutTaskTypes ==
    ASSUME InputTypes, NEW t
    PROVE  /\ WithoutTask(t) \in Seq(Job)
           /\ \A i \in 1 .. Len(WithoutTask(t)) :
                 \E j \in 1 .. Len(todo) : WithoutTask(t)[i] = todo[j]
<1> DEFINE n == Cardinality({i \in 1 .. Len(todo) : todo[i].task = t})
<1>1. todo \in Seq(Job) /\ Len(todo) \in Nat
  BY DEF InputTypes
<1>2. n \in 0 .. Len(todo)
  <2>1. IsFiniteSet(1 .. Len(todo)) /\ Cardinality(1 .. Len(todo)) = Len(todo)
    <3>1. 1 \in Int /\ Len(todo) \in Int /\ Len(todo) >= 0
      BY <1>1
    <3>2. IsFiniteSet(1 .. Len(todo))
      BY <3>1, FS_Interval
    <3>3. Cardinality(1 .. Len(todo)) = IF 1 > Len(todo) THEN 0 ELSE Len(todo) - 1 + 1
      BY <3>1, FS_Interval
    <3> QED BY <3>1, <3>2, <3>3
  <2>2. {i \in 1 .. Len(todo) : todo[i].task = t} \in SUBSET (1 .. Len(todo))
    OBVIOUS
  <2>3. IsFiniteSet({i \in 1 .. Len(todo) : todo[i].task = t}) /\ n <= Len(todo)
    BY <2>1, <2>2, FS_Subset
  <2> QED BY <1>1, <2>3, FS_CardinalityType
<1>3. WithoutTask(t) = SubSeq(todo, n + 1, Len(todo))
  BY DEF WithoutTask
<1> HIDE DEF n
<1> QED BY <1>1, <1>2, <1>3

LEMMA DeliverTypes ==
    ASSUME TaskTypes, NEW t \in Starts, NEW what \in Events, Deliver(t, what)
    PROVE  TaskTypes'
<1>1. CASE UNCHANGED task
  BY <1>1 DEF TaskTypes
<1>2. CASE /\ Len(task[t].events) < EventBuffer
           /\ task' = [task EXCEPT ![t].events = Append(@, what)]
  <2>1. task[t].events \in Seq(Events)
    BY DEF TaskTypes, Task
  <2>2. Append(task[t].events, what) \in Seq(Events)
        /\ Len(Append(task[t].events, what)) <= EventBuffer
    BY <1>2, <2>1, RemoteAssumption DEF RemoteAssumption
  <2> QED BY <1>2, <2>2, TaskEvents
<1> QED BY <1>1, <1>2 DEF Deliver

\* The holder of the mutex.
LEMMA HolderTypes ==
    ASSUME TypeOK, Holder
    PROVE  TypeOK'
<1> DEFINE t == todo[1].task
           c == ConnOf(t)
<1>0. /\ SessionTypes /\ LogTypes /\ InputTypes /\ TaskTypes /\ SendTypes /\ ProcTypes
  BY TypeParts
<1>1. ~Free
  BY DEF Holder, HandleInput, HandleMalformed, HandleEnding, HandleGap, GapError, GapMark
<1>2. /\ todo[1] \in Job /\ Tail(todo) \in Seq(Job) /\ WithoutTask(t) \in Seq(Job)
      /\ t \in Starts /\ c \in Conns
  <2>1. todo[1] \in Job /\ Tail(todo) \in Seq(Job) /\ WithoutTask(t) \in Seq(Job)
    BY <1>0, <1>1, TailTypes, WithoutTaskTypes
  <2>2. t \in Starts
    BY <2>1 DEF Job
  <2> QED BY <1>0, <2>1, <2>2 DEF TaskTypes, Task, ConnOf
<1>3. \A what \in GapSteps, rest \in Seq(Job) : Jobs(t, <<what>>) \o rest \in Seq(Job)
  <2> SUFFICES ASSUME NEW what \in GapSteps, NEW rest \in Seq(Job)
               PROVE  Jobs(t, <<what>>) \o rest \in Seq(Job)
    OBVIOUS
  <2>1. <<what>> \in Seq(Events \union GapSteps \union {Malformed})
    OBVIOUS
  <2>2. Jobs(t, <<what>>) \in Seq(Job)
    BY <1>2, <2>1, JobsTypes
  <2> QED BY <2>2
<1> HIDE DEF t, c
<1>4. SendTypes' /\ ProcTypes'
  BY <1>0 DEF Holder, HandleInput, HandleMalformed, HandleEnding, HandleGap, GapError, GapMark,
     SendTypes, ProcTypes
<1>5. ASSUME UNCHANGED <<silent, inputs, gaps>>, todo' \in Seq(Job) PROVE InputTypes'
  BY <1>0, <1>5 DEF InputTypes
<1>6. CASE HandleInput
  <2>1. Deliver(t, todo[1].what) /\ todo[1].what \in Events
    BY <1>6 DEF HandleInput, t, Events
  <2>2. todo' \in Seq(Job)
    BY <1>2, <1>6 DEF HandleInput, t
  <2>3. SessionTypes' /\ LogTypes' /\ InputTypes'
    BY <1>0, <1>5, <1>6, <2>2 DEF HandleInput, SessionTypes, LogTypes
  <2> QED BY <1>0, <1>2, <1>4, <2>1, <2>3, DeliverTypes, TypeParts
<1>7. CASE HandleMalformed
  <2>1. SessionTypes' /\ LogTypes' /\ TaskTypes'
    BY <1>0, <1>7 DEF HandleMalformed, SessionTypes, LogTypes, TaskTypes
  <2>2. InputTypes'
    BY <1>2, <1>5, <1>7 DEF HandleMalformed, t
  <2> QED BY <1>4, <2>1, <2>2, TypeParts
<1>8. CASE HandleEnding
  <2>1. LogTypes' /\ InputTypes'
    BY <1>0, <1>2, <1>5, <1>8 DEF HandleEnding, LogTypes, t
  <2>2. SessionTypes'
    <3>1. DropConnection(c) \in [Conns -> Connection]
      BY <1>0, <1>2, ClosingTypes DEF DropConnection, SessionTypes
    <3> QED BY <1>0, <1>2, <1>8, <3>1 DEF HandleEnding, SessionTypes, t, c
  <2>3. CASE UNCHANGED task
    BY <1>0, <1>4, <2>1, <2>2, <2>3, TypeParts DEF TaskTypes
  <2>4. CASE task # task'
    <3> DEFINE queue == Append(task[t].events, todo[1].what)
    <3>1. /\ Len(task[t].events) < EventBuffer /\ todo[1].what \in Events
          /\ task' = [task EXCEPT ![t].events = queue, ![t].closed = TRUE]
      BY <1>8, <2>4 DEF HandleEnding, t, Events
    <3>2. task[t].events \in Seq(Events)
      BY <1>0, <1>2 DEF TaskTypes, Task
    <3>3. queue \in Seq(Events) /\ Len(queue) <= EventBuffer
      BY <3>1, <3>2, RemoteAssumption DEF RemoteAssumption
    <3>4. TaskTypes'
      BY <1>0, <1>2, <3>1, <3>3, TaskLastEvent
    <3> QED BY <1>4, <2>1, <2>2, <3>4, TypeParts
  <2> QED BY <2>3, <2>4
<1>9. CASE HandleGap
  <2>1. SessionTypes' /\ LogTypes'
    BY <1>0, <1>9 DEF HandleGap, SessionTypes, LogTypes
  <2>2. InputTypes'
    BY <1>2, <1>3, <1>5, <1>9 DEF HandleGap, t, GapSteps
  <2>3. TaskTypes'
    BY <1>0, <1>2, <1>9, DeliverTypes DEF HandleGap, t, Events
  <2> QED BY <1>4, <2>1, <2>2, <2>3, TypeParts
<1>10. CASE GapError
  <2>1. SessionTypes' /\ TaskTypes'
    BY <1>0, <1>10 DEF GapError, SessionTypes, TaskTypes
  <2>2. InputTypes'
    BY <1>2, <1>3, <1>5, <1>10 DEF GapError, t, GapSteps
  <2>3. CASE UNCHANGED log
    BY <1>0, <1>4, <2>1, <2>2, <2>3, TypeParts DEF LogTypes
  <2>4. CASE log # log'
    <3>1. LogTypes'
      BY <1>0, <1>2, <1>10, <2>4, LogGrows DEF GapError, t, c, LogFrame
    <3> QED BY <1>4, <2>1, <2>2, <3>1, TypeParts
  <2> QED BY <2>3, <2>4
<1>11. CASE GapMark
  <2>1. LogTypes' /\ TaskTypes'
    BY <1>0, <1>11 DEF GapMark, LogTypes, TaskTypes
  <2>2. InputTypes'
    BY <1>2, <1>3, <1>5, <1>11 DEF GapMark, t, GapSteps
  <2>3. SessionTypes'
    BY <1>0, <1>2, <1>11, ClosingTypes DEF GapMark, SessionTypes, t, c
  <2> QED BY <1>4, <2>1, <2>2, <2>3, TypeParts
<1> QED BY <1>6, <1>7, <1>8, <1>9, <1>10, <1>11 DEF Holder

\* A root message comes in.
StartStep(t) == AcceptStart(t) \/ RefuseStart(t) \/ IgnoreStart(t)

LEMMA StartTypes ==
    ASSUME TypeOK, NEW t \in Starts, StartStep(t)
    PROVE  TypeOK'
<1>0. /\ SessionTypes /\ LogTypes /\ InputTypes /\ TaskTypes /\ SendTypes /\ ProcTypes
      /\ ConnOf(t) \in Conns
  BY TypeParts DEF TaskTypes, Task, ConnOf
<1>1. InputTypes' /\ SendTypes' /\ ProcTypes'
  BY <1>0 DEF StartStep, AcceptStart, RefuseStart, IgnoreStart, InputTypes, SendTypes, ProcTypes
<1>2. TaskTypes'
  BY <1>0, TaskRun DEF StartStep, AcceptStart, RefuseStart, IgnoreStart, RunStates
<1>3. LogTypes'
  <2>1. CASE UNCHANGED log
    BY <1>0, <2>1 DEF LogTypes
  <2> QED BY <1>0, <2>1, LogGrows
          DEF StartStep, AcceptStart, RefuseStart, IgnoreStart, LogFrame
<1>4. SessionTypes'
  <2>1. Registered(t, "open", t) \in Connection /\ Registered(t, "closing", NoTask) \in Connection
    BY DEF Registered, Connection
  <2> QED BY <1>0, <2>1
          DEF StartStep, AcceptStart, RefuseStart, IgnoreStart, SessionTypes
<1> QED BY <1>1, <1>2, <1>3, <1>4, TypeParts

\* A start that is overtaken is done, and forgetConn has run.
OvertakenForgets(t) ==
    \/ UNCHANGED send /\ \E cb \in callbacks : ConnOf(cb.task) = ConnOf(t) /\ Forgets(cb)
    \/ UNCHANGED callbacks /\ \E s \in Starts, a \in Agents : ConnOf(s) = ConnOf(t) /\ SendForgets(s, a)

LEMMA OvertakenParts ==
    ASSUME NEW t, StartOvertaken(t)
    PROVE  /\ Free /\ task[t].run = "new" /\ session[ConnOf(t)] = NoTask
           /\ OvertakenForgets(t)
           /\ \E owner \in {t, NoTask} :
                 conn' = [conn EXCEPT ![ConnOf(t)] =
                             [routed |-> FALSE, state |-> "open", owner |-> owner, start |-> t]]
           /\ log' = log \/ log' = [log EXCEPT ![ConnOf(t)] = Append(@, "error")]
           /\ task' = [task EXCEPT ![t].run = "done"]
           /\ UNCHANGED <<session, todo, silent, proc, ended, inputs, gaps>>
<1>1. \E owner \in {t, NoTask} :
          conn' = [conn EXCEPT ![ConnOf(t)] =
                      [routed |-> FALSE, state |-> "open", owner |-> owner, start |-> t]]
  BY Zenon DEF StartOvertaken
<1> QED BY <1>1 DEF StartOvertaken, OvertakenForgets

LEMMA OvertakenTypes ==
    ASSUME TypeOK, NEW t \in Starts, StartOvertaken(t)
    PROVE  TypeOK'
<1>0. /\ SessionTypes /\ LogTypes /\ InputTypes /\ TaskTypes /\ SendTypes /\ ProcTypes
      /\ ConnOf(t) \in Conns
  BY TypeParts DEF TaskTypes, Task, ConnOf
<1>1. InputTypes' /\ ProcTypes'
  BY <1>0, OvertakenParts DEF InputTypes, ProcTypes
<1>2. TaskTypes'
  BY <1>0, OvertakenParts, TaskRun DEF RunStates
<1>3. LogTypes'
  <2>1. CASE UNCHANGED log
    BY <1>0, <2>1 DEF LogTypes
  <2> QED BY <1>0, <2>1, OvertakenParts, LogGrows DEF LogFrame
<1>4. callbacks' \subseteq Callbacks /\ SendTypes'
  <2>1. CASE UNCHANGED send /\ \E cb \in callbacks : Forgets(cb)
    BY <1>0, <2>1, ForgetsEntries DEF SessionTypes, SendTypes
  <2>2. CASE UNCHANGED callbacks /\ \E s \in Starts, a \in Agents : SendForgets(s, a)
    <3>1. PICK s \in Starts, a \in Agents : SendForgets(s, a)
      BY <2>2
    <3> QED BY <1>0, <2>2, <3>1, StageTypes DEF SendForgets, Stages, SessionTypes
  <2> QED BY <2>1, <2>2, OvertakenParts DEF OvertakenForgets
<1>5. SessionTypes'
  <2>1. PICK owner \in {t, NoTask} :
            conn' = [conn EXCEPT ![ConnOf(t)] =
                        [routed |-> FALSE, state |-> "open", owner |-> owner, start |-> t]]
    BY OvertakenParts
  <2>2. [routed |-> FALSE, state |-> "open", owner |-> owner, start |-> t] \in Connection
    BY DEF Connection
  <2>3. conn' \in [Conns -> Connection]
    BY <1>0, <2>1, <2>2 DEF SessionTypes
  <2>4. UNCHANGED <<session, ended>>
    BY OvertakenParts
  <2> QED BY <1>0, <1>4, <2>3, <2>4 DEF SessionTypes
<1> QED BY <1>1, <1>2, <1>3, <1>4, <1>5, TypeParts

LEMMA ReceiveTypes ==
    ASSUME TypeOK, NEW c \in Conns, NEW msg \in Messages, ReceiveRemote(c, msg)
    PROVE  TypeOK'
<1>0. /\ SessionTypes /\ LogTypes /\ InputTypes /\ TaskTypes /\ SendTypes /\ ProcTypes
  BY TypeParts
<1>1. session[c] \in Starts
  BY <1>0 DEF ReceiveRemote, SessionTypes
<1>2. todo' \in Seq(Job)
  <2>1. msg \in Seq(Events \union GapSteps \union {Malformed})
    BY MessagesAssumption DEF MessagesAssumption, Frames, Events, Inputs, Endings
  <2> QED BY <1>1, <2>1, JobsTypes DEF ReceiveRemote
<1>3. InputTypes'
  BY <1>0, <1>1, <1>2, RemoteAssumption DEF ReceiveRemote, InputTypes, RemoteAssumption
<1>4. SessionTypes' /\ LogTypes' /\ TaskTypes' /\ SendTypes' /\ ProcTypes'
  BY <1>0 DEF ReceiveRemote, SessionTypes, LogTypes, TaskTypes, SendTypes, ProcTypes
<1> QED BY <1>3, <1>4, TypeParts

LEMMA SilentTypes ==
    ASSUME TypeOK, NEW c \in Conns, PeerFallsSilent(c)
    PROVE  TypeOK'
  BY DEF PeerFallsSilent, TypeOK

\* What the ticker finds, as jobs.
TickJobs(gap, timedOut) ==
    {[task |-> t, what |-> "gap"] : t \in gap} \union
    {[task |-> t, what |-> "peer_timeout"] : t \in timedOut}

LEMMA TickJobsTypes ==
    ASSUME NEW gap \in SUBSET Starts, NEW timedOut \in SUBSET Starts
    PROVE  /\ SetToSeq(TickJobs(gap, timedOut)) \in Seq(Job)
           /\ \A i \in 1 .. Len(SetToSeq(TickJobs(gap, timedOut))) :
                 SetToSeq(TickJobs(gap, timedOut))[i].task \in gap \union timedOut
<1> DEFINE jobs == TickJobs(gap, timedOut)
<1>1. jobs \subseteq Job /\ \A j \in jobs : j.task \in gap \union timedOut
  BY DEF TickJobs, Job, Events, Inputs, Endings
<1>2. IsFiniteSet(jobs)
  <2>1. IsFiniteSet(gap) /\ IsFiniteSet(timedOut)
    BY RemoteAssumption, FS_Subset DEF RemoteAssumption
  <2>2. IsFiniteSet({[task |-> t, what |-> "gap"] : t \in gap})
    <3> DEFINE f == [t \in gap |-> [task |-> t, what |-> "gap"]]
               T == {[task |-> t, what |-> "gap"] : t \in gap}
    <3>1. f \in Surjection(gap, T)
      BY DEF Surjection
    <3> QED BY <2>1, <3>1, FS_Surjection
  <2>3. IsFiniteSet({[task |-> t, what |-> "peer_timeout"] : t \in timedOut})
    <3> DEFINE f == [t \in timedOut |-> [task |-> t, what |-> "peer_timeout"]]
               T == {[task |-> t, what |-> "peer_timeout"] : t \in timedOut}
    <3>1. f \in Surjection(timedOut, T)
      BY DEF Surjection
    <3> QED BY <2>1, <3>1, FS_Surjection
  <2> QED BY <2>2, <2>3, FS_Union DEF TickJobs
<1> HIDE DEF jobs
<1>3. SetToSeq(jobs) \in Seq(jobs) /\ \A i \in 1 .. Len(SetToSeq(jobs)) : SetToSeq(jobs)[i] \in jobs
  BY <1>2, SetToSeqTypes
<1> QED BY <1>1, <1>3 DEF jobs

LEMMA TickTypes ==
    ASSUME TypeOK, Tick
    PROVE  TypeOK' /\ \A i \in 1 .. Len(todo') : \E c \in Conns : todo'[i].task = session[c]
<1>0. /\ SessionTypes /\ LogTypes /\ InputTypes /\ TaskTypes /\ SendTypes /\ ProcTypes
  BY TypeParts
<1> DEFINE live == {session[c] : c \in Sessions}
<1>1. live \subseteq Starts /\ \A t \in live : \E c \in Conns : t = session[c]
  BY <1>0 DEF Sessions, SessionTypes
<1>2. PICK gap \in SUBSET live :
          /\ gaps + Cardinality(gap) <= MaxGaps /\ gaps' = gaps + Cardinality(gap)
          /\ todo' = SetToSeq(TickJobs(gap, {t \in live \ gap : silent[t]}))
  BY DEF Tick, TickJobs
<1>3. Cardinality(gap) \in Nat
  BY <1>1, RemoteAssumption, FS_Subset, FS_CardinalityType DEF RemoteAssumption
<1> HIDE DEF live
<1>4. /\ todo' \in Seq(Job)
      /\ \A i \in 1 .. Len(todo') : todo'[i].task \in live
  <2> DEFINE timedOut == {t \in live \ gap : silent[t]}
  <2>1. gap \in SUBSET Starts /\ timedOut \in SUBSET Starts /\ gap \union timedOut \subseteq live
    BY <1>1
  <2> HIDE DEF timedOut
  <2>2. todo' = SetToSeq(TickJobs(gap, timedOut))
    BY <1>2 DEF timedOut
  <2> QED BY <2>1, <2>2, TickJobsTypes
<1>5. InputTypes'
  <2>1. gaps' \in 0 .. MaxGaps
    BY <1>0, <1>2, <1>3, RemoteAssumption DEF InputTypes, RemoteAssumption
  <2> QED BY <1>0, <1>4, <2>1 DEF Tick, InputTypes
<1>6. SessionTypes' /\ LogTypes' /\ TaskTypes' /\ SendTypes' /\ ProcTypes'
  BY <1>0 DEF Tick, SessionTypes, LogTypes, TaskTypes, SendTypes, ProcTypes
<1> QED BY <1>1, <1>4, <1>5, <1>6, TypeParts

LEMMA OutboundTypes ==
    ASSUME TypeOK, NEW c \in Conns, SessionInv(c), NEW why \in {"drained", "dropped"},
           OutboundRemoves(c, why)
    PROVE  TypeOK'
<1>0. /\ SessionTypes /\ LogTypes /\ InputTypes /\ TaskTypes /\ SendTypes /\ ProcTypes
  BY TypeParts
<1>1. conn' \in [Conns -> Connection]
  BY <1>0, ClosingTypes DEF OutboundRemoves, SessionTypes
<1>2. callbacks' \subseteq Callbacks
  <2>1. conn[c].start \in Starts
    BY DEF OutboundRemoves, SessionInv
  <2>2. \A w \in {"refused", why} : [task |-> conn[c].start, forgotten |-> FALSE, why |-> w] \in Callbacks
    BY <2>1 DEF Callbacks
  <2> QED BY <1>0, <2>2 DEF OutboundRemoves, SessionTypes
<1>3. SessionTypes'
  BY <1>0, <1>1, <1>2 DEF OutboundRemoves, SessionTypes
<1>4. LogTypes' /\ InputTypes' /\ TaskTypes' /\ SendTypes' /\ ProcTypes'
  BY <1>0 DEF OutboundRemoves, LogTypes, InputTypes, TaskTypes, SendTypes, ProcTypes
<1> QED BY <1>3, <1>4, TypeParts

LEMMA CallbackTypes ==
    ASSUME TypeOK, NEW cb \in callbacks, OutboundForgets(cb) \/ CallDrained(cb) \/ CallDropped(cb)
    PROVE  TypeOK'
<1>0. /\ SessionTypes /\ LogTypes /\ InputTypes /\ TaskTypes /\ SendTypes /\ ProcTypes
      /\ cb.task \in Starts /\ ConnOf(cb.task) \in Conns
  <2>1. SessionTypes /\ TaskTypes
    BY TypeParts
  <2>2. cb.task \in Starts
    BY <2>1 DEF SessionTypes, Callbacks
  <2> QED BY <2>1, <2>2, TypeParts DEF TaskTypes, Task, ConnOf
<1>1. LogTypes' /\ SendTypes' /\ ProcTypes'
  BY <1>0 DEF OutboundForgets, CallDrained, CallDropped, LogTypes, SendTypes, ProcTypes
<1>2. CASE CallDrained(cb)
  <2>1. InputTypes'
    BY <1>0, <1>2 DEF CallDrained, InputTypes
  <2>2. SessionTypes' /\ TaskTypes'
    BY <1>0, <1>2, CloseTypes DEF CallDrained
  <2> QED BY <1>1, <2>1, <2>2, TypeParts
<1>3. CASE CallDropped(cb)
  <2>1. SessionTypes' /\ TaskTypes'
    BY <1>0, <1>3 DEF CallDropped, SessionTypes, TaskTypes
  <2>2. todo' \in Seq(Job)
    <3> DEFINE t == session[ConnOf(cb.task)]
    <3>1. t # NoTask => t \in Starts
      BY <1>0 DEF SessionTypes
    <3>2. <<"dropped">> \in Seq(Events \union GapSteps \union {Malformed})
      BY DEF Events, Endings
    <3> HIDE DEF t
    <3>3. todo' = IF t = NoTask THEN << >> ELSE Jobs(t, <<"dropped">>)
      BY <1>3 DEF CallDropped, t
    <3>4. CASE t = NoTask
      BY <3>3, <3>4
    <3>5. CASE t # NoTask
      <4>1. Jobs(t, <<"dropped">>) \in Seq(Job)
        BY <3>1, <3>2, <3>5, JobsTypes
      <4> QED BY <3>3, <3>5, <4>1
    <3> QED BY <3>4, <3>5
  <2>3. InputTypes'
    BY <1>0, <1>3, <2>2 DEF CallDropped, InputTypes
  <2> QED BY <1>1, <2>1, <2>3, TypeParts
<1>4. CASE OutboundForgets(cb)
  <2>1. InputTypes' /\ TaskTypes'
    BY <1>0, <1>4 DEF OutboundForgets, InputTypes, TaskTypes
  <2>2. SessionTypes'
    BY <1>0, <1>4, ForgottenTypes, ForgetsEntries DEF OutboundForgets, SessionTypes
  <2> QED BY <1>1, <2>1, <2>2, TypeParts
<1> QED BY <1>2, <1>3, <1>4

LEMMA InitTypes == Init => TypeOK
<1> USE RemoteAssumption DEF RemoteAssumption
<1> SUFFICES ASSUME Init PROVE TypeOK
  OBVIOUS
<1>1. SessionTypes /\ LogTypes /\ InputTypes
  BY DEF Init, SessionTypes, LogTypes, InputTypes, NoConn, Connection
<1>2. SendTypes
  BY DEF Init, SendTypes, Idle, Call, Stages
<1>3. ProcTypes
  BY DEF Init, ProcTypes, NewProc, Process
<1>4. TaskTypes
  <2>1. PICK root \in Roots : task = [t \in Starts |-> NewTask(root[t])]
    BY DEF Init
  <2>2. \A c \in Conns : NewTask(c) \in Task /\ Len(NewTask(c).events) = 0
    BY DEF NewTask, Task, RunStates, CtlStates, CopyStates, ResultKinds
  <2> QED BY <2>1, <2>2 DEF TaskTypes
<1> QED BY <1>1, <1>2, <1>3, <1>4, TypeParts

\* The steps of the executing side, by who takes them.
LEMMA NextCases ==
    ASSUME Next
    PROVE  \/ \E t \in Starts : StartStep(t) \/ TaskStep(t) \/ \E a \in Agents : Send(t, a)
           \/ \E c \in Conns, msg \in Messages : ReceiveRemote(c, msg)
           \/ \E c \in Conns : PeerFallsSilent(c)
           \/ \E c \in Conns, why \in {"drained", "dropped"} : OutboundRemoves(c, why)
           \/ Tick
           \/ Holder
           \/ \E t \in Starts : StartOvertaken(t)
           \/ \E cb \in callbacks : OutboundForgets(cb) \/ CallDrained(cb) \/ CallDropped(cb)
  BY DEF Next, Environment, Callback, StartStep, TaskStep

LEMMA NextTypes ==
    ASSUME TypeOK, \A c \in Conns : SessionInv(c), \A t \in Starts : TaskInv(t) /\ SendInv(t), [Next]_vars
    PROVE  TypeOK'
<1>1. CASE UNCHANGED vars
  BY <1>1 DEF vars, TypeOK
<1>2. ASSUME NEW t \in Starts, TaskStep(t) PROVE TypeOK'
  <2>1. SessionTypes' /\ LogTypes' /\ InputTypes'
    BY <1>2, TaskStepLeaves, TypeParts DEF outsideVars, SessionTypes, LogTypes, InputTypes
  <2> QED BY <1>2, <2>1, TaskStepTaskTypes, TaskStepSendTypes, TaskStepProcTypes, TypeParts
<1> QED BY <1>1, <1>2, NextCases, StartTypes, OvertakenTypes, SendStepTypes, ReceiveTypes,
           SilentTypes, OutboundTypes, TickTypes, HolderTypes, CallbackTypes

-----------------------------------------------------------------------------
(***************************************************************************)
(* The goroutines and the process of a task.                               *)
(***************************************************************************)
TaskOK(t) == TaskInv(t) /\ SendInv(t)

LEMMA SameTask ==
    ASSUME NEW t, TaskOK(t), task'[t] = task[t], send'[t] = send[t], proc'[t] = proc[t]
    PROVE  TaskOK(t)'
  BY DEF TaskOK, TaskInv, SendInv

\* An event, or the end of its session, reaches a task that has started.
LEMMA ReachedTask ==
    ASSUME NEW t, TaskOK(t), task[t].run # "new", send'[t] = send[t], proc'[t] = proc[t],
           \A field \in {"run", "ctl", "copy", "ctx", "grace", "failed"} :
              task'[t][field] = task[t][field]
    PROVE  TaskOK(t)'
<1>1. /\ task'[t].run = task[t].run /\ task'[t].ctl = task[t].ctl /\ task'[t].copy = task[t].copy
      /\ task'[t].ctx = task[t].ctx /\ task'[t].grace = task[t].grace
      /\ task'[t].failed = task[t].failed
  OBVIOUS
<1> QED BY <1>1 DEF TaskOK, TaskInv, SendInv

LEMMA TaskStepOther ==
    ASSUME TypeOK, NEW t \in Starts, TaskStep(t), NEW s \in Starts \ {t}
    PROVE  task'[s] = task[s] /\ send'[s] = send[s] /\ proc'[s] = proc[s]
<1>0. TaskTypes /\ SendTypes /\ ProcTypes
  BY TypeParts
<1>1. CASE Run(t)
  BY <1>0, <1>1 DEF Run, RunSnapshot, RunStart, RunStartFails, RunWaited, RunCopied, RunReplied,
     Finish, Say, TaskTypes, SendTypes, ProcTypes
<1>2. CASE Ctl(t)
  BY <1>0, <1>2 DEF Ctl, CtlEvent, CtlNoEvent, CtlDone, CtlClosed, CtlWrites, CtlWriteFails,
     CtlFailed, Stop, Say, TaskTypes, SendTypes, ProcTypes
<1>3. CASE Copy(t)
  BY <1>0, <1>3 DEF Copy, CopyReads, CopySent, CopyEnds, Say, TaskTypes, SendTypes, ProcTypes
<1>4. CASE ProcReads(t) \/ ProcWrites(t) \/ ProcExits(t) \/ KillProc(t) \/ Reap(t)
  BY <1>0, <1>4 DEF ProcReads, ProcWrites, ProcExits, KillProc, Reap, TaskTypes, SendTypes, ProcTypes
<1> QED BY <1>1, <1>2, <1>3, <1>4 DEF TaskStep

LEMMA FinishFields ==
    ASSUME NEW t \in Starts, task \in [Starts -> Task], Finish(t)
    PROVE  /\ task'[t].run = "done" /\ task'[t].closed = TRUE /\ task'[t].ctx = TRUE
           /\ task'[t].events = task[t].events /\ task'[t].ctl = task[t].ctl
           /\ task'[t].copy = task[t].copy /\ task'[t].failed = task[t].failed
           /\ task'[t].grace = task[t].grace
  BY DEF Finish, Task

LEMMA TaskStepOK ==
    ASSUME TypeOK, NEW t \in Starts, TaskOK(t), TaskStep(t)
    PROVE  TaskOK(t)'
<1>0. /\ task \in [Starts -> Task] /\ send \in [Starts -> [Agents -> Call]]
      /\ proc \in [Starts -> Process] /\ task[t] \in Task /\ proc[t] \in Process
      /\ task[t].closed \in BOOLEAN /\ proc[t].unread \in Nat /\ proc[t].written \in Nat
  <2>1. TaskTypes /\ SendTypes /\ ProcTypes
    BY TypeParts
  <2>2. task[t] \in Task /\ proc[t] \in Process
    BY <2>1 DEF TaskTypes, ProcTypes
  <2> QED BY <2>1, <2>2 DEF TaskTypes, SendTypes, ProcTypes, Task, Process
<1> USE DEF TaskOK
<1>1. CASE RunSnapshot(t)
  <2>1. CASE session[ConnOf(t)] = NoTask
    <3>1. Finish(t) /\ task[t].run = "snapshot" /\ UNCHANGED send /\ UNCHANGED proc
      BY <1>1, <2>1 DEF RunSnapshot
    <3>2. TaskInv(t)'
      BY <1>0, <3>1, FinishFields DEF TaskInv
    <3>3. SendInv(t)'
      BY <1>0, <3>1, FinishFields DEF TaskInv, SendInv
    <3> QED BY <3>2, <3>3
  <2>2. CASE session[ConnOf(t)] # NoTask
    <3>1. /\ task[t].run = "snapshot" /\ task' = [task EXCEPT ![t].run = "start"]
          /\ UNCHANGED send /\ UNCHANGED proc
      BY <1>1, <2>2 DEF RunSnapshot
    <3>2. TaskInv(t)'
      BY <1>0, <3>1 DEF Task, TaskInv
    <3>3. SendInv(t)'
      BY <1>0, <3>1 DEF Task, TaskInv, SendInv
    <3> QED BY <3>2, <3>3
  <2> QED BY <2>1, <2>2
<1>2. CASE RunStart(t)
  <2>1. TaskInv(t)'
    BY <1>0, <1>2 DEF RunStart, PtyProcess, PipeProcess, NewProc, Task, Process, TaskInv
  <2>2. SendInv(t)'
    BY <1>0, <1>2 DEF RunStart, PtyProcess, PipeProcess, NewProc, Say, Task, Process, Call, Agents, TaskInv, SendInv
  <2> QED BY <2>1, <2>2
<1>3. CASE RunStartFails(t)
  <2>1. TaskInv(t)'
    BY <1>0, <1>3 DEF RunStartFails, Task, Process, TaskInv
  <2>2. SendInv(t)'
    BY <1>0, <1>3 DEF RunStartFails, Say, Task, Process, Call, Agents, TaskInv, SendInv
  <2> QED BY <2>1, <2>2
<1>4. CASE RunWaited(t)
  <2>1. TaskInv(t)'
    BY <1>0, <1>4 DEF RunWaited, Task, Process, TaskInv
  <2>2. SendInv(t)'
    BY <1>0, <1>4 DEF RunWaited, Say, Task, Process, Call, Agents, TaskInv, SendInv
  <2> QED BY <2>1, <2>2
<1>5. CASE RunCopied(t)
  <2>1. CASE task[t].result = "canceled"
    <3>1. Finish(t) /\ task[t].run = "copying" /\ UNCHANGED send /\ UNCHANGED proc
      BY <1>5, <2>1 DEF RunCopied
    <3>2. TaskInv(t)'
      BY <1>0, <3>1, FinishFields DEF TaskInv
    <3>3. SendInv(t)'
      BY <1>0, <3>1, FinishFields DEF TaskInv, SendInv
    <3> QED BY <3>2, <3>3
  <2>2. CASE task[t].result # "canceled"
    <3>1. PICK frame \in {"error", "exit"} :
              /\ frame = "exit" => ~task[t].failed
              /\ Say(t, "run", frame)
      BY <1>5, <2>2 DEF RunCopied
    <3>2. /\ task[t].run = "copying" /\ task[t].copy = "done" /\ UNCHANGED proc
          /\ task' = [task EXCEPT ![t].run = "reply"]
      BY <1>5, <2>2 DEF RunCopied
    <3>3. TaskInv(t)'
      BY <1>0, <3>2 DEF Task, TaskInv
    <3>4. SendInv(t)'
      BY <1>0, <3>1, <3>2 DEF Say, Task, Call, Agents, TaskInv, SendInv
    <3> QED BY <3>3, <3>4
  <2> QED BY <2>1, <2>2
<1>6. CASE RunReplied(t)
  <2>1. TaskInv(t)'
    BY <1>0, <1>6 DEF RunReplied, Finish, Said, Task, Process, TaskInv
  <2>2. SendInv(t)'
    BY <1>0, <1>6 DEF RunReplied, Finish, Said, Say, Task, Process, Call, Agents, TaskInv, SendInv
  <2> QED BY <2>1, <2>2
<1>7. CASE CtlNoEvent(t)
  <2>1. TaskInv(t)'
    BY <1>0, <1>7 DEF CtlNoEvent, Task, Process, TaskInv
  <2>2. SendInv(t)'
    BY <1>0, <1>7 DEF CtlNoEvent, Say, Task, Process, Call, Agents, TaskInv, SendInv
  <2> QED BY <2>1, <2>2
<1>8. CASE CtlDone(t)
  <2>1. TaskInv(t)'
    BY <1>0, <1>8 DEF CtlDone, Task, Process, TaskInv
  <2>2. SendInv(t)'
    BY <1>0, <1>8 DEF CtlDone, Say, Task, Process, Call, Agents, TaskInv, SendInv
  <2> QED BY <2>1, <2>2
<1>9. CASE CtlClosed(t)
  <2>1. TaskInv(t)'
    BY <1>0, <1>9 DEF CtlClosed, Stop, Killed, Task, Process, TaskInv
  <2>2. SendInv(t)'
    BY <1>0, <1>9 DEF CtlClosed, Stop, Killed, Say, Task, Process, Call, Agents, TaskInv, SendInv
  <2> QED BY <2>1, <2>2
<1>10. CASE CtlWrites(t)
  <2>1. CASE proc[t].state # "running"
    <3>1. TaskInv(t)'
      BY <1>0, <1>10, <2>1 DEF CtlWrites, Task, Process, TaskInv
    <3>2. SendInv(t)'
      BY <1>0, <1>10, <2>1 DEF CtlWrites, Say, Task, Process, Call, Agents, TaskInv, SendInv
    <3> QED BY <3>1, <3>2
  <2>2. CASE proc[t].state = "running"
    <3>1. TaskInv(t)'
      <4>1. /\ task[t].ctl = "write" /\ task' = [task EXCEPT ![t].ctl = "poll"]
            /\ proc' = [proc EXCEPT ![t].stdin = @ + 1]
        BY <1>10, <2>2 DEF CtlWrites
      <4>2. /\ proc'[t].state = proc[t].state /\ proc'[t].pty = proc[t].pty
            /\ proc'[t].unread = proc[t].unread /\ proc'[t].written = proc[t].written
        BY <1>0, <4>1 DEF Process
      <4> QED BY <1>0, <4>1, <4>2 DEF Task, TaskInv
    <3>2. SendInv(t)'
      BY <1>0, <1>10, <2>2 DEF CtlWrites, Say, Task, Process, Call, Agents, TaskInv, SendInv
    <3> QED BY <3>1, <3>2
  <2> QED BY <2>1, <2>2
<1>11. CASE CtlWriteFails(t)
  <2>1. TaskInv(t)'
    BY <1>0, <1>11 DEF CtlWriteFails, Task, Process, TaskInv
  <2>2. SendInv(t)'
    BY <1>0, <1>11 DEF CtlWriteFails, Say, Task, Process, Call, Agents, TaskInv, SendInv
  <2> QED BY <2>1, <2>2
<1>12. CASE CtlFailed(t)
  <2>1. TaskInv(t)'
    BY <1>0, <1>12 DEF CtlFailed, Stop, Killed, Task, Process, TaskInv
  <2>2. SendInv(t)'
    BY <1>0, <1>12 DEF CtlFailed, Said, Stop, Killed, Task, Process, Call, Agents, TaskInv, SendInv
  <2> QED BY <2>1, <2>2
<1>13. CASE CopyReads(t)
  <2>1. TaskInv(t)'
    BY <1>0, <1>13 DEF CopyReads, Task, Process, TaskInv
  <2>2. SendInv(t)'
    BY <1>0, <1>13 DEF CopyReads, Say, Task, Process, Call, Agents, TaskInv, SendInv
  <2> QED BY <2>1, <2>2
<1>14. CASE CopySent(t)
  <2>1. TaskInv(t)'
    BY <1>0, <1>14 DEF CopySent, Said, Task, Process, TaskInv
  <2>2. SendInv(t)'
    BY <1>0, <1>14 DEF CopySent, Said, Say, Task, Process, Call, Agents, TaskInv, SendInv
  <2> QED BY <2>1, <2>2
<1>15. CASE CopyEnds(t)
  <2>1. TaskInv(t)'
    BY <1>0, <1>15 DEF CopyEnds, Task, Process, TaskInv
  <2>2. SendInv(t)'
    BY <1>0, <1>15 DEF CopyEnds, Say, Task, Process, Call, Agents, TaskInv, SendInv
  <2> QED BY <2>1, <2>2
<1>16. CASE ProcReads(t)
  <2>1. TaskInv(t)'
    BY <1>0, <1>16 DEF ProcReads, Task, Process, TaskInv
  <2>2. SendInv(t)'
    BY <1>0, <1>16 DEF ProcReads, Say, Task, Process, Call, Agents, TaskInv, SendInv
  <2> QED BY <2>1, <2>2
<1>17. CASE ProcWrites(t)
  <2>1. TaskInv(t)'
    BY <1>0, <1>17 DEF ProcWrites, Task, Process, TaskInv
  <2>2. SendInv(t)'
    BY <1>0, <1>17 DEF ProcWrites, Say, Task, Process, Call, Agents, TaskInv, SendInv
  <2> QED BY <2>1, <2>2
<1>18. CASE ProcExits(t)
  <2>1. TaskInv(t)'
    BY <1>0, <1>18 DEF ProcExits, Task, Process, TaskInv
  <2>2. SendInv(t)'
    BY <1>0, <1>18 DEF ProcExits, Say, Task, Process, Call, Agents, TaskInv, SendInv
  <2> QED BY <2>1, <2>2
<1>19. CASE KillProc(t)
  <2>1. TaskInv(t)'
    BY <1>0, <1>19 DEF KillProc, Killed, Task, Process, TaskInv
  <2>2. SendInv(t)'
    BY <1>0, <1>19 DEF KillProc, Killed, Say, Task, Process, Call, Agents, TaskInv, SendInv
  <2> QED BY <2>1, <2>2
<1>20. CASE Reap(t)
  <2>1. TaskInv(t)'
    BY <1>0, <1>20 DEF Reap, Task, Process, TaskInv
  <2>2. SendInv(t)'
    BY <1>0, <1>20 DEF Reap, Say, Task, Process, Call, Agents, TaskInv, SendInv
  <2> QED BY <2>1, <2>2
<1>21. CASE CtlEvent(t)
  <2> DEFINE rest == Tail(task[t].events)
  <2>0. /\ task[t].ctl \in {"poll", "select"} /\ UNCHANGED send
        /\ \/ /\ \/ task' = [task EXCEPT ![t].events = rest, ![t].ctl = "write"]
                 \/ task' = [task EXCEPT ![t].events = rest, ![t].ctl = "poll"]
              /\ UNCHANGED proc
           \/ /\ task' = [task EXCEPT ![t].events = rest, ![t].ctl = "done", ![t].grace = TRUE]
              /\ proc' = [proc EXCEPT ![t].sigint = TRUE]
           \/ /\ task' = [task EXCEPT ![t].events = rest, ![t].ctl = "done", ![t].ctx = TRUE]
              /\ proc' = [proc EXCEPT ![t] = Killed(@)]
    BY <1>21 DEF CtlEvent
  <2> HIDE DEF rest
  <2>1. CASE /\ UNCHANGED proc
             /\ task' = [task EXCEPT ![t].events = rest, ![t].ctl = "write"]
    <3>1. TaskInv(t)'
      BY <1>0, <2>0, <2>1 DEF Task, Process, TaskInv
    <3>2. SendInv(t)'
      BY <1>0, <2>0, <2>1 DEF Task, Process, Call, Agents, TaskInv, SendInv
    <3> QED BY <3>1, <3>2
  <2>2. CASE /\ UNCHANGED proc
             /\ task' = [task EXCEPT ![t].events = rest, ![t].ctl = "poll"]
    <3>1. TaskInv(t)'
      BY <1>0, <2>0, <2>2 DEF Task, Process, TaskInv
    <3>2. SendInv(t)'
      BY <1>0, <2>0, <2>2 DEF Task, Process, Call, Agents, TaskInv, SendInv
    <3> QED BY <3>1, <3>2
  <2>3. CASE /\ proc' = [proc EXCEPT ![t].sigint = TRUE]
             /\ task' = [task EXCEPT ![t].events = rest, ![t].ctl = "done", ![t].grace = TRUE]
    <3>1. TaskInv(t)'
      BY <1>0, <2>0, <2>3 DEF Task, Process, TaskInv
    <3>2. SendInv(t)'
      BY <1>0, <2>0, <2>3 DEF Task, Process, Call, Agents, TaskInv, SendInv
    <3> QED BY <3>1, <3>2
  <2>4. CASE /\ proc' = [proc EXCEPT ![t] = Killed(@)]
             /\ task' = [task EXCEPT ![t].events = rest, ![t].ctl = "done", ![t].ctx = TRUE]
    <3>1. TaskInv(t)'
      BY <1>0, <2>0, <2>4 DEF Killed, Task, Process, TaskInv
    <3>2. SendInv(t)'
      BY <1>0, <2>0, <2>4 DEF Killed, Task, Process, Call, Agents, TaskInv, SendInv
    <3> QED BY <3>1, <3>2
  <2> QED BY <2>0, <2>1, <2>2, <2>3, <2>4
<1> QED BY <1>1, <1>2, <1>3, <1>4, <1>5, <1>6, <1>7, <1>8, <1>9, <1>10, <1>11, <1>12, <1>13, <1>14, <1>15, <1>16, <1>17, <1>18, <1>19, <1>20, <1>21 DEF TaskStep, Run, Ctl, Copy

\* What closing the session of c does to a task: at most it is closed.
Reached(s) ==
    /\ task[s].run # "new"
    /\ \A field \in {"connID", "run", "ctl", "copy", "ctx", "grace", "failed"} :
          task'[s][field] = task[s][field]

LEMMA CloseReaches ==
    ASSUME TypeOK, NEW c \in Conns, SessionInv(c), NEW why, closeRemoteLocked(c, why),
           NEW s \in Starts
    PROVE  task'[s] = task[s] \/ (Reached(s) /\ s = session[c])
<1>0. task \in [Starts -> Task] /\ task[s] \in Task
  BY TypeParts DEF TaskTypes
<1>1. CASE session[c] = NoTask
  BY <1>1 DEF closeRemoteLocked
<1>2. CASE session[c] # NoTask
  <2>1. task[session[c]].run # "new" /\ task' = [task EXCEPT ![session[c]].closed = TRUE]
    BY <1>2 DEF closeRemoteLocked, SessionInv
  <2>2. CASE s = session[c]
    BY <1>0, <2>1, <2>2 DEF Task, Reached
  <2> QED BY <1>0, <2>1, <2>2
<1> QED BY <1>1, <1>2

LEMMA StageFields ==
    ASSUME SendTypes, NEW t \in Starts, NEW a \in Agents, NEW stage, Stage(t, a, stage)
    PROVE  /\ \A s \in Starts, b \in Agents : s # t \/ b # a => send'[s][b] = send[s][b]
           /\ \A s \in Starts : s # t => send'[s] = send[s]
           /\ stage = "idle" => send'[t][a] = Idle
           /\ stage # "idle" => /\ send'[t][a].stage = stage
                               /\ send'[t][a].frame = send[t][a].frame
<1>1. CASE stage = "idle"
  BY <1>1 DEF Stage, SendTypes
<1>2. CASE stage # "idle"
  BY <1>2 DEF Stage, SendTypes, Call
<1> QED BY <1>1, <1>2

\* A call moves on: what it sends is the same until it has ended.
LEMMA StageOK ==
    ASSUME SendTypes, NEW t \in Starts, NEW a \in Agents, NEW stage, Stage(t, a, stage),
           send[t][a].stage # "idle", a = "copy" => stage \in {"idle", "check", "enqueue"},
           NEW s \in Starts, TaskOK(s), UNCHANGED proc,
           \A field \in {"run", "ctl", "copy", "ctx", "grace", "failed"} :
              task'[s][field] = task[s][field],
           task'[s] = task[s] \/ task[s].run # "new"
    PROVE  TaskOK(s)'
<1>1. /\ task'[s].run = task[s].run /\ task'[s].ctl = task[s].ctl /\ task'[s].copy = task[s].copy
      /\ task'[s].ctx = task[s].ctx /\ task'[s].grace = task[s].grace
      /\ task'[s].failed = task[s].failed
  OBVIOUS
<1>2. TaskInv(s)'
  BY <1>1 DEF TaskOK, TaskInv
<1>3. CASE s # t
  BY <1>1, <1>2, <1>3, StageFields DEF TaskOK, SendInv
<1>4. CASE s = t
  <2>1. SendInv(s)
    BY DEF TaskOK
  <2>2. SendInv(s)'
    <3>1. CASE stage = "idle"
      BY <1>1, <1>4, <2>1, <3>1, StageFields DEF SendInv, Idle, Agents
    <3>2. CASE stage # "idle"
      BY <1>1, <1>4, <2>1, <3>2, StageFields DEF SendInv, Agents
    <3> QED BY <3>1, <3>2
  <2> QED BY <1>2, <2>2 DEF TaskOK
<1> QED BY <1>3, <1>4

LEMMA SendForgetsOK ==
    ASSUME SendTypes, NEW t \in Starts, NEW a \in Agents, SendForgets(t, a), TaskOK(t),
           NEW s \in Starts, TaskOK(s), UNCHANGED proc, task'[s] = task[s]
    PROVE  TaskOK(s)'
<1>1. /\ send[t][a].stage # "idle" /\ a # "copy"
      /\ \E stage \in {"idle", "drained"} : Stage(t, a, stage)
  BY DEF SendForgets, TaskOK, SendInv
<1> QED BY <1>1, StageOK

\* Who is sending, has started.
LEMMA SenderStarted ==
    ASSUME NEW t, TaskOK(t), NEW a \in Agents, send[t][a].stage # "idle"
    PROVE  task[t].run # "new"
<1>1. CASE a = "run"
  BY <1>1 DEF TaskOK, SendInv
<1>2. CASE a = "ctl"
  BY <1>2 DEF TaskOK, TaskInv, SendInv
<1>3. CASE a = "copy"
  BY <1>3 DEF TaskOK, TaskInv, SendInv
<1> QED BY <1>1, <1>2, <1>3 DEF Agents

LEMMA SendStepOK ==
    ASSUME TypeOK, NEW t \in Starts, NEW a \in Agents, Send(t, a), TaskOK(t),
           SessionInv(ConnOf(t)), NEW s \in Starts, TaskOK(s)
    PROVE  TaskOK(s)'
<1>0. /\ SendTypes /\ task \in [Starts -> Task] /\ task[s] \in Task /\ task[t] \in Task
      /\ ConnOf(t) \in Conns
  <2>1. SendTypes /\ TaskTypes
    BY TypeParts
  <2>2. task[s] \in Task /\ task[t] \in Task
    BY <2>1 DEF TaskTypes
  <2> QED BY <2>1, <2>2 DEF TaskTypes, ConnOf, Task
<1>1. CASE SendCheck(t, a)
  BY <1>0, <1>1, StageOK DEF SendCheck
<1>2. CASE SendEnqueue(t, a)
  <2>1. send[t][a].stage = "enqueue" /\ UNCHANGED proc
    BY <1>2 DEF SendEnqueue
  <2>2. CASE Found(ConnOf(t))
    <3>1. a = "copy" => send[t][a].frame = "output"
      BY <2>1 DEF TaskOK, SendInv
    <3> QED BY <1>0, <1>2, <2>1, <2>2, <3>1, StageOK DEF SendEnqueue
  <2>3. CASE ~Found(ConnOf(t))
    <3>1. Stage(t, a, "idle")
      BY <1>2, <2>3 DEF SendEnqueue
    <3>2. CASE UNCHANGED task
      BY <1>0, <2>1, <3>1, <3>2, StageOK
    <3>3. CASE a = "copy" /\ task' = [task EXCEPT ![t].failed = TRUE]
      <4>1. CASE s # t
        BY <1>0, <2>1, <3>1, <3>3, <4>1, StageFields, SameTask
      <4>2. CASE s = t
        <5>1. task[t].copy = "send"
          BY <2>1, <3>3 DEF TaskOK, SendInv
        <5>2. /\ task'[t].run = task[t].run /\ task'[t].ctl = task[t].ctl
              /\ task'[t].copy = task[t].copy /\ task'[t].ctx = task[t].ctx
              /\ task'[t].grace = task[t].grace /\ task'[t].closed = task[t].closed
              /\ task'[t].events = task[t].events
          BY <1>0, <3>3 DEF Task
        <5>3. TaskInv(t)'
          BY <2>1, <5>1, <5>2 DEF TaskOK, TaskInv
        <5>4. SendInv(t)'
          BY <1>0, <2>1, <3>1, <3>3, <5>1, <5>2, StageFields DEF TaskOK, SendInv, Idle, Agents
        <5> QED BY <4>2, <5>3, <5>4 DEF TaskOK
      <4> QED BY <4>1, <4>2
    <3> QED BY <1>2, <2>3, <3>2, <3>3 DEF SendEnqueue
  <2> QED BY <2>2, <2>3
<1>3. CASE SendMark(t, a)
  <2>1. /\ send[t][a].stage = "mark" /\ UNCHANGED task /\ UNCHANGED proc
        /\ \E stage \in {"idle", "forget", "forget_refused"} : Stage(t, a, stage)
    BY <1>3 DEF SendMark
  <2>2. a # "copy"
    BY <2>1 DEF TaskOK, SendInv
  <2> QED BY <1>0, <2>1, <2>2, StageOK
<1>4. CASE SendDrained(t, a)
  <2>1. /\ send[t][a].stage = "drained" /\ Stage(t, a, "idle") /\ UNCHANGED proc
        /\ closeRemoteLocked(ConnOf(t), "drained")
    BY <1>4 DEF SendDrained
  <2>2. task'[s] = task[s] \/ Reached(s)
    BY <1>0, <2>1, CloseReaches
  <2> QED BY <1>0, <2>1, <2>2, StageOK DEF Reached
<1>5. CASE SendForget(t, a)
  <2>1. SendForgets(t, a) /\ UNCHANGED <<task, proc>>
    BY <1>5 DEF SendForget
  <2> QED BY <1>0, <2>1, SendForgetsOK
<1> QED BY <1>1, <1>2, <1>3, <1>4, <1>5 DEF Send

\* What Deliver does: nothing, or the event goes to the end of the queue.
LEMMA DeliverReaches ==
    ASSUME TaskTypes, NEW t \in Starts, task[t].run # "new", NEW what, Deliver(t, what),
           NEW s \in Starts
    PROVE  /\ s # t => task'[s] = task[s]
           /\ task'[s] = task[s] \/ Reached(s)
<1>1. task \in [Starts -> Task] /\ task[t] \in Task
  BY DEF TaskTypes
<1>2. CASE UNCHANGED task
  BY <1>2
<1>3. CASE task' = [task EXCEPT ![t].events = Append(@, what)]
  BY <1>1, <1>3 DEF Task, Reached
<1> QED BY <1>2, <1>3 DEF Deliver

\* The end of a session reaches its task, and no other.
LEMMA EndingReaches ==
    ASSUME TypeOK, JobsInv, HandleEnding, NEW s \in Starts
    PROVE  /\ s # todo[1].task => task'[s] = task[s]
           /\ task'[s] = task[s] \/ Reached(s)
<1> DEFINE t == todo[1].task
           what == todo[1].what
<1>1. TaskTypes /\ InputTypes /\ ~Free
  BY TypeParts DEF HandleEnding
<1>2. t \in Starts /\ task[t].run # "new"
  <2>1. todo[1] \in Job /\ 1 \in 1 .. Len(todo)
    BY <1>1, TailTypes DEF InputTypes
  <2> QED BY <2>1 DEF Job, JobsInv, TodoInv
<1>3. \/ UNCHANGED task
      \/ task' = [task EXCEPT ![t].events = Append(@, what), ![t].closed = TRUE]
  BY DEF HandleEnding
<1> HIDE DEF t, what
<1>4. task \in [Starts -> Task] /\ task[t] \in Task
  BY <1>1, <1>2 DEF TaskTypes
<1>5. CASE task' = [task EXCEPT ![t].events = Append(@, what), ![t].closed = TRUE]
  <2>1. s # t => task'[s] = task[s]
    BY <1>2, <1>4, <1>5
  <2>2. s = t => Reached(s)
    BY <1>2, <1>4, <1>5 DEF Task, Reached
  <2> QED BY <2>1, <2>2 DEF t
<1> QED BY <1>3, <1>5 DEF t

LEMMA HolderReaches ==
    ASSUME TypeOK, JobsInv, Holder, NEW s \in Starts
    PROVE  task'[s] = task[s] \/ Reached(s)
<1>1. TaskTypes /\ InputTypes
  BY TypeParts
<1>2. ~Free => todo[1].task \in Starts /\ task[todo[1].task].run # "new"
  <2>1. ~Free => todo[1] \in Job /\ 1 \in 1 .. Len(todo)
    BY <1>1, TailTypes DEF InputTypes
  <2> QED BY <2>1 DEF Job, JobsInv, TodoInv
<1>3. CASE HandleInput \/ HandleGap
  BY <1>1, <1>2, <1>3, DeliverReaches DEF HandleInput, HandleGap
<1>4. CASE HandleEnding
  BY <1>4, EndingReaches
<1>5. CASE HandleMalformed \/ GapError \/ GapMark
  BY <1>5 DEF HandleMalformed, GapError, GapMark
<1> QED BY <1>3, <1>4, <1>5 DEF Holder

LEMMA StartOK ==
    ASSUME TypeOK, NEW t \in Starts, StartStep(t), NEW s \in Starts, TaskOK(s)
    PROVE  TaskOK(s)'
<1>0. task \in [Starts -> Task] /\ task[t] \in Task
  BY TypeParts DEF TaskTypes
<1>1. /\ UNCHANGED send /\ UNCHANGED proc /\ task[t].run = "new"
      /\ \E run \in {"snapshot", "done"} : task' = [task EXCEPT ![t].run = run]
  BY DEF StartStep, AcceptStart, RefuseStart, IgnoreStart
<1>2. CASE s # t
  BY <1>0, <1>1, <1>2, SameTask
<1>3. CASE s = t
  <2>1. TaskInv(s)'
    BY <1>0, <1>1, <1>3 DEF TaskOK, TaskInv, Task
  <2>2. SendInv(s)'
    BY <1>0, <1>1, <1>3 DEF TaskOK, SendInv, Task
  <2> QED BY <2>1, <2>2 DEF TaskOK
<1> QED BY <1>2, <1>3

LEMMA OvertakenOK ==
    ASSUME TypeOK, \A r \in Starts : TaskOK(r), NEW t \in Starts, StartOvertaken(t), NEW s \in Starts
    PROVE  TaskOK(s)'
<1>0. /\ task \in [Starts -> Task] /\ task[t] \in Task /\ SendTypes
      /\ task' = [task EXCEPT ![t].run = "done"] /\ task[t].run = "new" /\ UNCHANGED proc
  BY TypeParts, OvertakenParts DEF TaskTypes
<1>1. CASE s # t
  <2>0. task'[s] = task[s] /\ TaskOK(s)
    BY <1>0, <1>1
  <2>1. CASE UNCHANGED send
    BY <1>0, <2>0, <2>1, SameTask
  <2>2. ASSUME NEW r \in Starts, NEW a \in Agents, SendForgets(r, a) PROVE TaskOK(s)'
    BY <1>0, <2>0, <2>2, SendForgetsOK
  <2> QED BY <2>1, <2>2, OvertakenParts DEF OvertakenForgets
<1>2. CASE s = t
  <2>1. TaskInv(t)'
    BY <1>0 DEF TaskOK, TaskInv, Task
  <2>2. send'[t] = send[t]
    <3>1. CASE UNCHANGED send
      BY <3>1
    <3>2. ASSUME NEW r \in Starts, NEW a \in Agents, SendForgets(r, a) PROVE send'[t] = send[t]
      <4>1. send[r][a].stage # "idle" /\ \E stage : Stage(r, a, stage)
        BY <3>2 DEF SendForgets
      <4>2. r # t
        BY <1>0, <4>1, SenderStarted
      <4> QED BY <1>0, <4>1, <4>2, StageFields
    <3> QED BY <3>1, <3>2, OvertakenParts DEF OvertakenForgets
  <2>3. SendInv(t)'
    BY <1>0, <2>2 DEF TaskOK, TaskInv, SendInv, Task
  <2> QED BY <1>2, <2>1, <2>3 DEF TaskOK
<1> QED BY <1>1, <1>2

LEMMA NextTasksOK ==
    ASSUME TypeOK, JobsInv, \A c \in Conns : SessionInv(c), \A t \in Starts : TaskOK(t),
           [Next]_vars
    PROVE  \A t \in Starts : TaskOK(t)'
<1> SUFFICES ASSUME NEW s \in Starts PROVE TaskOK(s)'
  OBVIOUS
<1>0. \A t \in Starts : ConnOf(t) \in Conns
  BY TypeParts DEF TaskTypes, Task, ConnOf
<1>1. CASE UNCHANGED vars
  BY <1>1, SameTask DEF vars
<1>2. ASSUME NEW t \in Starts, TaskStep(t) PROVE TaskOK(s)'
  <2>1. CASE s = t
    BY <1>2, <2>1, TaskStepOK
  <2>2. CASE s # t
    BY <1>2, <2>2, TaskStepOther, SameTask
  <2> QED BY <2>1, <2>2
<1>3. ASSUME NEW t \in Starts, StartStep(t) PROVE TaskOK(s)'
  BY <1>3, StartOK
<1>4. ASSUME NEW t \in Starts, NEW a \in Agents, Send(t, a) PROVE TaskOK(s)'
  BY <1>0, <1>4, SendStepOK
<1>5. ASSUME UNCHANGED <<task, send, proc>> PROVE TaskOK(s)'
  BY <1>5, SameTask
<1>6. ASSUME UNCHANGED <<send, proc>>, task'[s] = task[s] \/ Reached(s) PROVE TaskOK(s)'
  <2>1. CASE Reached(s)
    BY <1>6, <2>1, ReachedTask DEF Reached
  <2> QED BY <1>6, <2>1, SameTask
<1>7. ASSUME NEW c \in Conns, \/ \E msg \in Messages : ReceiveRemote(c, msg)
                              \/ PeerFallsSilent(c)
                              \/ \E why \in {"drained", "dropped"} : OutboundRemoves(c, why)
      PROVE  TaskOK(s)'
  BY <1>5, <1>7 DEF ReceiveRemote, PeerFallsSilent, OutboundRemoves
<1>8. CASE Tick
  BY <1>5, <1>8 DEF Tick
<1>9. CASE Holder
  <2>1. UNCHANGED <<send, proc>>
    BY <1>9 DEF Holder, HandleInput, HandleMalformed, HandleEnding, HandleGap, GapError, GapMark
  <2> QED BY <1>6, <1>9, <2>1, HolderReaches
<1>10. ASSUME NEW cb \in callbacks, OutboundForgets(cb) \/ CallDrained(cb) \/ CallDropped(cb)
       PROVE  TaskOK(s)'
  <2>1. CASE OutboundForgets(cb) \/ CallDropped(cb)
    BY <1>5, <2>1 DEF OutboundForgets, CallDropped
  <2>2. CASE CallDrained(cb)
    <3>1. cb.task \in Starts
      BY TypeParts DEF SessionTypes, Callbacks
    <3> QED BY <1>0, <1>6, <2>2, <3>1, CloseReaches DEF CallDrained
  <2> QED BY <1>10, <2>1, <2>2
<1> QED BY <1>1, <1>2, <1>3, <1>4, <1>7, <1>8, <1>9, <1>10, OvertakenOK, NextCases

-----------------------------------------------------------------------------
(***************************************************************************)
(* Sessions, connections and what is due.                                  *)
(***************************************************************************)

\* A task keeps its connection, and has started once it has.
Goes(s) ==
    /\ task'[s].connID = task[s].connID
    /\ task[s].run # "new" => task'[s].run # "new"
    /\ task[s].run = "done" => task'[s].run = "done"

LEMMA TaskStepGoes ==
    ASSUME TypeOK, NEW t \in Starts, TaskStep(t), TaskOK(t), NEW s \in Starts
    PROVE  Goes(s)
<1>0. task \in [Starts -> Task] /\ task[t] \in Task
  BY TypeParts DEF TaskTypes
<1>1. CASE s # t
  BY <1>1, TaskStepOther DEF Goes
<1>2. CASE s = t
  <2>1. CASE UNCHANGED task
    BY <2>1 DEF Goes
  <2>2. CASE Finish(t)
    BY <1>0, <1>2, <2>2 DEF Finish, Task, Goes
  <2>3. CASE RunSnapshot(t)
    <3>1. task[t].run = "snapshot" /\ (Finish(t) \/ task' = [task EXCEPT ![t].run = "start"])
      BY <2>3 DEF RunSnapshot
    <3> QED BY <1>0, <1>2, <2>2, <3>1 DEF Task, Goes
  <2>4. CASE RunStart(t)
    BY <1>0, <1>2, <2>4 DEF RunStart, Task, Goes
  <2>5. CASE RunStartFails(t)
    BY <1>0, <1>2, <2>5 DEF RunStartFails, Task, Goes
  <2>6. CASE RunWaited(t)
    BY <1>0, <1>2, <2>6 DEF RunWaited, Task, Goes
  <2>7. CASE RunCopied(t)
    <3>1. task[t].run = "copying" /\ (Finish(t) \/ task' = [task EXCEPT ![t].run = "reply"])
      BY <2>7 DEF RunCopied
    <3> QED BY <1>0, <1>2, <2>2, <3>1 DEF Task, Goes
  <2>8. CASE CtlNoEvent(t)
    BY <1>0, <1>2, <2>8 DEF CtlNoEvent, Task, Goes
  <2>9. CASE CtlDone(t)
    BY <1>0, <1>2, <2>9 DEF CtlDone, Task, Goes
  <2>10. CASE CtlClosed(t)
    BY <1>0, <1>2, <2>10 DEF CtlClosed, Stop, Task, Goes
  <2>11. CASE CtlWrites(t)
    BY <1>0, <1>2, <2>11 DEF CtlWrites, Task, Goes
  <2>12. CASE CtlWriteFails(t)
    BY <1>0, <1>2, <2>12 DEF CtlWriteFails, Task, Goes
  <2>13. CASE CtlFailed(t)
    BY <1>0, <1>2, <2>13 DEF CtlFailed, Stop, Task, Goes
  <2>14. CASE CopyReads(t)
    BY <1>0, <1>2, <2>14 DEF CopyReads, Task, Goes
  <2>15. CASE CopySent(t)
    BY <1>0, <1>2, <2>15 DEF CopySent, Task, Goes
  <2>16. CASE CopyEnds(t)
    BY <1>0, <1>2, <2>16 DEF CopyEnds, Task, Goes
  <2>17. CASE Reap(t)
    BY <1>0, <1>2, <2>17 DEF Reap, Task, Goes
  <2>18. CASE CtlEvent(t)
    <3> DEFINE rest == Tail(task[t].events)
    <3>1. \/ \E ctl : task' = [task EXCEPT ![t].events = rest, ![t].ctl = ctl]
          \/ \E ctl : task' = [task EXCEPT ![t].events = rest, ![t].ctl = ctl, ![t].grace = TRUE]
          \/ \E ctl : task' = [task EXCEPT ![t].events = rest, ![t].ctl = ctl, ![t].ctx = TRUE]
      BY <2>18 DEF CtlEvent
    <3> HIDE DEF rest
    <3>2. ASSUME NEW ctl, task' = [task EXCEPT ![t].events = rest, ![t].ctl = ctl] PROVE Goes(t)
      BY <1>0, <3>2 DEF Task, Goes
    <3>3. ASSUME NEW ctl, task' = [task EXCEPT ![t].events = rest, ![t].ctl = ctl, ![t].grace = TRUE]
          PROVE  Goes(t)
      BY <1>0, <3>3 DEF Task, Goes
    <3>4. ASSUME NEW ctl, task' = [task EXCEPT ![t].events = rest, ![t].ctl = ctl, ![t].ctx = TRUE]
          PROVE  Goes(t)
      BY <1>0, <3>4 DEF Task, Goes
    <3> QED BY <1>2, <3>1, <3>2, <3>3, <3>4
  <2> QED BY <2>1, <2>2, <2>3, <2>4, <2>5, <2>6, <2>7, <2>8, <2>9, <2>10, <2>11, <2>12, <2>13, <2>14, <2>15, <2>16, <2>17, <2>18 DEF TaskStep, Run, Ctl, Copy, RunReplied,
             ProcReads, ProcWrites, ProcExits, KillProc
<1> QED BY <1>1, <1>2

LEMMA NextGoes ==
    ASSUME TypeOK, JobsInv, \A c \in Conns : SessionInv(c), \A t \in Starts : TaskOK(t),
           [Next]_vars, NEW s \in Starts
    PROVE  Goes(s)
<1>0. /\ task \in [Starts -> Task] /\ \A t \in Starts : task[t] \in Task
      /\ \A t \in Starts : ConnOf(t) \in Conns
  BY TypeParts DEF TaskTypes, Task, ConnOf
<1>1. ASSUME task'[s] = task[s] \/ Reached(s) PROVE Goes(s)
  BY <1>1 DEF Reached, Goes
<1>2. ASSUME NEW t \in Starts, StartStep(t) PROVE Goes(s)
  <2>1. task[t].run = "new" /\ \E run \in {"snapshot", "done"} : task' = [task EXCEPT ![t].run = run]
    BY <1>2 DEF StartStep, AcceptStart, RefuseStart, IgnoreStart
  <2> QED BY <1>0, <2>1 DEF Task, Goes
<1>3. ASSUME NEW t \in Starts, NEW a \in Agents, Send(t, a) PROVE Goes(s)
  <2>1. CASE SendDrained(t, a)
    BY <1>0, <1>1, <2>1, CloseReaches DEF SendDrained
  <2>2. CASE UNCHANGED task
    BY <2>2 DEF Goes
  <2>3. CASE task' = [task EXCEPT ![t].failed = TRUE]
    BY <1>0, <2>3 DEF Task, Goes
  <2> QED BY <1>3, <2>1, <2>2, <2>3 DEF Send, SendCheck, SendEnqueue, SendMark, SendForget
<1>7. ASSUME NEW t \in Starts, StartOvertaken(t) PROVE Goes(s)
  <2>1. task[t].run = "new" /\ task' = [task EXCEPT ![t].run = "done"]
    BY <1>7, OvertakenParts
  <2> QED BY <1>0, <2>1 DEF Task, Goes
<1>4. ASSUME NEW cb \in callbacks, OutboundForgets(cb) \/ CallDrained(cb) \/ CallDropped(cb)
      PROVE  Goes(s)
  <2>1. cb.task \in Starts
    BY TypeParts DEF SessionTypes, Callbacks
  <2> QED BY <1>0, <1>1, <1>4, <2>1, CloseReaches DEF OutboundForgets, CallDrained, CallDropped
<1>5. ASSUME UNCHANGED task PROVE Goes(s)
  BY <1>5 DEF Goes
<1>6. ASSUME NEW c \in Conns, \/ \E msg \in Messages : ReceiveRemote(c, msg)
                              \/ PeerFallsSilent(c)
                              \/ \E why \in {"drained", "dropped"} : OutboundRemoves(c, why)
      PROVE  Goes(s)
  BY <1>5, <1>6 DEF ReceiveRemote, PeerFallsSilent, OutboundRemoves
<1> QED BY <1>1, <1>2, <1>3, <1>4, <1>5, <1>6, <1>7, TaskStepGoes, HolderReaches, NextCases
        DEF vars, Tick

\* Jobs are for the task of a job that was there, or for a session.
LEMMA NextTodoInv ==
    ASSUME TypeOK, TypeOK', JobsInv, \A c \in Conns : SessionInv(c), \A t \in Starts : Goes(t),
           [Next]_vars
    PROVE  TodoInv'
<1>0. SessionTypes /\ InputTypes /\ InputTypes'
  BY TypeParts
<1>1. ASSUME \A i \in 1 .. Len(todo') :
                \/ \E j \in 1 .. Len(todo) : todo'[i].task = todo[j].task
                \/ \E c \in Conns : todo'[i].task = session[c]
      PROVE  TodoInv'
  <2> SUFFICES ASSUME NEW i \in 1 .. Len(todo') PROVE task'[todo'[i].task].run # "new"
    BY DEF TodoInv
  <2>1. todo'[i].task \in Starts /\ todo'[i].task # NoTask
    <3>1. todo'[i] \in Job
      BY <1>0 DEF InputTypes
    <3> QED BY <3>1, RemoteAssumption DEF Job, RemoteAssumption
  <2>2. task[todo'[i].task].run # "new"
    <3>1. CASE \E j \in 1 .. Len(todo) : todo'[i].task = todo[j].task
      BY <3>1 DEF JobsInv, TodoInv
    <3>2. CASE \E c \in Conns : todo'[i].task = session[c]
      BY <2>1, <3>2 DEF SessionInv
    <3> QED BY <1>1, <3>1, <3>2
  <2> QED BY <2>1, <2>2 DEF Goes
<1>2. CASE UNCHANGED todo
  BY <1>1, <1>2
<1>3. ASSUME NEW c \in Conns, NEW msg \in Messages, ReceiveRemote(c, msg) PROVE TodoInv'
  <2>1. session[c] \in Starts /\ todo' = Jobs(session[c], msg)
    BY <1>0, <1>3 DEF ReceiveRemote, SessionTypes
  <2>2. msg \in Seq(Events \union GapSteps \union {Malformed})
    BY MessagesAssumption DEF MessagesAssumption, Frames, Events, Inputs, Endings
  <2>3. \A i \in 1 .. Len(todo') : todo'[i].task = session[c]
    BY <2>1, <2>2, JobsTypes
  <2> QED BY <1>1, <2>3
<1>4. CASE Tick
  BY <1>1, <1>4, TickTypes
<1>5. CASE Holder
  <2>1. ~Free
    BY <1>5 DEF Holder, HandleInput, HandleMalformed, HandleEnding, HandleGap, GapError, GapMark
  <2> DEFINE t == todo[1].task
  <2>2. /\ 1 \in 1 .. Len(todo) /\ t \in Starts
        /\ Tail(todo) \in Seq(Job) /\ Len(Tail(todo)) = Len(todo) - 1
        /\ \A i \in 1 .. Len(Tail(todo)) : Tail(todo)[i] = todo[i + 1]
    BY <1>0, <2>1, TailTypes DEF InputTypes, Job
  <2>3. /\ WithoutTask(t) \in Seq(Job)
        /\ \A i \in 1 .. Len(WithoutTask(t)) : \E j \in 1 .. Len(todo) : WithoutTask(t)[i] = todo[j]
    BY <1>0, WithoutTaskTypes
  <2>4. \A i \in 1 .. Len(Tail(todo)) : \E j \in 1 .. Len(todo) : Tail(todo)[i] = todo[j]
    <3> SUFFICES ASSUME NEW i \in 1 .. Len(Tail(todo))
                 PROVE  \E j \in 1 .. Len(todo) : Tail(todo)[i] = todo[j]
      OBVIOUS
    <3>1. i + 1 \in 1 .. Len(todo)
      BY <1>0, <2>2 DEF InputTypes
    <3> QED BY <2>2, <3>1
  <2>5. ASSUME NEW what \in GapSteps, NEW rest \in Seq(Job), todo' = Jobs(t, <<what>>) \o rest,
               \A i \in 1 .. Len(rest) : \E j \in 1 .. Len(todo) : rest[i] = todo[j]
        PROVE  TodoInv'
    <3> DEFINE first == [task |-> t, what |-> what]
    <3>2. first \in Job /\ first.task = t
      BY <2>2, OneJob
    <3>5. todo' = <<first>> \o rest
      BY <2>2, <2>5, OneJob
    <3> HIDE DEF first
    <3> SUFFICES ASSUME NEW i \in 1 .. Len(todo')
                 PROVE  \E j \in 1 .. Len(todo) : todo'[i].task = todo[j].task
      BY <1>1
    <3>3. CASE i = 1
      <4>1. todo'[1] = first
        BY <2>5, <3>2, <3>5
      <4> QED BY <2>2, <3>2, <3>3, <4>1 DEF t
    <3>4. CASE i # 1
      <4>1. i - 1 \in 1 .. Len(rest) /\ todo'[i] = rest[i - 1]
        BY <2>5, <3>2, <3>4, <3>5
      <4> QED BY <2>5, <4>1
    <3> QED BY <3>3, <3>4
  <2>6. CASE todo' = Tail(todo) \/ todo' = WithoutTask(t)
    <3>1. \A i \in 1 .. Len(todo') : \E j \in 1 .. Len(todo) : todo'[i] = todo[j]
      BY <2>3, <2>4, <2>6
    <3> QED BY <1>1, <3>1
  <2> HIDE DEF t
  <2>7. \/ todo' = Tail(todo) \/ todo' = WithoutTask(t)
        \/ todo' = Jobs(t, <<"gap_error">>) \o WithoutTask(t)
        \/ \E what \in GapSteps : todo' = Jobs(t, <<what>>) \o Tail(todo)
    BY <1>5 DEF Holder, HandleInput, HandleMalformed, HandleEnding, HandleGap, GapError, GapMark, t,
       GapSteps
  <2> QED BY <2>2, <2>3, <2>4, <2>5, <2>6, <2>7 DEF GapSteps
<1>6. ASSUME NEW cb \in callbacks, CallDropped(cb) PROVE TodoInv'
  <2> DEFINE c == ConnOf(cb.task)
  <2>1. c \in Conns
    <3>1. cb.task \in Starts
      BY <1>0 DEF SessionTypes, Callbacks
    <3> QED BY <3>1, TypeParts DEF TaskTypes, Task, ConnOf
  <2>2. CASE session[c] = NoTask
    BY <1>1, <1>6, <2>2 DEF CallDropped
  <2>3. CASE session[c] # NoTask
    <3>1. session[c] \in Starts /\ todo' = Jobs(session[c], <<"dropped">>)
      BY <1>0, <1>6, <2>1, <2>3 DEF CallDropped, SessionTypes
    <3>2. todo' = <<[task |-> session[c], what |-> "dropped"]>>
      BY <3>1, OneJob DEF Events, Endings
    <3>3. \A i \in 1 .. Len(todo') : todo'[i].task = session[c]
      BY <3>2
    <3> QED BY <1>1, <2>1, <3>3
  <2> QED BY <2>2, <2>3
<1>7. ASSUME NEW t \in Starts, StartStep(t) \/ TaskStep(t) \/ \E a \in Agents : Send(t, a)
      PROVE  TodoInv'
  BY <1>2, <1>7, TaskStepLeaves DEF outsideVars, StartStep, AcceptStart, RefuseStart, IgnoreStart,
     Send, SendCheck, SendEnqueue, SendMark, SendForget, SendDrained
<1> QED BY <1>2, <1>3, <1>4, <1>5, <1>6, <1>7, NextCases, OvertakenParts
        DEF vars, OutboundForgets, CallDrained, PeerFallsSilent, OutboundRemoves

LEMMA NextJobsInv ==
    ASSUME TypeOK, TypeOK', JobsInv, \A c \in Conns : SessionInv(c), \A t \in Starts : Goes(t),
           [Next]_vars
    PROVE  JobsInv'
<1>0. callbacks \subseteq Callbacks /\ \A cb \in callbacks : cb.task \in Starts
  BY TypeParts DEF SessionTypes, Callbacks
<1>1. ASSUME \A b \in callbacks' :
                \/ b \in callbacks
                \/ \E b2 \in callbacks : b2.task = b.task
                \/ b.task \in Starts /\ task[b.task].run # "new"
      PROVE  CallbacksInv'
  BY <1>0, <1>1 DEF JobsInv, CallbacksInv, Goes
<1>2. (\A b \in callbacks' : b \in callbacks) => CallbacksInv'
  BY <1>1
<1>10. UNCHANGED callbacks => CallbacksInv'
  BY <1>2
<1>3. ASSUME NEW c \in Conns, NEW why \in {"drained", "dropped"}, OutboundRemoves(c, why)
      PROVE  CallbacksInv'
  <2>1. conn[c].state # "none"
    BY <1>3 DEF OutboundRemoves
  <2>2. conn[c].start \in Starts /\ task[conn[c].start].run # "new"
    BY <2>1 DEF SessionInv
  <2>3. \A b \in callbacks' : b \in callbacks \/ b.task = conn[c].start
    BY <1>3 DEF OutboundRemoves
  <2> QED BY <1>1, <2>2, <2>3
<1>4. ASSUME NEW cb, Forgets(cb) PROVE CallbacksInv'
  BY <1>0, <1>1, <1>4, ForgetsEntries
<1>5. ASSUME NEW t \in Starts, StartStep(t) \/ TaskStep(t) \/ \E a \in Agents : Send(t, a)
      PROVE  CallbacksInv'
  BY <1>5, <1>10, TaskStepLeaves DEF outsideVars, StartStep, AcceptStart, RefuseStart, IgnoreStart,
     Send, SendCheck, SendEnqueue, SendMark, SendForget, SendDrained
<1>6. ASSUME Holder PROVE CallbacksInv'
  <2>1. UNCHANGED callbacks
    BY <1>6 DEF Holder, HandleInput, HandleMalformed, HandleEnding, HandleGap, GapError, GapMark
  <2> QED BY <1>10, <2>1
<1>7. ASSUME NEW t \in Starts, StartOvertaken(t) PROVE CallbacksInv'
  <2>1. CASE UNCHANGED callbacks
    BY <1>10, <2>1
  <2>2. CASE \E cb \in callbacks : Forgets(cb)
    BY <1>4, <2>2
  <2> QED BY <1>7, <2>1, <2>2, OvertakenParts DEF OvertakenForgets
<1>8. ASSUME NEW cb \in callbacks, OutboundForgets(cb) \/ CallDrained(cb) \/ CallDropped(cb)
      PROVE  CallbacksInv'
  <2>1. CASE OutboundForgets(cb)
    BY <1>4, <2>1 DEF OutboundForgets
  <2>2. CASE CallDrained(cb) \/ CallDropped(cb)
    <3>1. callbacks' = callbacks \ {cb}
      BY <2>2 DEF CallDrained, CallDropped
    <3> QED BY <1>2, <3>1
  <2> QED BY <1>8, <2>1, <2>2
<1>9. CallbacksInv'
  <2>1. CASE \/ UNCHANGED vars
             \/ Tick
             \/ \E c \in Conns, msg \in Messages : ReceiveRemote(c, msg)
             \/ \E c \in Conns : PeerFallsSilent(c)
    <3>1. UNCHANGED callbacks
      BY <2>1 DEF vars, PeerFallsSilent, ReceiveRemote, Tick
    <3> QED BY <1>10, <3>1
  <2> QED BY <2>1, <1>3, <1>5, <1>6, <1>7, <1>8, NextCases
<1> QED BY <1>9, NextTodoInv DEF JobsInv

\* A part of a step that is due to c stays due.
DueStays(c) ==
    /\ \A cb \in callbacks : ConnOf(cb.task) = c /\ cb.why # "refused" =>
          \E cb2 \in callbacks' : cb2.task = cb.task /\ cb2.why # "refused"
    /\ \/ UNCHANGED todo
       \/ todo = << >>
       \/ todo[1].what \notin {"dropped", "gap_drained"}
    /\ \A t \in Starts, a \in Agents :
          ConnOf(t) = c /\ send[t][a].stage \in {"forget", "drained"} =>
              send'[t][a].stage \in {"forget", "drained"}

LEMMA NothingDueGoes == ASSUME NEW c, UNCHANGED <<callbacks, send>>,
                               \/ UNCHANGED todo
                               \/ todo = << >>
                               \/ todo[1].what \notin {"dropped", "gap_drained"}
                        PROVE  DueStays(c)
  BY DEF DueStays

LEMMA EndStaysDue ==
    ASSUME TypeOK, \A t \in Starts : Goes(t), NEW c, DueStays(c), EndIsDue(c)
    PROVE  EndIsDue(c)'
<1>0. SessionTypes /\ InputTypes
  BY TypeParts
<1>1. \A t \in Starts : ConnOf(t)' = ConnOf(t)
  BY DEF Goes, ConnOf
<1>2. CASE \E cb \in callbacks : ConnOf(cb.task) = c /\ cb.why # "refused"
  <2>1. PICK cb \in callbacks : ConnOf(cb.task) = c /\ cb.why # "refused"
    BY <1>2
  <2>2. cb.task \in Starts
    BY <1>0, <2>1 DEF SessionTypes, Callbacks
  <2>3. PICK cb2 \in callbacks' : cb2.task = cb.task /\ cb2.why # "refused"
    BY <2>1 DEF DueStays
  <2>4. ConnOf(cb2.task)' = c
    BY <1>1, <2>1, <2>2, <2>3
  <2> QED BY <2>3, <2>4 DEF EndIsDue
<1>3. CASE /\ todo # << >> /\ ConnOf(todo[1].task) = c
           /\ todo[1].what \in {"dropped", "gap_drained"}
  <2>1. UNCHANGED todo
    BY <1>3 DEF DueStays
  <2>2. todo[1].task \in Starts
    <3>1. todo[1] \in Job
      BY <1>0, <1>3 DEF InputTypes
    <3> QED BY <3>1 DEF Job
  <2> QED BY <1>1, <1>3, <2>1, <2>2 DEF EndIsDue
<1>4. CASE \E t \in Starts : ConnOf(t) = c /\ \E a \in Agents : send[t][a].stage \in {"forget", "drained"}
  BY <1>1, <1>4 DEF EndIsDue, DueStays
<1> QED BY <1>2, <1>3, <1>4 DEF EndIsDue

\* A connection that is there stays that of its start.
KeepsStart(c) ==
    conn'[c].state # "none" => conn[c].state # "none" /\ conn'[c].start = conn[c].start

LEMMA SessionKept ==
    ASSUME TypeOK, \A t \in Starts : Goes(t), NEW c \in Conns, SessionInv(c),
           session'[c] = session[c], conn'[c].owner = conn[c].owner, KeepsStart(c),
           conn'[c].state = "none" => conn[c].state = "none",
           EndIsDue(c) => EndIsDue(c)'
    PROVE  SessionInv(c)'
<1>2. session[c] # NoTask => session[c] \in Starts
  BY TypeParts DEF SessionTypes
<1>3. conn'[c].state # "none" =>
          /\ conn'[c].start \in Starts /\ ConnOf(conn[c].start)' = c
          /\ task'[conn'[c].start].run # "new"
  BY DEF KeepsStart, SessionInv, Goes, ConnOf
<1>4. session[c] # NoTask => ConnOf(session[c])' = c /\ task'[session[c]].run # "new"
  BY <1>2 DEF SessionInv, Goes, ConnOf
<1> QED BY <1>3, <1>4 DEF SessionInv

LEMMA SessionStays ==
    ASSUME TypeOK, \A t \in Starts : Goes(t), NEW c \in Conns, SessionInv(c), DueStays(c),
           session'[c] = session[c], conn'[c].owner = conn[c].owner, KeepsStart(c),
           conn'[c].state = "none" => conn[c].state = "none"
    PROVE  SessionInv(c)'
  BY EndStaysDue, SessionKept

LEMMA SessionSame ==
    ASSUME TypeOK, \A t \in Starts : Goes(t), NEW c \in Conns, SessionInv(c), DueStays(c),
           session'[c] = session[c], conn'[c] = conn[c]
    PROVE  SessionInv(c)'
  BY SessionStays DEF KeepsStart

LEMMA SessionEnds ==
    ASSUME \A t \in Starts : Goes(t), NEW c, SessionInv(c), session'[c] = NoTask, KeepsStart(c),
           conn'[c].state = "none" => conn'[c].owner = NoTask
    PROVE  SessionInv(c)'
<1>1. conn'[c].state # "none" =>
          /\ conn'[c].start \in Starts /\ ConnOf(conn[c].start)' = c
          /\ task'[conn'[c].start].run # "new"
  BY DEF KeepsStart, SessionInv, Goes, ConnOf
<1> QED BY <1>1 DEF SessionInv

\* The connection goes before its session does, whose end is due then.
LEMMA ConnectionGoes ==
    ASSUME TypeOK, \A t \in Starts : Goes(t), NEW c \in Conns, SessionInv(c),
           session'[c] = session[c], conn'[c].state = "none", conn'[c].owner = NoTask,
           \/ EndIsDue(c)'
           \/ conn[c].owner = NoTask /\ DueStays(c)
    PROVE  SessionInv(c)'
<1>1. session[c] # NoTask => session[c] \in Starts
  BY TypeParts DEF SessionTypes
<1>2. session[c] # NoTask => EndIsDue(c)'
  <2>1. CASE conn[c].owner = NoTask /\ DueStays(c)
    BY <2>1, EndStaysDue DEF SessionInv
  <2> QED BY <2>1
<1>3. session[c] # NoTask => ConnOf(session[c])' = c /\ task'[session[c]].run # "new"
  BY <1>1 DEF SessionInv, Goes, ConnOf
<1> QED BY <1>2, <1>3 DEF SessionInv

LEMMA SayFields ==
    ASSUME SendTypes, NEW t \in Starts, NEW a \in Agents, NEW frame, Say(t, a, frame)
    PROVE  /\ \A b \in Agents : b # a => send'[t][b] = send[t][b]
           /\ send'[t][a] = [stage |-> "check", frame |-> frame]
  BY DEF Say, SendTypes

LEMMA TaskStepDue ==
    ASSUME TypeOK, NEW t \in Starts, TaskStep(t), TaskOK(t), NEW c
    PROVE  DueStays(c)
<1>1. UNCHANGED callbacks /\ UNCHANGED todo
  BY TaskStepLeaves DEF outsideVars
<1>2. SendTypes
  BY TypeParts
<1>3. ASSUME NEW a \in Agents, send[t][a].stage \in {"forget", "drained"}
      PROVE  send'[t][a].stage \in {"forget", "drained"}
  <2>1. /\ a # "copy"
        /\ a = "run" => task[t].run = "reply"
        /\ a = "ctl" => task[t].ctl = "error"
    BY <1>3 DEF TaskOK, SendInv
  <2>2. CASE UNCHANGED send
    BY <1>3, <2>2
  <2>3. CASE RunStartFails(t)
    BY <1>2, <1>3, <2>1, <2>3 DEF RunStartFails, Say, SendTypes, Agents
  <2>4. CASE RunCopied(t)
    <3>1. task[t].run = "copying" /\ (UNCHANGED send \/ \E frame : Say(t, "run", frame))
      BY <2>4 DEF RunCopied
    <3> QED BY <1>2, <1>3, <2>1, <3>1 DEF Say, SendTypes, Agents
  <2>5. CASE CtlWriteFails(t)
    BY <1>2, <1>3, <2>1, <2>5 DEF CtlWriteFails, Say, SendTypes, Agents
  <2>6. CASE CopyReads(t)
    <3>1. Say(t, "copy", "output") /\ "copy" \in Agents
      BY <2>6 DEF CopyReads, Agents
    <3>2. send'[t][a] = send[t][a]
      BY <1>2, <2>1, <3>1, SayFields
    <3> QED BY <1>3, <3>2
  <2> QED BY <2>2, <2>3, <2>4, <2>5, <2>6
          DEF TaskStep, Run, Ctl, Copy, RunSnapshot, RunStart, RunWaited, RunReplied, CtlEvent,
              CtlNoEvent, CtlDone, CtlClosed, CtlWrites, CtlFailed, CopySent, CopyEnds, ProcReads,
              ProcWrites, ProcExits, KillProc, Reap
<1>4. \A s \in Starts : s # t => send'[s] = send[s]
  BY TaskStepOther
<1> QED BY <1>1, <1>3, <1>4 DEF DueStays

LEMMA ForgetsDue ==
    ASSUME callbacks \subseteq Callbacks, NEW cb, Forgets(cb), UNCHANGED <<send, todo>>, NEW c
    PROVE  DueStays(c)
  BY ForgetsEntries DEF DueStays

LEMMA SendForgetsDue ==
    ASSUME SendTypes, NEW t \in Starts, NEW a \in Agents, SendForgets(t, a),
           UNCHANGED <<callbacks, todo>>, NEW c
    PROVE  DueStays(c)
<1>1. /\ send[t][a].stage \in {"forget", "forget_refused"}
      /\ send[t][a].stage = "forget" => Stage(t, a, "drained")
      /\ send[t][a].stage = "forget_refused" => Stage(t, a, "idle")
  BY DEF SendForgets
<1>2. send[t][a].stage \in {"forget", "drained"} => send'[t][a].stage \in {"forget", "drained"}
  BY <1>1, StageFields
<1>3. \A s \in Starts, b \in Agents : s # t \/ b # a => send'[s][b] = send[s][b]
  BY <1>1, StageFields
<1> QED BY <1>2, <1>3 DEF DueStays

LEMMA StartSessionInv ==
    ASSUME TypeOK, \A t \in Starts : Goes(t), NEW t \in Starts, StartStep(t),
           NEW c \in Conns, SessionInv(c)
    PROVE  SessionInv(c)'
<1>0. SessionTypes /\ ConnOf(t) \in Conns /\ task \in [Starts -> Task] /\ task[t] \in Task
  BY TypeParts DEF TaskTypes, Task, ConnOf
<1>1. DueStays(c)
  BY NothingDueGoes DEF StartStep, AcceptStart, RefuseStart, IgnoreStart
<1>2. CASE AcceptStart(t) /\ c = ConnOf(t)
  <2>1. session'[c] = t /\ conn'[c] = Registered(t, "open", t)
    BY <1>0, <1>2 DEF AcceptStart, SessionTypes
  <2>2. ConnOf(t)' = c /\ task'[t].run = "snapshot"
    BY <1>0, <1>2 DEF AcceptStart, Task, ConnOf
  <2>3. conn'[c].owner = t /\ conn'[c].state # "none" /\ conn'[c].start = t
    BY <2>1 DEF Registered
  <2>4. ConnOf(conn[c].start)' = c
    BY <2>2, <2>3 DEF ConnOf
  <2> QED BY <2>1, <2>2, <2>3, <2>4 DEF SessionInv
<1>3. CASE RefuseStart(t) /\ c = ConnOf(t)
  <2>1. session'[c] = NoTask /\ conn'[c] = Registered(t, "closing", NoTask)
    BY <1>0, <1>3 DEF RefuseStart, SessionTypes
  <2>2. ConnOf(t)' = c /\ task'[t].run = "done"
    BY <1>0, <1>3 DEF RefuseStart, Task, ConnOf
  <2>3. conn'[c].state # "none" /\ conn'[c].start = t
    BY <2>1 DEF Registered
  <2>4. ConnOf(conn[c].start)' = c
    BY <2>2, <2>3 DEF ConnOf
  <2> QED BY <2>1, <2>2, <2>3, <2>4 DEF SessionInv
<1>4. CASE IgnoreStart(t) \/ c # ConnOf(t)
  <2>1. session'[c] = session[c] /\ conn'[c] = conn[c]
    BY <1>0, <1>4 DEF StartStep, AcceptStart, RefuseStart, IgnoreStart, SessionTypes
  <2> QED BY <1>1, <2>1, SessionSame
<1> QED BY <1>2, <1>3, <1>4 DEF StartStep

LEMMA OvertakenSessionInv ==
    ASSUME TypeOK, \A r \in Starts : Goes(r), NEW t \in Starts, StartOvertaken(t),
           NEW c \in Conns, SessionInv(c)
    PROVE  SessionInv(c)'
<1>0. /\ SessionTypes /\ SendTypes /\ ConnOf(t) \in Conns /\ task \in [Starts -> Task]
      /\ task[t] \in Task
  BY TypeParts DEF TaskTypes, Task, ConnOf
<1>1. PICK owner \in {t, NoTask} :
          conn' = [conn EXCEPT ![ConnOf(t)] =
                      [routed |-> FALSE, state |-> "open", owner |-> owner, start |-> t]]
  BY OvertakenParts
<1>2. UNCHANGED <<session, todo>> /\ session[ConnOf(t)] = NoTask
  BY OvertakenParts
<1>3. CASE c = ConnOf(t)
  <2>0. task' = [task EXCEPT ![t].run = "done"]
    BY OvertakenParts
  <2>1. ConnOf(t)' = c /\ task'[t].run = "done"
    BY <1>0, <1>3, <2>0 DEF Task, ConnOf
  <2>2. session'[c] = NoTask /\ conn'[c].state = "open" /\ conn'[c].start = t
    BY <1>0, <1>1, <1>2, <1>3 DEF SessionTypes
  <2>3. ConnOf(conn[c].start)' = c
    BY <2>1, <2>2 DEF ConnOf
  <2> QED BY <2>1, <2>2, <2>3 DEF SessionInv
<1>4. CASE c # ConnOf(t)
  <2>1. session'[c] = session[c] /\ conn'[c] = conn[c]
    BY <1>0, <1>1, <1>2, <1>4 DEF SessionTypes
  <2>2. DueStays(c)
    <3>1. CASE UNCHANGED send /\ \E cb \in callbacks : Forgets(cb)
      BY <1>0, <1>2, <3>1, ForgetsDue DEF SessionTypes
    <3>2. CASE UNCHANGED callbacks /\ \E s \in Starts, a \in Agents : SendForgets(s, a)
      BY <1>0, <1>2, <3>2, SendForgetsDue
    <3> QED BY <3>1, <3>2, OvertakenParts DEF OvertakenForgets
  <2> QED BY <2>1, <2>2, SessionSame
<1> QED BY <1>3, <1>4

\* DropConnection leaves nothing or, of a connection that is not routed any
\* more, everything.
LEMMA DropFields ==
    ASSUME SessionTypes, NEW d \in Conns, conn' = DropConnection(d), NEW c \in Conns
    PROVE  /\ c # d => conn'[c] = conn[c]
           /\ conn'[c] = conn[c] \/ conn'[c] = NoConn
           /\ conn[c].routed /\ c = d => conn'[c] = NoConn
           /\ KeepsStart(c)
<1>1. CASE conn[d].routed
  <2>1. conn' = [conn EXCEPT ![d] = NoConn]
    BY <1>1 DEF DropConnection
  <2>2. c # d => conn'[c] = conn[c]
    BY <2>1 DEF SessionTypes
  <2>3. c = d => conn'[c] = NoConn
    BY <2>1 DEF SessionTypes
  <2> QED BY <2>2, <2>3 DEF KeepsStart, NoConn
<1>2. CASE ~conn[d].routed
  BY <1>2 DEF DropConnection, KeepsStart
<1> QED BY <1>1, <1>2

\* closeRemoteLocked takes the session and its connection together.
LEMMA CloseSessionInv ==
    ASSUME TypeOK, \A t \in Starts : Goes(t), NEW d \in Conns, NEW why, closeRemoteLocked(d, why),
           NEW c \in Conns, SessionInv(c), c # d => DueStays(c)
    PROVE  SessionInv(c)'
<1>0. SessionTypes
  BY TypeParts
<1>1. CASE session[d] = NoTask
  <2>1. UNCHANGED <<session, conn>>
    BY <1>1 DEF closeRemoteLocked
  <2>2. CASE c = d
    BY <1>1, <2>1, <2>2, SessionEnds DEF SessionInv, KeepsStart
  <2> QED BY <2>1, <2>2, SessionSame
<1>2. CASE session[d] # NoTask
  <2>1. session' = [session EXCEPT ![d] = NoTask] /\ conn' = DropConnection(d)
    BY <1>2 DEF closeRemoteLocked
  <2>2. CASE c = d
    <3>1. session'[c] = NoTask
      BY <1>0, <2>1, <2>2 DEF SessionTypes
    <3>2. KeepsStart(c) /\ (conn'[c] = conn[c] \/ conn'[c] = NoConn)
      BY <1>0, <2>1, DropFields
    <3>3. conn'[c].state = "none" => conn'[c].owner = NoTask
      BY <3>2 DEF NoConn, SessionInv
    <3> QED BY <3>1, <3>2, <3>3, SessionEnds
  <2>3. CASE c # d
    <3>1. session'[c] = session[c] /\ conn'[c] = conn[c]
      BY <1>0, <2>1, <2>3, DropFields DEF SessionTypes
    <3> QED BY <2>3, <3>1, SessionSame
  <2> QED BY <2>2, <2>3
<1> QED BY <1>1, <1>2

LEMMA ForgottenFields ==
    ASSUME SessionTypes, NEW d \in Conns, conn' = Forgotten(d), NEW c \in Conns
    PROVE  /\ conn'[c].owner = conn[c].owner /\ conn'[c].state = conn[c].state
           /\ conn'[c].start = conn[c].start
           /\ c # d => conn'[c] = conn[c]
           /\ c = d => ~conn'[c].routed
           /\ KeepsStart(c)
<1>1. conn[d] \in Connection
  BY DEF SessionTypes
<1>2. CASE c = d
  BY <1>1, <1>2 DEF Forgotten, SessionTypes, Connection, KeepsStart
<1>3. CASE c # d
  BY <1>3 DEF Forgotten, SessionTypes, KeepsStart
<1> QED BY <1>2, <1>3

LEMMA SendSessionInv ==
    ASSUME TypeOK, \A s \in Starts : Goes(s), NEW t \in Starts, NEW a \in Agents, Send(t, a),
           NEW c \in Conns, SessionInv(c)
    PROVE  SessionInv(c)'
<1>0. SessionTypes /\ SendTypes /\ ConnOf(t) \in Conns
  BY TypeParts DEF TaskTypes, Task, ConnOf
<1>1. UNCHANGED callbacks /\ UNCHANGED todo
  BY DEF Send, SendCheck, SendEnqueue, SendMark, SendForget, SendDrained
<1>2. ASSUME NEW stage, Stage(t, a, stage),
             send[t][a].stage \notin {"forget", "drained"} \/ c # ConnOf(t)
      PROVE  DueStays(c)
  BY <1>0, <1>1, <1>2, StageFields DEF DueStays
<1>3. CASE SendCheck(t, a)
  <2>1. send[t][a].stage = "check" /\ UNCHANGED <<session, conn>> /\ \E stage : Stage(t, a, stage)
    BY <1>3 DEF SendCheck
  <2> QED BY <1>2, <2>1, SessionSame
<1>4. CASE SendEnqueue(t, a)
  <2>1. send[t][a].stage = "enqueue" /\ UNCHANGED <<session, conn>> /\ \E stage : Stage(t, a, stage)
    BY <1>4 DEF SendEnqueue
  <2> QED BY <1>2, <2>1, SessionSame
<1>5. CASE SendMark(t, a)
  <2>1. send[t][a].stage = "mark" /\ UNCHANGED session /\ \E stage : Stage(t, a, stage)
    BY <1>5 DEF SendMark
  <2>2. DueStays(c)
    BY <1>2, <2>1
  <2>3. CASE UNCHANGED conn
    BY <2>1, <2>2, <2>3, SessionSame
  <2>4. CASE c # ConnOf(t)
    <3>1. conn'[c] = conn[c]
      BY <1>0, <1>5, <2>4 DEF SendMark, SessionTypes
    <3> QED BY <2>1, <2>2, <3>1, SessionSame
  <2>5. CASE c = ConnOf(t) /\ Found(c) /\ conn' = [conn EXCEPT ![ConnOf(t)].state = "closing"]
    <3>1. /\ conn'[c].state = "closing" /\ conn'[c].owner = conn[c].owner
          /\ conn'[c].start = conn[c].start /\ conn[c].state # "none"
      BY <1>0, <2>5 DEF SessionTypes, Connection, Found
    <3> QED BY <2>1, <2>2, <3>1, SessionStays DEF KeepsStart
  <2>6. CASE /\ c = ConnOf(t)
             /\ conn' = [conn EXCEPT ![ConnOf(t)] = Removed(@)]
             /\ Stage(t, a, IF conn[ConnOf(t)].owner = NoTask THEN "forget_refused" ELSE "forget")
    <3>1. conn'[c] = Removed(conn[c]) /\ conn[c] \in Connection
      BY <1>0, <2>6 DEF SessionTypes
    <3>2. conn'[c].state = "none" /\ conn'[c].owner = NoTask
      BY <3>1 DEF Removed, Connection
    <3>3. CASE conn[c].owner = NoTask
      BY <2>1, <2>2, <3>2, <3>3, ConnectionGoes
    <3>4. CASE conn[c].owner # NoTask
      <4>1. send'[t][a].stage = "forget"
        BY <1>0, <2>6, <3>4, StageFields
      <4>2. ConnOf(t)' = c
        BY <2>6 DEF Goes, ConnOf
      <4>3. EndIsDue(c)'
        BY <4>1, <4>2 DEF EndIsDue
      <4> QED BY <2>1, <3>2, <4>3, ConnectionGoes
    <3> QED BY <3>3, <3>4
  <2> QED BY <1>5, <2>3, <2>4, <2>5, <2>6 DEF SendMark
<1>7. CASE SendForget(t, a)
  <2>1. SendForgets(t, a) /\ conn' = Forgotten(ConnOf(t)) /\ UNCHANGED session
    BY <1>7 DEF SendForget
  <2>2. DueStays(c)
    BY <1>0, <1>1, <2>1, SendForgetsDue
  <2> QED BY <1>0, <2>1, <2>2, ForgottenFields, SessionStays
<1>6. CASE SendDrained(t, a)
  BY <1>0, <1>2, <1>6, CloseSessionInv DEF SendDrained
<1> QED BY <1>3, <1>4, <1>5, <1>6, <1>7 DEF Send

LEMMA HolderSessionInv ==
    ASSUME TypeOK, \A s \in Starts : Goes(s), Holder, NEW c \in Conns, SessionInv(c)
    PROVE  SessionInv(c)'
<1> DEFINE t == todo[1].task
           d == ConnOf(t)
<1>0. SessionTypes /\ InputTypes /\ ~Free
  BY TypeParts DEF Holder, HandleInput, HandleMalformed, HandleEnding, HandleGap, GapError, GapMark
<1>1. t \in Starts /\ d \in Conns
  <2>1. t \in Starts
    BY <1>0, TailTypes DEF Job
  <2> QED BY <2>1, TypeParts DEF TaskTypes, Task, ConnOf
<1>2. UNCHANGED callbacks /\ UNCHANGED send
  BY DEF Holder, HandleInput, HandleMalformed, HandleEnding, HandleGap, GapError, GapMark
<1> HIDE DEF t, d
<1>3. ASSUME todo[1].what \notin {"dropped", "gap_drained"} PROVE DueStays(c)
  BY <1>2, <1>3 DEF DueStays
<1>4. CASE HandleInput \/ HandleMalformed \/ HandleGap \/ GapError
  <2>1. UNCHANGED <<session, conn>> /\ todo[1].what \in Inputs \union {Malformed, "gap", "gap_error"}
    BY <1>4 DEF HandleInput, HandleMalformed, HandleGap, GapError
  <2>2. DueStays(c)
    BY <1>3, <2>1 DEF Inputs, Malformed
  <2> QED BY <2>1, <2>2, SessionSame
<1>5. CASE HandleEnding
  <2>1. session' = [session EXCEPT ![d] = NoTask] /\ conn' = DropConnection(d)
        /\ todo[1].what \in Endings
    BY <1>5 DEF HandleEnding, d, t
  <2>0. KeepsStart(c) /\ (conn'[c] = conn[c] \/ conn'[c] = NoConn) /\ (c # d => conn'[c] = conn[c])
    BY <1>0, <1>1, <2>1, DropFields
  <2>2. CASE c = d
    <3>1. session'[c] = NoTask
      BY <1>0, <2>1, <2>2 DEF SessionTypes
    <3>2. conn'[c].state = "none" => conn'[c].owner = NoTask
      BY <2>0 DEF NoConn, SessionInv
    <3> QED BY <2>0, <3>1, <3>2, SessionEnds
  <2>3. CASE c # d
    <3>1. session'[c] = session[c] /\ conn'[c] = conn[c]
      BY <1>0, <2>0, <2>1, <2>3 DEF SessionTypes
    <3>2. EndIsDue(c) => EndIsDue(c)'
      <4>1. /\ \A cb \in callbacks : cb.task \in Starts
            /\ \A s \in Starts : ConnOf(s)' = ConnOf(s)
        BY <1>0 DEF SessionTypes, Callbacks, Goes, ConnOf
      <4> QED BY <1>2, <2>3, <4>1 DEF EndIsDue, d, t
    <3> QED BY <2>0, <3>1, <3>2, SessionKept
  <2> QED BY <2>2, <2>3
<1>6. CASE GapMark
  <2>1. UNCHANGED session /\ todo[1].what = "gap_mark"
    BY <1>6 DEF GapMark
  <2>2. DueStays(c)
    BY <1>3, <2>1
  <2>3. CASE UNCHANGED conn
    BY <2>1, <2>2, <2>3, SessionSame
  <2>4. CASE Found(d) /\ conn' = [conn EXCEPT ![d].state = "closing"]
    <3>1. CASE c # d
      <4>1. conn'[c] = conn[c]
        BY <1>0, <2>4, <3>1 DEF SessionTypes
      <4> QED BY <2>1, <2>2, <4>1, SessionSame
    <3>2. CASE c = d
      <4>1. /\ conn'[c].state = "closing" /\ conn'[c].owner = conn[c].owner
            /\ conn'[c].start = conn[c].start /\ conn[c].state # "none"
        BY <1>0, <2>4, <3>2 DEF SessionTypes, Connection, Found
      <4> QED BY <2>1, <2>2, <4>1, SessionStays DEF KeepsStart
    <3> QED BY <3>1, <3>2
  <2>5. CASE /\ conn' = [conn EXCEPT ![d] = NoConn]
             /\ todo' = Jobs(t, <<"gap_drained">>) \o Tail(todo)
    <3>1. CASE c # d
      <4>1. conn'[c] = conn[c]
        BY <1>0, <2>5, <3>1 DEF SessionTypes
      <4> QED BY <2>1, <2>2, <4>1, SessionSame
    <3>2. CASE c = d
      <4>1. conn'[c].state = "none" /\ conn'[c].owner = NoTask
        BY <1>0, <1>1, <2>5, <3>2 DEF SessionTypes, NoConn
      <4>2. EndIsDue(c)'
        <5>1. PICK s \in Starts : s = t
          BY <1>1
        <5> DEFINE first == [task |-> s, what |-> "gap_drained"]
        <5>2. todo' = <<first>> \o Tail(todo) /\ first \in Job
          BY <2>5, <5>1, OneJob DEF GapSteps
        <5>3. Tail(todo) \in Seq(Job) /\ first.task = s /\ first.what = "gap_drained"
          BY <1>0, TailTypes
        <5> HIDE DEF first
        <5>4. todo' # << >> /\ todo'[1] = first
          BY <5>2, <5>3
        <5>5. ConnOf(s)' = c
          BY <3>2, <5>1 DEF d, ConnOf, Goes
        <5> QED BY <5>3, <5>4, <5>5 DEF EndIsDue
      <4> QED BY <2>1, <4>1, <4>2, ConnectionGoes
    <3> QED BY <3>1, <3>2
  <2> QED BY <1>6, <2>3, <2>4, <2>5 DEF GapMark, d, t
<1> QED BY <1>4, <1>5, <1>6 DEF Holder

LEMMA NextSessionInv ==
    ASSUME TypeOK, TypeOK', \A c \in Conns : SessionInv(c), \A t \in Starts : TaskOK(t) /\ Goes(t),
           [Next]_vars, NEW c \in Conns
    PROVE  SessionInv(c)'
<1>0. SessionTypes /\ InputTypes
  BY TypeParts
<1>1. ASSUME UNCHANGED <<session, conn, callbacks, send>>, UNCHANGED todo \/ todo = << >>
      PROVE  SessionInv(c)'
  BY <1>1, SessionSame, NothingDueGoes
<1>2. CASE UNCHANGED vars
  BY <1>1, <1>2 DEF vars
<1>3. ASSUME NEW t \in Starts, TaskStep(t) PROVE SessionInv(c)'
  BY <1>3, TaskStepLeaves, TaskStepDue, SessionSame DEF outsideVars
<1>4. ASSUME NEW d \in Conns, \/ \E msg \in Messages : ReceiveRemote(d, msg)
                              \/ PeerFallsSilent(d)
      PROVE  SessionInv(c)'
  BY <1>1, <1>4 DEF ReceiveRemote, PeerFallsSilent, Free
<1>5. CASE Tick
  BY <1>1, <1>5 DEF Tick, Free
<1>6. ASSUME NEW d \in Conns, NEW why \in {"drained", "dropped"}, OutboundRemoves(d, why)
      PROVE  SessionInv(c)'
  <2>0. PICK cb : cb = [task |-> conn[d].start, forgotten |-> FALSE,
                        why |-> IF conn[d].owner = NoTask THEN "refused" ELSE why]
    OBVIOUS
  <2>1. /\ conn[d].state # "none"
        /\ conn' = [conn EXCEPT ![d] = Removed(@)] /\ UNCHANGED <<session, todo, send>>
        /\ callbacks' = callbacks \union {cb}
    BY <1>6, <2>0 DEF OutboundRemoves
  <2>2. DueStays(c)
    BY <2>1 DEF DueStays
  <2>3. CASE c # d
    <3>1. conn'[c] = conn[c]
      BY <1>0, <2>1, <2>3 DEF SessionTypes
    <3> QED BY <2>1, <2>2, <3>1, SessionSame
  <2>4. CASE c = d
    <3>0. conn'[c] = Removed(conn[c]) /\ conn[c] \in Connection
      BY <1>0, <2>1, <2>4 DEF SessionTypes
    <3>1. conn'[c].state = "none" /\ conn'[c].owner = NoTask
      BY <3>0 DEF Removed, Connection
    <3>2. CASE conn[c].owner = NoTask
      BY <2>1, <2>2, <3>1, <3>2, ConnectionGoes
    <3>3. CASE conn[c].owner # NoTask
      <4>1. cb \in callbacks' /\ cb.why # "refused"
        BY <2>0, <2>1, <2>4, <3>3
      <4>2. PICK s \in Starts : s = conn[c].start /\ ConnOf(s) = c
        BY <2>1, <2>4 DEF SessionInv
      <4>3. ConnOf(s)' = c
        BY <4>2 DEF Goes, ConnOf
      <4>4. ConnOf(cb.task)' = c
        <5>1. cb.task = s
          BY <2>0, <2>4, <4>2
        <5> QED BY <4>3, <5>1
      <4>5. EndIsDue(c)'
        BY <4>1, <4>4 DEF EndIsDue
      <4> QED BY <2>1, <3>1, <4>5, ConnectionGoes
    <3> QED BY <3>2, <3>3
  <2> QED BY <2>3, <2>4
<1>7. ASSUME NEW cb \in callbacks, OutboundForgets(cb) \/ CallDrained(cb) \/ CallDropped(cb)
      PROVE  SessionInv(c)'
  <2>1. cb.task \in Starts /\ ConnOf(cb.task) \in Conns
    <3>1. cb.task \in Starts
      BY <1>0 DEF SessionTypes, Callbacks
    <3> QED BY <3>1, TypeParts DEF TaskTypes, Task, ConnOf
  <2>4. CASE OutboundForgets(cb)
    <3>1. /\ Forgets(cb) /\ conn' = Forgotten(ConnOf(cb.task))
          /\ UNCHANGED <<session, todo, send>>
      BY <2>4 DEF OutboundForgets
    <3>2. DueStays(c)
      BY <1>0, <3>1, ForgetsDue DEF SessionTypes
    <3> QED BY <1>0, <2>1, <3>1, <3>2, ForgottenFields, SessionStays
  <2>2. CASE CallDrained(cb)
    <3>1. c # ConnOf(cb.task) => DueStays(c)
      BY <2>2 DEF CallDrained, DueStays
    <3> QED BY <2>1, <2>2, <3>1, CloseSessionInv DEF CallDrained
  <2>3. CASE CallDropped(cb)
    <3>0. UNCHANGED <<session, conn, send>> /\ todo = << >>
      BY <2>3 DEF CallDropped, Free
    <3>1. CASE c # ConnOf(cb.task) \/ session[c] = NoTask
      <4>1. CASE c # ConnOf(cb.task)
        BY <2>3, <3>0, <4>1, SessionSame DEF CallDropped, DueStays
      <4>2. CASE session[c] = NoTask
        BY <3>0, <4>2, SessionEnds DEF SessionInv, KeepsStart
      <4> QED BY <3>1, <4>1, <4>2
    <3>2. CASE c = ConnOf(cb.task) /\ session[c] # NoTask
      <4>1. PICK s \in Starts : s = session[c]
        BY <1>0, <3>2 DEF SessionTypes
      <4> DEFINE first == [task |-> s, what |-> "dropped"]
      <4>2. todo' = <<first>> /\ first.task = s /\ first.what = "dropped"
        BY <2>3, <3>2, <4>1, OneJob DEF CallDropped, Events, Endings
      <4> HIDE DEF first
      <4>3. todo' # << >> /\ todo'[1] = first
        BY <4>2
      <4>4. ConnOf(s)' = c
        BY <3>2, <4>1 DEF SessionInv, Goes, ConnOf
      <4>5. EndIsDue(c)'
        BY <4>2, <4>3, <4>4 DEF EndIsDue
      <4> QED BY <3>0, <4>5, SessionKept DEF KeepsStart
    <3> QED BY <3>1, <3>2
  <2> QED BY <1>7, <2>2, <2>3, <2>4
<1> QED BY <1>2, <1>3, <1>4, <1>5, <1>6, <1>7, NextCases, StartSessionInv, OvertakenSessionInv,
           SendSessionInv, HolderSessionInv

-----------------------------------------------------------------------------
(***************************************************************************)
(* The two maps of the outbound manager, for a root that starts once.      *)
(***************************************************************************)
ForgetStages == {"forget", "forget_refused"}

\* Nothing new is due to forget the connection of c.
NoNewForget(c) ==
    /\ \A b \in callbacks' : ConnOf(b.task) = c /\ ~b.forgotten =>
          \E b2 \in callbacks : b2.task = b.task /\ ~b2.forgotten
    /\ \A t \in Starts, a \in Agents :
          ConnOf(t) = c /\ send'[t][a].stage \in ForgetStages => send[t][a].stage \in ForgetStages

LEMMA ForgetDueBefore ==
    ASSUME TypeOK', \A t \in Starts : Goes(t), NEW c, NoNewForget(c), ForgetIsDue(c)'
    PROVE  ForgetIsDue(c)
<1>0. \A b \in callbacks' : b.task \in Starts
  BY TypeParts DEF SessionTypes, Callbacks
<1>1. \A t \in Starts : ConnOf(t)' = ConnOf(t)
  BY DEF Goes, ConnOf
<1>2. ASSUME NEW b \in callbacks', ConnOf(b.task)' = c, ~b.forgotten PROVE ForgetIsDue(c)
  <2>1. ConnOf(b.task) = c
    BY <1>0, <1>1, <1>2
  <2>2. PICK b2 \in callbacks : b2.task = b.task /\ ~b2.forgotten
    BY <1>2, <2>1 DEF NoNewForget
  <2> QED BY <2>1, <2>2 DEF ForgetIsDue
<1>3. ASSUME NEW t \in Starts, NEW a \in Agents, ConnOf(t)' = c, send'[t][a].stage \in ForgetStages
      PROVE  ForgetIsDue(c)
  BY <1>1, <1>3 DEF NoNewForget, ForgetIsDue, ForgetStages
<1> QED BY <1>2, <1>3 DEF ForgetIsDue, ForgetStages

LEMMA StartsOnceAgain ==
    ASSUME \A t \in Starts : Goes(t), NEW c, StartedOnce(c)'
    PROVE  StartedOnce(c)
  BY DEF StartedOnce, Goes, ConnOf

LEMMA RouteStays ==
    ASSUME TypeOK', \A t \in Starts : Goes(t), NEW c, RouteInv(c), NoNewForget(c),
           conn'[c].state # "none" => conn[c].state # "none" /\ conn'[c].routed = conn[c].routed,
           conn'[c].owner # NoTask => conn'[c].owner = conn[c].owner /\ session'[c] = session[c]
    PROVE  RouteInv(c)'
<1> SUFFICES ASSUME StartedOnce(c)'
             PROVE  /\ conn'[c].state # "none" => conn'[c].routed
                    /\ ForgetIsDue(c)' => conn'[c].state = "none"
                    /\ conn'[c].owner # NoTask => conn'[c].owner = session'[c]
  BY DEF RouteInv
<1>1. StartedOnce(c)
  BY StartsOnceAgain
<1>2. ForgetIsDue(c)' => ForgetIsDue(c)
  BY ForgetDueBefore
<1> QED BY <1>1, <1>2 DEF RouteInv

LEMMA RouteSame ==
    ASSUME TypeOK', \A t \in Starts : Goes(t), NEW c, RouteInv(c), NoNewForget(c),
           conn'[c] = conn[c], session'[c] = session[c]
    PROVE  RouteInv(c)'
  BY RouteStays

LEMMA RouteGone ==
    ASSUME NEW c, conn'[c].state = "none", conn'[c].owner = NoTask
    PROVE  RouteInv(c)'
  BY DEF RouteInv

\* A session ends, and its connection with it.
LEMMA RouteEnds ==
    ASSUME TypeOK', \A t \in Starts : Goes(t), NEW c, RouteInv(c), NoNewForget(c), SessionInv(c),
           conn'[c] = conn[c] \/ conn'[c] = NoConn,
           conn[c].routed => conn'[c] = NoConn
    PROVE  RouteInv(c)'
<1>1. CASE conn'[c] = NoConn
  BY <1>1, RouteGone DEF NoConn
<1>2. CASE conn'[c] = conn[c] /\ ~conn[c].routed
  <2> SUFFICES ASSUME StartedOnce(c)'
               PROVE  conn'[c].state = "none" /\ conn'[c].owner = NoTask
    BY DEF RouteInv
  <2>1. conn[c].state = "none"
    BY <1>2, StartsOnceAgain DEF RouteInv
  <2> QED BY <1>2, <2>1 DEF SessionInv
<1> QED BY <1>1, <1>2

LEMMA NewNotForgotten ==
    ASSUME TypeOK, JobsInv, \A s \in Starts : TaskOK(s), NEW t \in Starts, task[t].run = "new",
           StartedOnce(ConnOf(t))
    PROVE  ~ForgetIsDue(ConnOf(t))
<1>1. \A b \in callbacks : b.task \in Starts /\ task[b.task].run # "new"
  BY TypeParts DEF SessionTypes, Callbacks, JobsInv, CallbacksInv
<1>2. ASSUME NEW s \in Starts, NEW a \in Agents, send[s][a].stage \in ForgetStages
      PROVE  task[s].run # "new"
  BY <1>2, SenderStarted DEF ForgetStages
<1>3. \A s \in Starts : ConnOf(s) = ConnOf(t) => s = t
  BY DEF StartedOnce
<1> QED BY <1>1, <1>2, <1>3 DEF ForgetIsDue, ForgetStages

LEMMA StageNoForget ==
    ASSUME SendTypes, NEW t \in Starts, NEW a \in Agents, NEW stage, Stage(t, a, stage),
           UNCHANGED callbacks, NEW c, stage \notin ForgetStages \/ c # ConnOf(t)
    PROVE  NoNewForget(c)
<1>1. \A s \in Starts, b \in Agents : s # t \/ b # a => send'[s][b] = send[s][b]
  BY StageFields
<1>2. send'[t][a].stage = stage
  BY StageFields DEF Idle
<1> QED BY <1>1, <1>2 DEF NoNewForget

LEMMA TaskStepNoForget ==
    ASSUME TypeOK, NEW t \in Starts, TaskStep(t), NEW c
    PROVE  NoNewForget(c)
<1>1. UNCHANGED callbacks
  BY TaskStepLeaves DEF outsideVars
<1>2. SendTypes
  BY TypeParts
<1>3. ASSUME NEW a \in Agents, NEW frame, Say(t, a, frame) PROVE NoNewForget(c)
  <2>1. \A b \in Agents : b # a => send'[t][b] = send[t][b]
    BY <1>2, <1>3, SayFields
  <2>2. send'[t][a].stage = "check"
    <3>1. send'[t][a] = [stage |-> "check", frame |-> frame]
      BY <1>2, <1>3, SayFields
    <3> QED BY <3>1
  <2>3. \A s \in Starts : s # t => send'[s] = send[s]
    BY TaskStepOther
  <2> QED BY <1>1, <2>1, <2>2, <2>3 DEF NoNewForget, ForgetStages
<1>4. CASE UNCHANGED send
  BY <1>1, <1>4 DEF NoNewForget
<1>5. CASE RunStartFails(t) \/ CtlWriteFails(t) \/ CopyReads(t) \/ RunCopied(t)
  <2>1. UNCHANGED send \/ \E a \in Agents, frame \in {"output", "error", "exit"} : Say(t, a, frame)
    BY <1>5 DEF RunStartFails, CtlWriteFails, CopyReads, RunCopied, Agents
  <2> QED BY <1>3, <1>4, <2>1
<1> QED BY <1>4, <1>5
        DEF TaskStep, Run, Ctl, Copy, RunSnapshot, RunStart, RunWaited, RunReplied, CtlEvent,
            CtlNoEvent, CtlDone, CtlClosed, CtlWrites, CtlFailed, CopySent, CopyEnds, ProcReads,
            ProcWrites, ProcExits, KillProc, Reap

LEMMA CloseRouteInv ==
    ASSUME TypeOK, TypeOK', \A t \in Starts : Goes(t), NEW d \in Conns, NEW why,
           closeRemoteLocked(d, why), NEW c \in Conns, RouteInv(c), SessionInv(c), NoNewForget(c)
    PROVE  RouteInv(c)'
<1>0. SessionTypes
  BY TypeParts
<1>1. CASE session[d] = NoTask
  BY <1>1, RouteSame DEF closeRemoteLocked
<1>2. CASE session[d] # NoTask
  <2>1. session' = [session EXCEPT ![d] = NoTask] /\ conn' = DropConnection(d)
    BY <1>2 DEF closeRemoteLocked
  <2>2. CASE c = d
    <3>1. /\ conn'[c] = conn[c] \/ conn'[c] = NoConn
          /\ conn[c].routed => conn'[c] = NoConn
      BY <1>0, <2>1, <2>2, DropFields
    <3> QED BY <3>1, RouteEnds
  <2>3. CASE c # d
    <3>1. session'[c] = session[c] /\ conn'[c] = conn[c]
      BY <1>0, <2>1, <2>3, DropFields DEF SessionTypes
    <3> QED BY <3>1, RouteSame
  <2> QED BY <2>2, <2>3
<1> QED BY <1>1, <1>2

LEMMA StartRouteInv ==
    ASSUME TypeOK, TypeOK', JobsInv, \A s \in Starts : TaskOK(s) /\ Goes(s),
           NEW t \in Starts, StartStep(t), NEW c \in Conns, RouteInv(c)
    PROVE  RouteInv(c)'
<1>0. SessionTypes /\ ConnOf(t) \in Conns
  BY TypeParts DEF TaskTypes, Task, ConnOf
<1>1. UNCHANGED <<callbacks, send>> /\ task[t].run = "new"
  BY DEF StartStep, AcceptStart, RefuseStart, IgnoreStart
<1>2. NoNewForget(c)
  BY <1>1 DEF NoNewForget
<1>3. CASE IgnoreStart(t) \/ c # ConnOf(t)
  <2>1. session'[c] = session[c] /\ conn'[c] = conn[c]
    BY <1>0, <1>3 DEF StartStep, AcceptStart, RefuseStart, IgnoreStart, SessionTypes
  <2> QED BY <1>2, <2>1, RouteSame
<1>4. CASE (AcceptStart(t) \/ RefuseStart(t)) /\ c = ConnOf(t)
  <2> SUFFICES ASSUME StartedOnce(c)'
               PROVE  /\ conn'[c].state # "none" => conn'[c].routed
                      /\ ~ForgetIsDue(c)'
                      /\ conn'[c].owner # NoTask => conn'[c].owner = session'[c]
    BY DEF RouteInv
  <2>1. StartedOnce(c)
    BY StartsOnceAgain
  <2>2. ~ForgetIsDue(c)'
    BY <1>1, <1>2, <1>4, <2>1, NewNotForgotten, ForgetDueBefore
  <2>3. CASE AcceptStart(t)
    BY <1>0, <1>4, <2>2, <2>3 DEF AcceptStart, Registered, SessionTypes
  <2>4. CASE RefuseStart(t)
    BY <1>0, <1>4, <2>2, <2>4 DEF RefuseStart, Registered, SessionTypes
  <2> QED BY <1>4, <2>3, <2>4
<1> QED BY <1>3, <1>4 DEF StartStep

\* A root that starts once is not overtaken.
LEMMA OvertakenAgain ==
    ASSUME TypeOK, JobsInv, \A s \in Starts : TaskOK(s), NEW t \in Starts, StartOvertaken(t)
    PROVE  ~StartedOnce(ConnOf(t))
<1>1. task[t].run = "new" /\ OvertakenForgets(t)
  BY OvertakenParts
<1>2. ForgetIsDue(ConnOf(t))
  BY <1>1 DEF OvertakenForgets, ForgetIsDue, Forgets, SendForgets
<1> QED BY <1>1, <1>2, NewNotForgotten

LEMMA ForgetsNoForget ==
    ASSUME callbacks \subseteq Callbacks, NEW cb, Forgets(cb), UNCHANGED send, NEW c
    PROVE  NoNewForget(c)
  BY ForgetsEntries DEF NoNewForget

LEMMA SendForgetsNoForget ==
    ASSUME SendTypes, NEW t \in Starts, NEW a \in Agents, SendForgets(t, a), UNCHANGED callbacks, NEW c
    PROVE  NoNewForget(c)
  BY StageNoForget DEF SendForgets, ForgetStages

LEMMA OvertakenRouteInv ==
    ASSUME TypeOK, TypeOK', JobsInv, \A s \in Starts : TaskOK(s) /\ Goes(s),
           NEW t \in Starts, StartOvertaken(t), NEW c \in Conns, RouteInv(c)
    PROVE  RouteInv(c)'
<1>0. SessionTypes /\ SendTypes
  BY TypeParts
<1>1. CASE c = ConnOf(t)
  BY <1>1, OvertakenAgain, StartsOnceAgain DEF RouteInv
<1>2. CASE c # ConnOf(t)
  <2>1. PICK k : conn' = [conn EXCEPT ![ConnOf(t)] = k]
    BY OvertakenParts
  <2>2. UNCHANGED session
    BY OvertakenParts
  <2>3. session'[c] = session[c] /\ conn'[c] = conn[c]
    BY <1>0, <1>2, <2>1, <2>2 DEF SessionTypes
  <2>4. NoNewForget(c)
    <3>1. CASE UNCHANGED send /\ \E cb \in callbacks : Forgets(cb)
      BY <1>0, <3>1, ForgetsNoForget DEF SessionTypes
    <3>2. CASE UNCHANGED callbacks /\ \E s \in Starts, a \in Agents : SendForgets(s, a)
      BY <1>0, <3>2, SendForgetsNoForget
    <3> QED BY <3>1, <3>2, OvertakenParts DEF OvertakenForgets
  <2> QED BY <2>3, <2>4, RouteSame
<1> QED BY <1>1, <1>2

\* forgetConn finds nothing in the chat's queue, because it is due.
LEMMA ForgottenRouteInv ==
    ASSUME SessionTypes, \A t \in Starts : Goes(t), NEW c \in Conns, RouteInv(c), SessionInv(c),
           ForgetIsDue(c), NEW d \in Conns, conn' = Forgotten(d), UNCHANGED session
    PROVE  RouteInv(c)'
<1> SUFFICES ASSUME StartedOnce(c)'
             PROVE  conn'[c].state = "none" /\ conn'[c].owner = NoTask
  BY DEF RouteInv
<1>1. conn[c].state = "none"
  BY StartsOnceAgain DEF RouteInv
<1> QED BY <1>1, ForgottenFields DEF SessionInv

LEMMA SendRouteInv ==
    ASSUME TypeOK, TypeOK', \A s \in Starts : Goes(s), NEW t \in Starts, NEW a \in Agents, Send(t, a),
           NEW c \in Conns, RouteInv(c), SessionInv(c)
    PROVE  RouteInv(c)'
<1>0. SessionTypes /\ SendTypes /\ ConnOf(t) \in Conns
  BY TypeParts DEF TaskTypes, Task, ConnOf
<1>1. UNCHANGED callbacks
  BY DEF Send, SendCheck, SendEnqueue, SendMark, SendForget, SendDrained
<1>2. ASSUME NEW stage \in {"idle", "enqueue", "mark"}, Stage(t, a, stage) PROVE NoNewForget(c)
  BY <1>0, <1>1, <1>2, StageNoForget DEF ForgetStages
<1>3. CASE SendCheck(t, a)
  BY <1>2, <1>3, RouteSame DEF SendCheck
<1>4. CASE SendEnqueue(t, a)
  <2>1. UNCHANGED <<session, conn>> /\ \E stage \in {"idle", "mark"} : Stage(t, a, stage)
    BY <1>4 DEF SendEnqueue
  <2> QED BY <1>2, <2>1, RouteSame
<1>5. CASE SendMark(t, a)
  <2>1. UNCHANGED session
    BY <1>5 DEF SendMark
  <2>2. CASE UNCHANGED conn /\ Stage(t, a, "idle")
    BY <1>2, <2>1, <2>2, RouteSame
  <2>3. CASE c # ConnOf(t)
    <3>1. conn'[c] = conn[c]
      BY <1>0, <1>5, <2>3 DEF SendMark, SessionTypes
    <3>2. \E stage : Stage(t, a, stage)
      BY <1>5 DEF SendMark
    <3>3. NoNewForget(c)
      BY <1>0, <1>1, <2>3, <3>2, StageNoForget
    <3> QED BY <2>1, <3>1, <3>3, RouteSame
  <2>4. CASE /\ c = ConnOf(t) /\ Found(c) /\ Stage(t, a, "idle")
             /\ conn' = [conn EXCEPT ![ConnOf(t)].state = "closing"]
    <3>1. /\ conn[c].state # "none" /\ conn'[c].routed = conn[c].routed
          /\ conn'[c].owner = conn[c].owner
      BY <1>0, <2>4 DEF SessionTypes, Connection, Found
    <3> QED BY <1>2, <2>1, <2>4, <3>1, RouteStays
  <2>5. CASE c = ConnOf(t) /\ conn' = [conn EXCEPT ![ConnOf(t)] = Removed(@)]
    <3>1. conn'[c] = Removed(conn[c]) /\ conn[c] \in Connection
      BY <1>0, <2>5 DEF SessionTypes
    <3> QED BY <3>1, RouteGone DEF Removed, Connection
  <2> QED BY <1>5, <2>2, <2>3, <2>4, <2>5 DEF SendMark
<1>6. CASE SendForget(t, a)
  <2>1. SendForgets(t, a) /\ conn' = Forgotten(ConnOf(t)) /\ UNCHANGED session
    BY <1>6 DEF SendForget
  <2>2. NoNewForget(c)
    BY <1>0, <1>1, <2>1, SendForgetsNoForget
  <2>3. CASE c # ConnOf(t)
    BY <1>0, <2>1, <2>2, <2>3, ForgottenFields, RouteSame
  <2>4. CASE c = ConnOf(t)
    <3>1. ForgetIsDue(c)
      BY <2>1, <2>4 DEF SendForgets, ForgetIsDue
    <3> QED BY <1>0, <2>1, <2>2, <3>1, ForgottenRouteInv
  <2> QED BY <2>3, <2>4
<1>7. CASE SendDrained(t, a)
  BY <1>0, <1>2, <1>7, CloseRouteInv DEF SendDrained
<1> QED BY <1>3, <1>4, <1>5, <1>6, <1>7 DEF Send

LEMMA HolderRouteInv ==
    ASSUME TypeOK, TypeOK', \A s \in Starts : Goes(s), Holder,
           NEW c \in Conns, RouteInv(c), SessionInv(c)
    PROVE  RouteInv(c)'
<1> DEFINE t == todo[1].task
           d == ConnOf(t)
<1>0. SessionTypes /\ InputTypes /\ ~Free
  BY TypeParts DEF Holder, HandleInput, HandleMalformed, HandleEnding, HandleGap, GapError, GapMark
<1>1. t \in Starts /\ d \in Conns
  <2>1. t \in Starts
    BY <1>0, TailTypes DEF Job
  <2> QED BY <2>1, TypeParts DEF TaskTypes, Task, ConnOf
<1>2. NoNewForget(c)
  <2>1. UNCHANGED callbacks /\ UNCHANGED send
    BY DEF Holder, HandleInput, HandleMalformed, HandleEnding, HandleGap, GapError, GapMark
  <2> QED BY <2>1 DEF NoNewForget
<1> HIDE DEF t, d
<1>3. CASE HandleInput \/ HandleMalformed \/ HandleGap \/ GapError
  <2>1. UNCHANGED <<session, conn>>
    BY <1>3 DEF HandleInput, HandleMalformed, HandleGap, GapError
  <2> QED BY <1>2, <2>1, RouteSame
<1>4. CASE HandleEnding
  <2>1. session' = [session EXCEPT ![d] = NoTask] /\ conn' = DropConnection(d)
    BY <1>4 DEF HandleEnding, d, t
  <2>2. CASE c = d
    <3>1. /\ conn'[c] = conn[c] \/ conn'[c] = NoConn
          /\ conn[c].routed => conn'[c] = NoConn
      BY <1>0, <2>1, <2>2, DropFields
    <3> QED BY <1>2, <3>1, RouteEnds
  <2>3. CASE c # d
    <3>1. session'[c] = session[c] /\ conn'[c] = conn[c]
      BY <1>0, <1>1, <2>1, <2>3, DropFields DEF SessionTypes
    <3> QED BY <1>2, <3>1, RouteSame
  <2> QED BY <2>2, <2>3
<1>5. CASE GapMark
  <2>1. UNCHANGED session
    BY <1>5 DEF GapMark
  <2>2. CASE UNCHANGED conn
    BY <1>2, <2>1, <2>2, RouteSame
  <2>3. CASE c # d
    <3>1. conn'[c] = conn[c]
      BY <1>0, <1>5, <2>3 DEF GapMark, SessionTypes, d, t
    <3> QED BY <1>2, <2>1, <3>1, RouteSame
  <2>4. CASE c = d /\ Found(c) /\ conn' = [conn EXCEPT ![d].state = "closing"]
    <3>1. /\ conn[c].state # "none" /\ conn'[c].routed = conn[c].routed
          /\ conn'[c].owner = conn[c].owner
      BY <1>0, <2>4 DEF SessionTypes, Connection, Found
    <3> QED BY <1>2, <2>1, <3>1, RouteStays
  <2>5. CASE c = d /\ conn' = [conn EXCEPT ![d] = NoConn]
    <3>1. conn'[c] = NoConn
      BY <1>0, <2>5 DEF SessionTypes
    <3> QED BY <3>1, RouteGone DEF NoConn
  <2> QED BY <1>5, <2>2, <2>3, <2>4, <2>5 DEF GapMark, d, t
<1> QED BY <1>3, <1>4, <1>5 DEF Holder

LEMMA NextRouteInv ==
    ASSUME TypeOK, TypeOK', JobsInv, \A c \in Conns : SessionInv(c),
           \A t \in Starts : TaskOK(t) /\ Goes(t), [Next]_vars, NEW c \in Conns, RouteInv(c)
    PROVE  RouteInv(c)'
<1>0. SessionTypes
  BY TypeParts
<1>1. ASSUME UNCHANGED <<session, conn, callbacks, send>> PROVE RouteInv(c)'
  <2>1. NoNewForget(c)
    BY <1>1 DEF NoNewForget
  <2> QED BY <1>1, <2>1, RouteSame
<1>2. ASSUME NEW t \in Starts, TaskStep(t) PROVE RouteInv(c)'
  BY <1>2, TaskStepLeaves, TaskStepNoForget, RouteSame DEF outsideVars
<1>3. ASSUME NEW d \in Conns, NEW why \in {"drained", "dropped"}, OutboundRemoves(d, why)
      PROVE  RouteInv(c)'
  <2>0. PICK cb : cb = [task |-> conn[d].start, forgotten |-> FALSE,
                        why |-> IF conn[d].owner = NoTask THEN "refused" ELSE why]
    OBVIOUS
  <2>1. /\ conn[d].state # "none"
        /\ conn' = [conn EXCEPT ![d] = Removed(@)] /\ UNCHANGED <<session, send>>
        /\ callbacks' = callbacks \union {cb}
    BY <1>3, <2>0 DEF OutboundRemoves
  <2>2. CASE c = d
    <3>1. conn'[c] = Removed(conn[c]) /\ conn[c] \in Connection
      BY <1>0, <2>1, <2>2 DEF SessionTypes
    <3> QED BY <3>1, RouteGone DEF Removed, Connection
  <2>3. CASE c # d
    <3>1. conn'[c] = conn[c]
      BY <1>0, <2>1, <2>3 DEF SessionTypes
    <3>2. ConnOf(cb.task) # c
      <4>1. ConnOf(conn[d].start) = d
        BY <2>1 DEF SessionInv
      <4>2. cb.task = conn[d].start
        BY <2>0
      <4> QED BY <2>3, <4>1, <4>2
    <3>3. NoNewForget(c)
      BY <2>1, <3>2 DEF NoNewForget
    <3> QED BY <2>1, <3>1, <3>3, RouteSame
  <2> QED BY <2>2, <2>3
<1>4. ASSUME NEW cb \in callbacks, OutboundForgets(cb) \/ CallDrained(cb) \/ CallDropped(cb)
      PROVE  RouteInv(c)'
  <2>1. cb.task \in Starts /\ ConnOf(cb.task) \in Conns
    <3>1. cb.task \in Starts
      BY <1>0 DEF SessionTypes, Callbacks
    <3> QED BY <3>1, TypeParts DEF TaskTypes, Task, ConnOf
  <2>2. CASE OutboundForgets(cb)
    <3>1. /\ Forgets(cb) /\ conn' = Forgotten(ConnOf(cb.task))
          /\ UNCHANGED <<session, send>>
      BY <2>2 DEF OutboundForgets
    <3>2. NoNewForget(c)
      BY <1>0, <3>1, ForgetsNoForget DEF SessionTypes
    <3>3. CASE c # ConnOf(cb.task)
      BY <1>0, <2>1, <3>1, <3>2, <3>3, ForgottenFields, RouteSame
    <3>4. CASE c = ConnOf(cb.task)
      <4>1. ForgetIsDue(c)
        BY <3>1, <3>4 DEF Forgets, ForgetIsDue
      <4> QED BY <1>0, <2>1, <3>1, <4>1, ForgottenRouteInv
    <3> QED BY <3>3, <3>4
  <2>3. CASE CallDrained(cb)
    <3>1. NoNewForget(c)
      BY <2>3 DEF CallDrained, NoNewForget
    <3> QED BY <2>1, <2>3, <3>1, CloseRouteInv DEF CallDrained
  <2>4. CASE CallDropped(cb)
    <3>1. NoNewForget(c)
      BY <2>4 DEF CallDropped, NoNewForget
    <3>2. UNCHANGED <<session, conn>>
      BY <2>4 DEF CallDropped
    <3> QED BY <3>1, <3>2, RouteSame
  <2> QED BY <1>4, <2>2, <2>3, <2>4
<1> QED BY <1>1, <1>2, <1>3, <1>4, NextCases, StartRouteInv, OvertakenRouteInv, SendRouteInv,
           HolderRouteInv
        DEF vars, ReceiveRemote, PeerFallsSilent, Tick

-----------------------------------------------------------------------------
(***************************************************************************)
(* Why a command is stopped.                                               *)
(***************************************************************************)
Opens(c, t) == task[t].run = "new" /\ ConnOf(t) = c

\* What a step can do to the session, the connection and the log of c.
SessionMoves(c) ==
    \/ session'[c] \in {session[c], NoTask}
    \/ \E t \in Starts : Opens(c, t) /\ session'[c] = t
ConnMoves(c) ==
    \/ /\ conn'[c].owner \in {conn[c].owner, NoTask}
       /\ conn'[c].routed => conn[c].routed \/ conn'[c].owner = NoTask
    \/ \E t \in Starts : Opens(c, t) /\ conn'[c].owner = t
LogMoves(c) ==
    \/ log'[c] = log[c]
    \/ \E frame \in LogFrame : log'[c] = Append(log[c], frame)
Moves(c) == SessionMoves(c) /\ ConnMoves(c) /\ LogMoves(c)

LEMMA StillMoves ==
    ASSUME NEW c
    PROVE  /\ session'[c] = session[c] => SessionMoves(c)
           /\ conn'[c] = conn[c] \/ conn'[c] = NoConn => ConnMoves(c)
           /\ log'[c] = log[c] => LogMoves(c)
  BY DEF SessionMoves, ConnMoves, LogMoves, NoConn

LEMMA CloseMoves ==
    ASSUME SessionTypes, NEW d \in Conns, NEW why, closeRemoteLocked(d, why), NEW c \in Conns
    PROVE  SessionMoves(c) /\ ConnMoves(c)
<1>1. CASE session[d] = NoTask
  BY <1>1, StillMoves DEF closeRemoteLocked
<1>2. CASE session[d] # NoTask
  <2>1. session' = [session EXCEPT ![d] = NoTask] /\ conn' = DropConnection(d)
    BY <1>2 DEF closeRemoteLocked
  <2>2. SessionMoves(c)
    BY <2>1 DEF SessionMoves, SessionTypes
  <2> QED BY <2>1, <2>2, DropFields, StillMoves
<1> QED BY <1>1, <1>2

LEMMA AppendMoves ==
    ASSUME LogTypes, NEW d \in Conns, NEW c \in Conns, NEW frame \in LogFrame,
           log' = [log EXCEPT ![d] = Append(@, frame)]
    PROVE  LogMoves(c)
  BY DEF LogTypes, LogMoves

\* The entry of d is written, at most its owner goes and it is not registered.
LEMMA EntryMoves ==
    ASSUME SessionTypes, NEW d \in Conns, NEW c \in Conns, NEW k,
           conn' = [conn EXCEPT ![d] = k], k.owner \in {conn[d].owner, NoTask},
           k.routed => conn[d].routed \/ k.owner = NoTask
    PROVE  ConnMoves(c)
<1>1. CASE c = d
  BY <1>1 DEF SessionTypes, ConnMoves
<1>2. CASE c # d
  BY <1>2 DEF SessionTypes, ConnMoves
<1> QED BY <1>1, <1>2

LEMMA NextMoves ==
    ASSUME TypeOK, \A t \in Starts : TaskOK(t), [Next]_vars, NEW c \in Conns
    PROVE  Moves(c)
<1>0. SessionTypes /\ LogTypes /\ InputTypes /\ SendTypes /\ \A t \in Starts : ConnOf(t) \in Conns
  BY TypeParts DEF TaskTypes, Task, ConnOf
<1>1. ASSUME UNCHANGED <<session, conn, log>> PROVE Moves(c)
  BY <1>1, StillMoves DEF Moves
<1>2. ASSUME NEW t \in Starts, StartStep(t) PROVE Moves(c)
  <2>0. ConnOf(t) \in Conns
    BY <1>0
  <2>1. CASE AcceptStart(t)
    <3>1. /\ session' = [session EXCEPT ![ConnOf(t)] = t] /\ task[t].run = "new"
          /\ conn' = [conn EXCEPT ![ConnOf(t)] = Registered(t, "open", t)]
          /\ log' = [log EXCEPT ![ConnOf(t)] = Append(@, "start_ack")]
      BY <2>1 DEF AcceptStart
    <3>2. CASE c = ConnOf(t)
      BY <1>0, <2>0, <3>1, <3>2, AppendMoves
         DEF Moves, SessionMoves, ConnMoves, Opens, SessionTypes, LogFrame, Registered
    <3>3. CASE c # ConnOf(t)
      BY <1>0, <2>0, <3>1, <3>3, StillMoves DEF Moves, SessionTypes, LogTypes
    <3> QED BY <3>2, <3>3
  <2>2. CASE RefuseStart(t)
    <3>1. /\ UNCHANGED session
          /\ conn' = [conn EXCEPT ![ConnOf(t)] = Registered(t, "closing", NoTask)]
          /\ log' = [log EXCEPT ![ConnOf(t)] = Append(@, "error")]
      BY <2>2 DEF RefuseStart
    <3>2. ConnMoves(c)
      BY <1>0, <2>0, <3>1, EntryMoves DEF Registered
    <3> QED BY <1>0, <2>0, <3>1, <3>2, AppendMoves, StillMoves DEF Moves, LogFrame
  <2>3. CASE IgnoreStart(t)
    BY <1>1, <2>3 DEF IgnoreStart
  <2> QED BY <1>2, <2>1, <2>2, <2>3 DEF StartStep
<1>3. ASSUME NEW t \in Starts, NEW a \in Agents, Send(t, a) PROVE Moves(c)
  <2>0. ConnOf(t) \in Conns
    BY <1>0
  <2>1. CASE SendCheck(t, a)
    BY <1>1, <2>1 DEF SendCheck
  <2>2. CASE SendEnqueue(t, a)
    <3>1. send[t][a].frame \in LogFrame
      BY <1>0, <2>2 DEF SendEnqueue, TaskOK, SendInv, SendTypes, Call, LogFrame
    <3>2. CASE UNCHANGED log
      BY <1>1, <2>2, <3>2 DEF SendEnqueue
    <3>3. CASE log' = [log EXCEPT ![ConnOf(t)] = Append(@, send[t][a].frame)]
      BY <1>0, <2>0, <2>2, <3>1, <3>3, AppendMoves, StillMoves DEF SendEnqueue, Moves
    <3> QED BY <2>2, <3>2, <3>3 DEF SendEnqueue
  <2>3. CASE SendMark(t, a)
    <3>1. UNCHANGED <<session, log>>
      BY <2>3 DEF SendMark
    <3>2. CASE UNCHANGED conn
      BY <1>1, <3>1, <3>2
    <3>3. CASE conn' = [conn EXCEPT ![ConnOf(t)].state = "closing"]
      BY <1>0, <2>0, <3>1, <3>3, StillMoves DEF Moves, ConnMoves, SessionTypes, Connection
    <3>4. CASE conn' = [conn EXCEPT ![ConnOf(t)] = Removed(@)]
      BY <1>0, <2>0, <3>1, <3>4, StillMoves DEF Moves, ConnMoves, SessionTypes, Connection, Removed
    <3> QED BY <2>3, <3>2, <3>3, <3>4 DEF SendMark
  <2>4. CASE SendForget(t, a)
    BY <1>0, <2>0, <2>4, ForgottenFields, StillMoves DEF SendForget, Moves, ConnMoves
  <2>5. CASE SendDrained(t, a)
    BY <1>0, <2>0, <2>5, CloseMoves, StillMoves DEF SendDrained, Moves
  <2> QED BY <1>3, <2>1, <2>2, <2>3, <2>4, <2>5 DEF Send
<1>4. CASE Holder
  <2> DEFINE d == ConnOf(todo[1].task)
  <2>0. d \in Conns
    <3>1. ~Free
      BY <1>4 DEF Holder, HandleInput, HandleMalformed, HandleEnding, HandleGap, GapError, GapMark
    <3>2. todo[1].task \in Starts
      BY <1>0, <3>1, TailTypes DEF Job
    <3> QED BY <1>0, <3>2
  <2>1. CASE HandleInput \/ HandleMalformed \/ HandleGap
    BY <1>1, <2>1 DEF HandleInput, HandleMalformed, HandleGap
  <2>2. CASE HandleEnding
    <3>1. session' = [session EXCEPT ![d] = NoTask] /\ conn' = DropConnection(d) /\ UNCHANGED log
      BY <2>2 DEF HandleEnding
    <3> HIDE DEF d
    <3>2. SessionMoves(c)
      BY <1>0, <2>0, <3>1 DEF SessionMoves, SessionTypes
    <3> QED BY <1>0, <2>0, <3>1, <3>2, DropFields, StillMoves DEF Moves
  <2>3. CASE GapError
    <3>1. UNCHANGED <<session, conn>> /\ (UNCHANGED log \/ log' = [log EXCEPT ![d] = Append(@, "error")])
      BY <2>3 DEF GapError
    <3> HIDE DEF d
    <3> QED BY <1>0, <2>0, <3>1, AppendMoves, StillMoves DEF Moves, LogFrame
  <2>4. CASE GapMark
    <3>1. /\ UNCHANGED <<session, log>>
          /\ \/ UNCHANGED conn
             \/ conn' = [conn EXCEPT ![d].state = "closing"]
             \/ conn' = [conn EXCEPT ![d] = NoConn]
      BY <2>4 DEF GapMark
    <3> HIDE DEF d
    <3>2. ConnMoves(c)
      <4>1. CASE conn' = [conn EXCEPT ![d].state = "closing"]
        BY <1>0, <2>0, <4>1 DEF ConnMoves, SessionTypes, Connection
      <4>2. CASE conn' = [conn EXCEPT ![d] = NoConn]
        BY <1>0, <2>0, <4>2, EntryMoves DEF NoConn
      <4> QED BY <3>1, <4>1, <4>2, StillMoves
    <3> QED BY <3>1, <3>2, StillMoves DEF Moves
  <2> QED BY <1>4, <2>1, <2>2, <2>3, <2>4 DEF Holder
<1>5. ASSUME NEW cb \in callbacks, OutboundForgets(cb) \/ CallDrained(cb) \/ CallDropped(cb)
      PROVE  Moves(c)
  <2>1. ConnOf(cb.task) \in Conns
    BY <1>0 DEF SessionTypes, Callbacks
  <2>2. CASE CallDropped(cb)
    BY <1>1, <2>2 DEF CallDropped
  <2>3. CASE CallDrained(cb)
    BY <1>0, <2>1, <2>3, CloseMoves, StillMoves DEF CallDrained, Moves
  <2>4. CASE OutboundForgets(cb)
    BY <1>0, <2>1, <2>4, ForgottenFields, StillMoves DEF OutboundForgets, Moves, ConnMoves
  <2> QED BY <1>5, <2>2, <2>3, <2>4
<1>6. ASSUME NEW d \in Conns, NEW why \in {"drained", "dropped"}, OutboundRemoves(d, why) PROVE Moves(c)
  <2>1. UNCHANGED <<session, log>> /\ conn' = [conn EXCEPT ![d] = Removed(@)]
    BY <1>6 DEF OutboundRemoves
  <2> QED BY <1>0, <2>1, StillMoves DEF Moves, ConnMoves, SessionTypes, Connection, Removed
<1>7. ASSUME NEW t \in Starts, StartOvertaken(t) PROVE Moves(c)
  <2>0. ConnOf(t) \in Conns
    BY <1>0
  <2>1. /\ task[t].run = "new" /\ UNCHANGED session
        /\ log' = log \/ log' = [log EXCEPT ![ConnOf(t)] = Append(@, "error")]
    BY <1>7, OvertakenParts
  <2>2. LogMoves(c)
    BY <1>0, <2>0, <2>1, AppendMoves, StillMoves DEF LogFrame
  <2>3. PICK owner \in {t, NoTask} :
           conn' = [conn EXCEPT ![ConnOf(t)] =
                       [routed |-> FALSE, state |-> "open", owner |-> owner, start |-> t]]
    BY <1>7, OvertakenParts
  <2>4. ConnMoves(c)
    <3>1. CASE c = ConnOf(t)
      BY <1>0, <2>0, <2>1, <2>3, <3>1 DEF SessionTypes, ConnMoves, Opens
    <3>2. CASE c # ConnOf(t)
      BY <1>0, <2>0, <2>3, <3>2, StillMoves DEF SessionTypes
    <3> QED BY <3>1, <3>2
  <2> QED BY <2>1, <2>2, <2>4, StillMoves DEF Moves
<1> QED BY <1>1, <1>2, <1>3, <1>4, <1>5, <1>6, <1>7, NextCases, TaskStepLeaves
        DEF vars, outsideVars, ReceiveRemote, PeerFallsSilent, Tick

\* A connection whose gap error is due is not forgotten by another step.
LEMMA GapErrorDue ==
    ASSUME [Next]_vars, TypeOK, todo # << >>, todo[1].what = "gap_error"
    PROVE  UNCHANGED todo \/ GapError
<1>1. ASSUME NEW t \in Starts, TaskStep(t) PROVE UNCHANGED todo
  BY <1>1, TaskStepLeaves DEF outsideVars
<1>2. ASSUME NEW t \in Starts, StartStep(t) PROVE UNCHANGED todo
  BY <1>2 DEF StartStep, AcceptStart, RefuseStart, IgnoreStart
<1>3. ASSUME NEW t \in Starts, NEW a \in Agents, Send(t, a) PROVE UNCHANGED todo
  BY <1>3 DEF Send, SendCheck, SendEnqueue, SendMark, SendForget, SendDrained
<1>4. CASE Holder
  BY <1>4 DEF Holder, HandleInput, HandleMalformed, HandleEnding, HandleGap, GapMark,
     Inputs, Endings, Malformed
<1>5. ASSUME NEW cb \in callbacks, OutboundForgets(cb) \/ CallDrained(cb) \/ CallDropped(cb)
      PROVE  UNCHANGED todo
  BY <1>5 DEF OutboundForgets, CallDrained, CallDropped, Free
<1>6. ASSUME NEW t \in Starts, StartOvertaken(t) PROVE UNCHANGED todo
  BY <1>6, OvertakenParts
<1> QED BY <1>1, <1>2, <1>3, <1>4, <1>5, <1>6, NextCases
        DEF vars, ReceiveRemote, PeerFallsSilent, OutboundRemoves, Tick, Free

\* A reason is one for good.
LEMMA ReasonStays ==
    ASSUME TypeOK, \A c \in Conns : SessionInv(c), \A t \in Starts : TaskOK(t) /\ Goes(t),
           [Next]_vars, NEW s \in Starts, task[s].run # "new", Reason(s)
    PROVE  Reason(s)'
<1> DEFINE c == ConnOf(s)
<1>0. /\ c \in Conns /\ ConnOf(s)' = c
      /\ SessionTypes /\ LogTypes /\ InputTypes /\ NoTask # s
  BY TypeParts, RemoteAssumption DEF TaskTypes, Task, ConnOf, Goes
<1>1. Moves(c)
  BY <1>0, NextMoves
<1>2. SessionInv(c)
  BY <1>0
<1> HIDE DEF c
<1>3. session[c] # s => session'[c] # s
  BY <1>0, <1>1 DEF Moves, SessionMoves, Opens
<1>4. conn[c].owner # s \/ ~conn[c].routed => conn'[c].owner # s \/ ~conn'[c].routed
  BY <1>0, <1>1 DEF Moves, ConnMoves, Opens
<1>5. ASSUME Contains(log[c], "error") PROVE Contains(log'[c], "error")
  <2>0. log[c] \in Seq(LogFrame)
    BY <1>0 DEF LogTypes
  <2>1. PICK i \in 1 .. Len(log[c]) : log[c][i] = "error"
    BY <1>5 DEF Contains
  <2>2. ASSUME NEW frame \in LogFrame, log'[c] = Append(log[c], frame)
        PROVE  i \in 1 .. Len(log'[c]) /\ log'[c][i] = "error"
    BY <2>0, <2>1, <2>2
  <2> QED BY <1>1, <2>1, <2>2 DEF Moves, LogMoves, Contains
<1>6. ASSUME todo # << >>, todo[1] = [task |-> s, what |-> "gap_error"] PROVE Reason(s)'
  <2>1. todo[1].what = "gap_error" /\ todo[1].task = s
    BY <1>6
  <2>2. CASE UNCHANGED todo
    BY <1>6, <2>2 DEF Reason
  <2>3. CASE GapError
    <3>1. CASE ~Found(ConnOf(todo[1].task))
      <4>1. ~conn[c].routed \/ conn[c].state = "none"
        BY <2>1, <3>1 DEF c, Found
      <4>2. ~conn[c].routed \/ conn[c].owner = NoTask
        BY <1>2, <4>1 DEF SessionInv
      <4> QED BY <1>0, <1>4, <4>2 DEF Reason
    <3>2. CASE Found(ConnOf(todo[1].task))
      <4>1. log' = [log EXCEPT ![c] = Append(@, "error")]
        BY <2>1, <2>3, <3>2 DEF GapError, c
      <4>2. log'[c] = Append(log[c], "error") /\ log[c] \in Seq(LogFrame)
        BY <1>0, <4>1 DEF LogTypes
      <4>3. Len(log[c]) + 1 \in 1 .. Len(log'[c]) /\ log'[c][Len(log[c]) + 1] = "error"
        BY <4>2
      <4>4. Contains(log'[c], "error")
        BY <4>3 DEF Contains
      <4> QED BY <1>0, <4>4 DEF Reason
    <3> QED BY <3>1, <3>2
  <2> QED BY <2>1, <2>2, <2>3, <1>6, GapErrorDue
<1>7. ConnOf(s) = c
  BY DEF c
<1> QED BY <1>0, <1>3, <1>4, <1>5, <1>6, <1>7 DEF Reason

LEMMA HeadAndTail ==
    ASSUME NEW S, NEW q \in Seq(S), q # << >>
    PROVE  /\ Len(Tail(q)) = Len(q) - 1 /\ Len(q) \in Nat \ {0}
           /\ Head(q) = q[1]
           /\ \A i \in 1 .. Len(Tail(q)) : Tail(q)[i] = q[i + 1]
  OBVIOUS

\* What task s has to say about its end is not more than before.
Asks(s) == \E i \in 1 .. Len(task[s].events) : task[s].events[i] \notin Inputs
Tamer(s) ==
    /\ Asks(s)' => Asks(s)
    /\ task'[s].grace => task[s].grace \/ Asks(s)
    /\ task'[s].closed /\ task'[s].run # "done" => task[s].closed /\ task[s].run # "done"

\* controlLoop has reported its error, or found nobody to report it to.
CtlSpoke(s) == task[s].ctl = "error" /\ send[s]["ctl"].stage \notin {"check", "enqueue"}

LEMMA TamerReason ==
    ASSUME NEW s \in Starts, TaskOK(s), ReasonInv(s), Tamer(s),
           CtlSpoke(s)' => CtlSpoke(s) \/ Reason(s)',
           task[s].run # "new" /\ Reason(s) => Reason(s)'
    PROVE  ReasonInv(s)'
<1>1. Asks(s) \/ task[s].grace \/ (task[s].closed /\ task[s].run # "done") => Reason(s)'
  <2>1. Asks(s) => task[s].run # "new"
    <3>1. task[s].events = << >> => ~Asks(s)
      BY DEF Asks
    <3> QED BY <3>1 DEF TaskOK, TaskInv
  <2>2. task[s].grace \/ task[s].closed => task[s].run # "new"
    BY DEF TaskOK, TaskInv
  <2> QED BY <2>1, <2>2 DEF ReasonInv, Asks
<1>2. CtlSpoke(s) => Reason(s)'
  <2>1. CtlSpoke(s) => task[s].run # "new"
    BY DEF CtlSpoke, TaskOK, TaskInv
  <2> QED BY <2>1 DEF ReasonInv, CtlSpoke
<1>3. CtlSpoke(s)' => Reason(s)'
  BY <1>2
<1> QED BY <1>1, <1>3 DEF Tamer, Asks, ReasonInv, CtlSpoke

LEMMA TaskStepTamer ==
    ASSUME TypeOK, NEW t \in Starts, TaskStep(t), NEW s \in Starts
    PROVE  Tamer(s)
<1>0. task \in [Starts -> Task] /\ task[t] \in Task /\ task[t].events \in Seq(Events)
  BY TypeParts DEF TaskTypes, Task
<1>1. ASSUME NEW r \in Starts, task'[r].events = task[r].events, task'[r].grace = task[r].grace,
             task'[r].closed /\ task'[r].run # "done" => task[r].closed /\ task[r].run # "done"
      PROVE  Tamer(r)
  BY <1>1 DEF Tamer, Asks
<1>2. CASE s # t
  BY <1>1, <1>2, TaskStepOther
<1>3. ASSUME NEW run \in RunStates \ {"done"}, NEW k \in Task, task' = [task EXCEPT ![t] = k],
             k.events = task[t].events, k.grace = task[t].grace, k.closed = task[t].closed,
             k.run = task[t].run \/ task[t].run # "done"
      PROVE  Tamer(t)
  BY <1>0, <1>1, <1>3
<1>4. CASE s = t
  <2>1. CASE UNCHANGED task
    BY <1>1, <1>4, <2>1
  <2>2. CASE Finish(t)
    BY <1>0, <1>1, <1>4, <2>2, FinishFields
  <2>3. CASE RunSnapshot(t)
    <3>1. task[t].run = "snapshot" /\ (Finish(t) \/ task' = [task EXCEPT ![t].run = "start"])
      BY <2>3 DEF RunSnapshot
    <3> QED BY <1>0, <1>1, <1>4, <2>2, <3>1 DEF Task
  <2>4. CASE RunStart(t)
    BY <1>0, <1>1, <1>4, <2>4 DEF RunStart, Task
  <2>5. CASE RunStartFails(t)
    BY <1>0, <1>1, <1>4, <2>5 DEF RunStartFails, Task
  <2>6. CASE RunWaited(t)
    BY <1>0, <1>1, <1>4, <2>6 DEF RunWaited, Task
  <2>7. CASE RunCopied(t)
    <3>1. task[t].run = "copying" /\ (Finish(t) \/ task' = [task EXCEPT ![t].run = "reply"])
      BY <2>7 DEF RunCopied
    <3> QED BY <1>0, <1>1, <1>4, <2>2, <3>1 DEF Task
  <2>8. CASE CtlNoEvent(t)
    BY <1>0, <1>1, <1>4, <2>8 DEF CtlNoEvent, Task
  <2>9. CASE CtlDone(t)
    BY <1>0, <1>1, <1>4, <2>9 DEF CtlDone, Task
  <2>10. CASE CtlClosed(t)
    BY <1>0, <1>1, <1>4, <2>10 DEF CtlClosed, Stop, Task
  <2>11. CASE CtlWrites(t)
    BY <1>0, <1>1, <1>4, <2>11 DEF CtlWrites, Task
  <2>12. CASE CtlWriteFails(t)
    BY <1>0, <1>1, <1>4, <2>12 DEF CtlWriteFails, Task
  <2>13. CASE CtlFailed(t)
    BY <1>0, <1>1, <1>4, <2>13 DEF CtlFailed, Stop, Task
  <2>14. CASE CopyReads(t)
    BY <1>0, <1>1, <1>4, <2>14 DEF CopyReads, Task
  <2>15. CASE CopySent(t)
    BY <1>0, <1>1, <1>4, <2>15 DEF CopySent, Task
  <2>16. CASE CopyEnds(t)
    BY <1>0, <1>1, <1>4, <2>16 DEF CopyEnds, Task
  <2>17. CASE Reap(t)
    BY <1>0, <1>1, <1>4, <2>17 DEF Reap, Task
  <2>18. CASE CtlEvent(t)
    <3> DEFINE rest == Tail(task[t].events)
    <3>0. /\ task[t].events # << >>
          /\ \/ \E ctl : task' = [task EXCEPT ![t].events = rest, ![t].ctl = ctl]
             \/ \E ctl : /\ task' = [task EXCEPT ![t].events = rest, ![t].ctl = ctl, ![t].grace = TRUE]
                         /\ Head(task[t].events) \notin Inputs
             \/ \E ctl : task' = [task EXCEPT ![t].events = rest, ![t].ctl = ctl, ![t].ctx = TRUE]
      <4>1. "interrupt" \notin Inputs
        BY DEF Inputs
      <4> QED BY <2>18, <4>1 DEF CtlEvent
    <3>1. /\ Len(rest) = Len(task[t].events) - 1 /\ Len(task[t].events) \in Nat \ {0}
          /\ \A i \in 1 .. Len(rest) : rest[i] = task[t].events[i + 1]
      <4>1. task[t].events \in Seq(Events)
        BY <1>0 DEF Task
      <4>2. task[t].events # << >>
        BY <3>0
      <4> QED BY <4>1, <4>2, HeadAndTail
    <3>2. Head(task[t].events) \notin Inputs => Asks(t)
      <4>1. Head(task[t].events) = task[t].events[1]
        BY <1>0, <3>0, HeadAndTail
      <4> QED BY <3>1, <4>1 DEF Asks
    <3> HIDE DEF rest
    <3>3. task'[t].events = rest => (Asks(t)' => Asks(t))
      <4>1. ASSUME task'[t].events = rest, NEW i \in 1 .. Len(rest), rest[i] \notin Inputs PROVE Asks(t)
        <5>1. i + 1 \in 1 .. Len(task[t].events) /\ task[t].events[i + 1] \notin Inputs
          BY <3>1, <4>1
        <5> QED BY <5>1 DEF Asks
      <4> QED BY <4>1 DEF Asks
    <3>4. ASSUME NEW ctl, task' = [task EXCEPT ![t].events = rest, ![t].ctl = ctl] PROVE Tamer(t)
      <4>1. /\ task'[t].events = rest /\ task'[t].grace = task[t].grace
            /\ task'[t].closed = task[t].closed /\ task'[t].run = task[t].run
        BY <1>0, <3>4 DEF Task
      <4> QED BY <3>3, <4>1 DEF Tamer
    <3>5. ASSUME NEW ctl, task' = [task EXCEPT ![t].events = rest, ![t].ctl = ctl, ![t].grace = TRUE],
                 Head(task[t].events) \notin Inputs
          PROVE  Tamer(t)
      <4>1. /\ task'[t].events = rest
            /\ task'[t].closed = task[t].closed /\ task'[t].run = task[t].run
        BY <1>0, <3>5 DEF Task
      <4> QED BY <3>2, <3>3, <3>5, <4>1 DEF Tamer
    <3>6. ASSUME NEW ctl, task' = [task EXCEPT ![t].events = rest, ![t].ctl = ctl, ![t].ctx = TRUE]
          PROVE  Tamer(t)
      <4>1. /\ task'[t].events = rest /\ task'[t].grace = task[t].grace
            /\ task'[t].closed = task[t].closed /\ task'[t].run = task[t].run
        BY <1>0, <3>6 DEF Task
      <4> QED BY <3>3, <4>1 DEF Tamer
    <3> QED BY <1>4, <3>0, <3>4, <3>5, <3>6
  <2> QED BY <2>1, <2>2, <2>3, <2>4, <2>5, <2>6, <2>7, <2>8, <2>9, <2>10, <2>11, <2>12, <2>13, <2>14, <2>15, <2>16, <2>17, <2>18 DEF TaskStep, Run, Ctl, Copy, RunReplied,
             ProcReads, ProcWrites, ProcExits, KillProc
<1> QED BY <1>2, <1>4

LEMMA TaskStepSpoke ==
    ASSUME TypeOK, NEW t \in Starts, TaskStep(t), NEW s \in Starts, CtlSpoke(s)'
    PROVE  CtlSpoke(s)
<1>0. task \in [Starts -> Task] /\ task[t] \in Task /\ SendTypes /\ "ctl" \in Agents
  BY TypeParts DEF TaskTypes, Agents
<1>1. CASE s # t
  BY <1>1, TaskStepOther DEF CtlSpoke
<1>2. ASSUME s = t, task'[t].ctl = task[t].ctl, send'[t]["ctl"] = send[t]["ctl"] PROVE CtlSpoke(s)
  BY <1>2 DEF CtlSpoke
<1>3. ASSUME s = t, NEW a \in Agents \ {"ctl"}, NEW frame, Say(t, a, frame), task'[t].ctl = task[t].ctl
      PROVE  CtlSpoke(s)
  BY <1>0, <1>2, <1>3, SayFields
<1>4. ASSUME s = t, NEW ctl \in CtlStates \ {"error"}, NEW k \in Task, task' = [task EXCEPT ![t] = k],
             k.ctl = ctl
      PROVE  CtlSpoke(s)
  BY <1>0, <1>4 DEF CtlSpoke
<1>5. CASE s = t /\ Run(t)
  <2>1. CASE Finish(t) /\ UNCHANGED send
    BY <1>0, <1>2, <1>5, <2>1, FinishFields
  <2>2. CASE RunSnapshot(t)
    <3>1. UNCHANGED send /\ (Finish(t) \/ task' = [task EXCEPT ![t].run = "start"])
      BY <2>2 DEF RunSnapshot
    <3> QED BY <1>0, <1>2, <1>5, <2>1, <3>1 DEF Task
  <2>3. CASE RunStart(t)
    <3>1. task'[t].ctl = "poll"
      BY <1>0, <2>3 DEF RunStart, Task
    <3> QED BY <1>5, <3>1 DEF CtlSpoke
  <2>4. CASE RunStartFails(t)
    <3>1. task'[t].ctl = task[t].ctl /\ Say(t, "run", "error")
      BY <1>0, <2>4 DEF RunStartFails, Task
    <3> QED BY <1>3, <1>5, <3>1 DEF Agents
  <2>5. CASE RunWaited(t)
    BY <1>0, <1>2, <1>5, <2>5 DEF RunWaited, Task
  <2>6. CASE RunCopied(t)
    <3>1. \/ Finish(t) /\ UNCHANGED send
          \/ task' = [task EXCEPT ![t].run = "reply"] /\ \E frame : Say(t, "run", frame)
      BY <2>6 DEF RunCopied
    <3>2. ASSUME task' = [task EXCEPT ![t].run = "reply"], NEW frame, Say(t, "run", frame)
          PROVE  CtlSpoke(s)
      <4>1. task'[t].ctl = task[t].ctl
        BY <1>0, <3>2 DEF Task
      <4> QED BY <1>3, <1>5, <3>2, <4>1 DEF Agents
    <3> QED BY <2>1, <3>1, <3>2
  <2>7. CASE RunReplied(t)
    BY <2>1, <2>7 DEF RunReplied
  <2> QED BY <1>5, <2>2, <2>3, <2>4, <2>5, <2>6, <2>7 DEF Run
<1>6. CASE s = t /\ Ctl(t)
  <2>1. task'[t].ctl # "error" => CtlSpoke(s)
    BY <1>6 DEF CtlSpoke
  <2>2. CASE CtlEvent(t)
    <3> DEFINE rest == Tail(task[t].events)
    <3>1. \E ctl \in CtlStates \ {"error"} :
             \/ task' = [task EXCEPT ![t].events = rest, ![t].ctl = ctl]
             \/ task' = [task EXCEPT ![t].events = rest, ![t].ctl = ctl, ![t].grace = TRUE]
             \/ task' = [task EXCEPT ![t].events = rest, ![t].ctl = ctl, ![t].ctx = TRUE]
      BY <2>2 DEF CtlEvent, CtlStates
    <3> HIDE DEF rest
    <3>2. ASSUME NEW ctl \in CtlStates \ {"error"},
                 \/ task' = [task EXCEPT ![t].events = rest, ![t].ctl = ctl]
                 \/ task' = [task EXCEPT ![t].events = rest, ![t].ctl = ctl, ![t].grace = TRUE]
                 \/ task' = [task EXCEPT ![t].events = rest, ![t].ctl = ctl, ![t].ctx = TRUE]
          PROVE  task'[t].ctl # "error"
      BY <1>0, <3>2 DEF Task
    <3> QED BY <2>1, <3>1, <3>2
  <2>3. CASE CtlNoEvent(t) \/ CtlDone(t) \/ CtlClosed(t) \/ CtlWrites(t) \/ CtlFailed(t)
    <3>1. \E ctl \in CtlStates \ {"error"} : \/ task' = [task EXCEPT ![t].ctl = ctl]
                                            \/ task' = [task EXCEPT ![t].ctl = ctl, ![t].ctx = TRUE]
      BY <2>3 DEF CtlNoEvent, CtlDone, CtlClosed, CtlWrites, CtlFailed, Stop, CtlStates
    <3>2. task'[t].ctl # "error"
      BY <1>0, <3>1 DEF Task
    <3> QED BY <2>1, <3>2
  <2>4. CASE CtlWriteFails(t)
    <3>1. Say(t, "ctl", "error")
      BY <2>4 DEF CtlWriteFails
    <3>2. send'[t]["ctl"] = [stage |-> "check", frame |-> "error"]
      BY <1>0, <3>1, SayFields
    <3> QED BY <1>6, <3>2 DEF CtlSpoke
  <2> QED BY <1>6, <2>2, <2>3, <2>4 DEF Ctl
<1>7. CASE s = t /\ Copy(t)
  <2>1. CASE CopyReads(t)
    <3>1. task'[t].ctl = task[t].ctl /\ Say(t, "copy", "output")
      BY <1>0, <2>1 DEF CopyReads, Task
    <3> QED BY <1>3, <1>7, <3>1 DEF Agents
  <2>2. CASE CopySent(t)
    BY <1>0, <1>2, <1>7, <2>2 DEF CopySent, Task
  <2>3. CASE CopyEnds(t)
    BY <1>0, <1>2, <1>7, <2>3 DEF CopyEnds, Task
  <2> QED BY <1>7, <2>1, <2>2, <2>3 DEF Copy
<1>8. CASE s = t /\ (ProcReads(t) \/ ProcWrites(t) \/ ProcExits(t) \/ KillProc(t))
  BY <1>2, <1>8 DEF ProcReads, ProcWrites, ProcExits, KillProc
<1>9. CASE s = t /\ Reap(t)
  BY <1>0, <1>2, <1>9 DEF Reap, Task
<1> QED BY <1>1, <1>5, <1>6, <1>7, <1>8, <1>9 DEF TaskStep

\* The error frame of controlLoop is enqueued, or its session is over, or the
\* connection is gone.
LEMMA SendSpoke ==
    ASSUME TypeOK, \A c \in Conns : SessionInv(c), NEW s \in Starts, TaskOK(s), Goes(s),
           SendCheck(s, "ctl") \/ SendEnqueue(s, "ctl"), CtlSpoke(s)'
    PROVE  Reason(s)'
<1> DEFINE c == ConnOf(s)
<1>0. /\ SendTypes /\ LogTypes /\ "ctl" \in Agents /\ c \in Conns /\ NoTask # s
      /\ ConnOf(s)' = c
  BY TypeParts, RemoteAssumption DEF TaskTypes, Task, ConnOf, Agents, Goes
<1>1. CASE SendCheck(s, "ctl")
  <2>1. CASE session[c] = NoTask
    <3>1. session'[c] # s
      BY <1>0, <1>1, <2>1 DEF SendCheck
    <3> HIDE DEF c
    <3> QED BY <1>0, <3>1 DEF Reason
  <2>2. CASE session[c] # NoTask
    <3>1. Stage(s, "ctl", "enqueue")
      BY <1>1, <2>2 DEF SendCheck
    <3>2. send'[s]["ctl"].stage = "enqueue"
      BY <1>0, <3>1, StageFields
    <3> QED BY <3>2 DEF CtlSpoke
  <2> QED BY <2>1, <2>2
<1>2. CASE SendEnqueue(s, "ctl")
  <2>1. CASE ~Found(c)
    <3>1. UNCHANGED conn /\ SessionInv(c)
      BY <1>0, <1>2 DEF SendEnqueue
    <3>2. conn'[c].owner # s \/ ~conn'[c].routed
      BY <1>0, <2>1, <3>1 DEF Found, SessionInv
    <3> HIDE DEF c
    <3> QED BY <1>0, <3>2 DEF Reason
  <2>2. CASE Found(c)
    <3>1. send[s]["ctl"].frame = "error"
      <4>1. /\ send[s]["ctl"].stage = "enqueue"
            /\ send[s]["ctl"].frame \in {"none", "output", "error", "exit"}
        BY <1>0, <1>2 DEF SendEnqueue, SendTypes, Call
      <4> QED BY <1>0, <4>1 DEF TaskOK, SendInv
    <3>2. log' = [log EXCEPT ![c] = Append(@, "error")]
      BY <1>2, <2>2, <3>1 DEF SendEnqueue
    <3>3. log'[c] = Append(log[c], "error") /\ log[c] \in Seq(LogFrame)
      BY <1>0, <3>2 DEF LogTypes
    <3>4. Len(log[c]) + 1 \in 1 .. Len(log'[c]) /\ log'[c][Len(log[c]) + 1] = "error"
      BY <3>3
    <3>5. Contains(log'[c], "error")
      BY <3>4 DEF Contains
    <3> HIDE DEF c
    <3> QED BY <1>0, <3>5 DEF Reason
  <2> QED BY <2>1, <2>2
<1> QED BY <1>1, <1>2

LEMMA NextSpoke ==
    ASSUME TypeOK, JobsInv, \A c \in Conns : SessionInv(c), \A t \in Starts : TaskOK(t) /\ Goes(t),
           [Next]_vars, NEW s \in Starts, CtlSpoke(s)'
    PROVE  CtlSpoke(s) \/ Reason(s)'
<1>0. /\ task \in [Starts -> Task] /\ SendTypes /\ "ctl" \in Agents /\ SessionTypes
      /\ \A t \in Starts : ConnOf(t) \in Conns
  BY TypeParts DEF TaskTypes, Task, ConnOf, Agents
<1>1. ASSUME task'[s] = task[s] \/ Reached(s), send'[s]["ctl"] = send[s]["ctl"] PROVE CtlSpoke(s)
  BY <1>1 DEF CtlSpoke, Reached
<1>2. ASSUME NEW t \in Starts, NEW run \in RunStates, task' = [task EXCEPT ![t].run = run],
             send'[s]["ctl"] = send[s]["ctl"]
      PROVE  CtlSpoke(s)
  <2>1. task'[s].ctl = task[s].ctl
    BY <1>0, <1>2 DEF Task
  <2> QED BY <1>2, <2>1 DEF CtlSpoke
<1>3. ASSUME NEW t \in Starts, StartStep(t) PROVE CtlSpoke(s)
  BY <1>2, <1>3 DEF StartStep, AcceptStart, RefuseStart, IgnoreStart, RunStates
<1>4. ASSUME NEW t \in Starts, NEW a \in Agents, NEW stage, Stage(t, a, stage),
             t = s /\ a = "ctl" => send[s]["ctl"].stage \notin {"check", "enqueue"},
             task'[s].ctl = task[s].ctl
      PROVE  CtlSpoke(s)
  <2>1. CASE t = s /\ a = "ctl"
    BY <1>4, <2>1 DEF CtlSpoke
  <2>2. CASE t # s \/ a # "ctl"
    <3>1. send'[s]["ctl"] = send[s]["ctl"]
      BY <1>0, <1>4, <2>2, StageFields
    <3> QED BY <1>4, <3>1 DEF CtlSpoke
  <2> QED BY <2>1, <2>2
<1>5. ASSUME NEW t \in Starts, StartOvertaken(t) PROVE CtlSpoke(s)
  <2>1. OvertakenForgets(t) /\ task' = [task EXCEPT ![t].run = "done"]
    BY <1>5, OvertakenParts
  <2>2. CASE UNCHANGED send
    BY <1>2, <2>1, <2>2 DEF RunStates
  <2>3. ASSUME NEW r \in Starts, NEW a \in Agents, SendForgets(r, a) PROVE CtlSpoke(s)
    <3>1. task'[s].ctl = task[s].ctl
      BY <1>0, <2>1 DEF Task
    <3> QED BY <1>4, <2>3, <3>1 DEF SendForgets
  <2> QED BY <2>1, <2>2, <2>3 DEF OvertakenForgets
<1>6. ASSUME NEW t \in Starts, NEW a \in Agents, Send(t, a) PROVE CtlSpoke(s) \/ Reason(s)'
  <2>1. CASE t = s /\ a = "ctl" /\ (SendCheck(t, a) \/ SendEnqueue(t, a))
    BY <2>1, SendSpoke
  <2>2. CASE ~(t = s /\ a = "ctl") /\ (SendCheck(t, a) \/ SendEnqueue(t, a))
    <3>1. \E stage : Stage(t, a, stage)
      BY <2>2 DEF SendCheck, SendEnqueue
    <3>2. UNCHANGED task \/ task' = [task EXCEPT ![t].failed = TRUE]
      BY <2>2 DEF SendCheck, SendEnqueue
    <3>3. ASSUME task' = [task EXCEPT ![t].failed = TRUE] PROVE task'[s].ctl = task[s].ctl
      BY <1>0, <3>3 DEF Task
    <3> QED BY <1>4, <2>2, <3>1, <3>2, <3>3
  <2>3. CASE SendMark(t, a) \/ SendForget(t, a) \/ SendDrained(t, a)
    <3>1. (\E stage : Stage(t, a, stage)) /\ send[t][a].stage \notin {"check", "enqueue"}
      BY <2>3 DEF SendMark, SendForget, SendForgets, SendDrained
    <3>2. task'[s].ctl = task[s].ctl
      <4>1. UNCHANGED task \/ closeRemoteLocked(ConnOf(t), "drained")
        BY <2>3 DEF SendMark, SendForget, SendDrained
      <4>2. task'[s] = task[s] \/ Reached(s)
        BY <1>0, <4>1, CloseReaches
      <4> QED BY <4>2 DEF Reached
    <3> QED BY <1>4, <3>1, <3>2
  <2> QED BY <1>6, <2>1, <2>2, <2>3 DEF Send
<1>7. CASE Holder
  <2>1. UNCHANGED send
    BY <1>7 DEF Holder, HandleInput, HandleMalformed, HandleEnding, HandleGap, GapError, GapMark
  <2> QED BY <1>1, <1>7, <2>1, HolderReaches
<1>8. ASSUME NEW cb \in callbacks, OutboundForgets(cb) \/ CallDrained(cb) \/ CallDropped(cb)
      PROVE  CtlSpoke(s)
  <2>1. ConnOf(cb.task) \in Conns
    BY <1>0 DEF SessionTypes, Callbacks
  <2>2. UNCHANGED send /\ (UNCHANGED task \/ closeRemoteLocked(ConnOf(cb.task), "drained"))
    BY <1>8 DEF OutboundForgets, CallDrained, CallDropped
  <2>3. task'[s] = task[s] \/ Reached(s)
    BY <1>0, <2>1, <2>2, CloseReaches
  <2> QED BY <1>1, <2>2, <2>3
<1>9. ASSUME UNCHANGED <<task, send>> PROVE CtlSpoke(s)
  BY <1>1, <1>9
<1> QED BY <1>3, <1>5, <1>6, <1>7, <1>8, <1>9, TaskStepSpoke, NextCases
        DEF vars, ReceiveRemote, PeerFallsSilent, OutboundRemoves, Tick

\* The session of s is closed: that is a reason.
LEMMA CloseTamer ==
    ASSUME TypeOK, NEW c \in Conns, SessionInv(c), NEW why, closeRemoteLocked(c, why),
           NEW s \in Starts
    PROVE  Tamer(s) \/ Reason(s)'
<1>0. task \in [Starts -> Task] /\ task[s] \in Task /\ SessionTypes /\ NoTask # s
  BY TypeParts, RemoteAssumption DEF TaskTypes
<1>1. CASE session[c] # s
  <2>1. task'[s] = task[s]
    BY <1>0, <1>1 DEF closeRemoteLocked
  <2> QED BY <2>1 DEF Tamer, Asks
<1>2. CASE session[c] = s
  <2>1. /\ session' = [session EXCEPT ![c] = NoTask]
        /\ task' = [task EXCEPT ![s].closed = TRUE]
        /\ ConnOf(s) = c
    BY <1>0, <1>2 DEF closeRemoteLocked, SessionInv
  <2>2. ConnOf(s)' = c
    BY <1>0, <2>1 DEF Task, ConnOf
  <2>3. session'[c] # s
    BY <1>0, <2>1 DEF SessionTypes
  <2> QED BY <2>2, <2>3 DEF Reason
<1> QED BY <1>1, <1>2

LEMMA HolderTamer ==
    ASSUME TypeOK, \A t \in Starts : Goes(t), Holder, NEW s \in Starts
    PROVE  Tamer(s) \/ Reason(s)'
<1> DEFINE t == todo[1].task
<1>0. /\ task \in [Starts -> Task] /\ task[s] \in Task /\ SessionTypes /\ InputTypes /\ NoTask # s
      /\ \A r \in Starts : ConnOf(r) \in Conns /\ ConnOf(r)' = ConnOf(r)
  BY TypeParts, RemoteAssumption DEF TaskTypes, Task, Goes, ConnOf
<1>t. t \in Starts
  <2>1. ~Free
    BY DEF Holder, HandleInput, HandleMalformed, HandleEnding, HandleGap, GapError, GapMark
  <2> QED BY <1>0, <2>1, TailTypes DEF Job
<1>1. ASSUME task'[s] = task[s] PROVE Tamer(s)
  BY <1>1 DEF Tamer, Asks
<1>2. CASE HandleInput
  <2>1. todo[1].what \in Inputs /\ Deliver(t, todo[1].what)
    BY <1>2 DEF HandleInput
  <2> DEFINE what == todo[1].what
  <2>2. CASE UNCHANGED task
    BY <1>1, <2>2
  <2>3. CASE task' = [task EXCEPT ![t].events = Append(@, what)]
    <3> HIDE DEF t, what
    <3>1. CASE s # t
      BY <1>0, <1>1, <2>3, <3>1
    <3>2. CASE s = t
      <4>1. /\ task'[s].events = Append(task[s].events, what) /\ task'[s].grace = task[s].grace
            /\ task'[s].closed = task[s].closed /\ task'[s].run = task[s].run
        BY <1>0, <2>3, <3>2 DEF Task
      <4>2. what \in Inputs
        BY <2>1 DEF what
      <4>3. task[s].events \in Seq(Events)
        BY <1>0 DEF Task
      <4>4. ASSUME NEW i \in 1 .. Len(task'[s].events), task'[s].events[i] \notin Inputs PROVE Asks(s)
        <5>1. Append(task[s].events, what)[i] \notin Inputs /\ i \in 1 .. Len(task[s].events) + 1
          BY <4>1, <4>3, <4>4
        <5>2. i # Len(task[s].events) + 1
          BY <4>2, <4>3, <5>1
        <5>3. i \in 1 .. Len(task[s].events) /\ task[s].events[i] \notin Inputs
          BY <4>3, <5>1, <5>2
        <5> QED BY <5>3 DEF Asks
      <4> QED BY <4>1, <4>4 DEF Tamer, Asks
    <3> QED BY <3>1, <3>2
  <2> QED BY <2>1, <2>2, <2>3 DEF Deliver
<1>3. CASE HandleMalformed \/ GapError \/ GapMark
  BY <1>1, <1>3 DEF HandleMalformed, GapError, GapMark
<1>4. CASE HandleEnding
  <2>1. /\ session' = [session EXCEPT ![ConnOf(t)] = NoTask]
        /\ \/ UNCHANGED task
           \/ \E events : task' = [task EXCEPT ![t].events = events, ![t].closed = TRUE]
    BY <1>4 DEF HandleEnding
  <2> HIDE DEF t
  <2>2. CASE s # t
    BY <1>0, <1>1, <2>1, <2>2
  <2>3. CASE s = t
    <3>1. session'[ConnOf(s)] # s
      BY <1>0, <2>1, <2>3 DEF SessionTypes
    <3> QED BY <1>0, <3>1 DEF Reason
  <2> QED BY <2>2, <2>3
<1>5. CASE HandleGap
  <2>1. /\ Deliver(t, "gap") /\ todo' = Jobs(t, <<"gap_error">>) \o WithoutTask(t)
    BY <1>5 DEF HandleGap
  <2>2. CASE s # t
    <3> HIDE DEF t
    <3> QED BY <1>0, <1>1, <2>1, <2>2 DEF Deliver
  <2>3. CASE s = t
    <3>1. Jobs(t, <<"gap_error">>) = <<[task |-> s, what |-> "gap_error"]>>
      BY <1>t, <2>3, OneJob DEF GapSteps
    <3>2. WithoutTask(t) \in Seq(Job)
      BY <1>0, <1>t, WithoutTaskTypes
    <3> DEFINE first == [task |-> s, what |-> "gap_error"]
    <3>3. todo' = <<first>> \o WithoutTask(t) /\ first \in Job
      BY <2>1, <3>1 DEF Job, GapSteps
    <3> HIDE DEF first
    <3>4. todo' # << >> /\ todo'[1] = first
      BY <3>2, <3>3
    <3> QED BY <3>4 DEF Reason, first
  <2> QED BY <2>2, <2>3
<1> QED BY <1>2, <1>3, <1>4, <1>5 DEF Holder

LEMMA NextReasonInv ==
    ASSUME TypeOK, JobsInv, \A c \in Conns : SessionInv(c), \A t \in Starts : TaskOK(t) /\ Goes(t),
           [Next]_vars, NEW s \in Starts, ReasonInv(s)
    PROVE  ReasonInv(s)'
<1>0. /\ task \in [Starts -> Task] /\ task[s] \in Task
      /\ \A t \in Starts : ConnOf(t) \in Conns
  BY TypeParts DEF TaskTypes, Task, ConnOf
<1>1. ASSUME Tamer(s) \/ Reason(s)' PROVE ReasonInv(s)'
  <2>1. CASE Tamer(s)
    BY <2>1, ReasonStays, NextSpoke, TamerReason
  <2>2. CASE Reason(s)'
    BY <2>2 DEF ReasonInv
  <2> QED BY <1>1, <2>1, <2>2
<1>2. ASSUME task'[s].events = task[s].events, task'[s].grace = task[s].grace,
             task'[s].closed = task[s].closed, task'[s].run # "done" => task[s].run # "done"
      PROVE  Tamer(s)
  BY <1>2 DEF Tamer, Asks
<1>3. ASSUME NEW t \in Starts, StartStep(t) PROVE Tamer(s)
  <2>1. task[t].run = "new" /\ \E run \in {"snapshot", "done"} : task' = [task EXCEPT ![t].run = run]
    BY <1>3 DEF StartStep, AcceptStart, RefuseStart, IgnoreStart
  <2> QED BY <1>0, <1>2, <2>1 DEF Task
<1>4. ASSUME NEW t \in Starts, NEW a \in Agents, Send(t, a) PROVE Tamer(s) \/ Reason(s)'
  <2>1. CASE SendDrained(t, a)
    BY <1>0, <2>1, CloseTamer DEF SendDrained
  <2>2. CASE UNCHANGED task
    BY <1>2, <2>2
  <2>3. CASE task' = [task EXCEPT ![t].failed = TRUE]
    BY <1>0, <1>2, <2>3 DEF Task
  <2> QED BY <1>4, <2>1, <2>2, <2>3 DEF Send, SendCheck, SendEnqueue, SendMark, SendForget
<1>5. ASSUME NEW cb \in callbacks, OutboundForgets(cb) \/ CallDrained(cb) \/ CallDropped(cb)
      PROVE  Tamer(s) \/ Reason(s)'
  <2>1. cb.task \in Starts
    BY TypeParts DEF SessionTypes, Callbacks
  <2> QED BY <1>0, <1>2, <1>5, <2>1, CloseTamer DEF OutboundForgets, CallDrained, CallDropped
<1>6. ASSUME UNCHANGED task PROVE Tamer(s)
  BY <1>2, <1>6
<1>7. ASSUME NEW t \in Starts, StartOvertaken(t) PROVE Tamer(s)
  <2>1. task[t].run = "new" /\ task' = [task EXCEPT ![t].run = "done"]
    BY <1>7, OvertakenParts
  <2> QED BY <1>0, <1>2, <2>1 DEF Task
<1> QED BY <1>1, <1>3, <1>4, <1>5, <1>6, <1>7, TaskStepTamer, HolderTamer, NextCases
        DEF vars, ReceiveRemote, PeerFallsSilent, OutboundRemoves, Tick

\* A command is killed for a reason only.
LEMMA NextKill ==
    ASSUME TypeOK, \A t \in Starts : TaskOK(t) /\ ReasonInv(t), [Next]_vars,
           NEW t \in Starts, proc'[t].killed, ~proc[t].killed
    PROVE  Reason(t)
<1>0. /\ proc \in [Starts -> Process] /\ proc[t] \in Process
      /\ task[t].events \in Seq(Events) /\ TaskOK(t) /\ ReasonInv(t)
  BY TypeParts DEF ProcTypes, TaskTypes, Task
<1>1. ASSUME NEW s \in Starts, TaskStep(s) PROVE TaskStep(t)
  <2>1. CASE s # t
    BY <1>1, <2>1, TaskStepOther
  <2> QED BY <1>1, <2>1
<1>2. UNCHANGED proc => FALSE
  OBVIOUS
<1>3. ASSUME NEW s \in Starts, NEW a \in Agents, Send(s, a) PROVE UNCHANGED proc
  BY <1>3 DEF Send, SendCheck, SendEnqueue, SendMark, SendForget, SendDrained
<1>4. ASSUME NEW s \in Starts, StartStep(s) PROVE UNCHANGED proc
  BY <1>4 DEF StartStep, AcceptStart, RefuseStart, IgnoreStart
<1>5. Holder => UNCHANGED proc
  BY DEF Holder, HandleInput, HandleMalformed, HandleEnding, HandleGap, GapError, GapMark
<1>6. ASSUME NEW cb \in callbacks, OutboundForgets(cb) \/ CallDrained(cb) \/ CallDropped(cb)
      PROVE  UNCHANGED proc
  BY <1>6 DEF OutboundForgets, CallDrained, CallDropped
<1>7. TaskStep(t)
  <2>1. ASSUME NEW c \in Conns, \/ \E msg \in Messages : ReceiveRemote(c, msg)
                                \/ PeerFallsSilent(c)
        PROVE  UNCHANGED proc
    BY <2>1 DEF ReceiveRemote, PeerFallsSilent
  <2>2. Tick => UNCHANGED proc
    BY DEF Tick
  <2>3. UNCHANGED vars => UNCHANGED proc
    BY DEF vars
  <2>4. \E s \in Starts : TaskStep(s)
    <3>1. proc' # proc
      BY <1>2
    <3>2. Next
      BY <2>3, <3>1
    <3>3. \A s \in Starts : ~StartStep(s) /\ ~StartOvertaken(s) /\ \A a \in Agents : ~Send(s, a)
      BY <1>3, <1>4, <3>1, OvertakenParts
    <3>4. /\ ~Tick /\ ~Holder
          /\ \A cb \in callbacks : ~OutboundForgets(cb) /\ ~CallDrained(cb) /\ ~CallDropped(cb)
      BY <1>5, <1>6, <2>2, <3>1
    <3>5. \A c \in Conns : /\ ~PeerFallsSilent(c)
                            /\ \A msg \in Messages : ~ReceiveRemote(c, msg)
      BY <2>1, <3>1
    <3>6. \/ \E s \in Starts : StartStep(s) \/ TaskStep(s) \/ \E a \in Agents : Send(s, a)
          \/ \E c \in Conns, msg \in Messages : ReceiveRemote(c, msg)
          \/ \E c \in Conns : PeerFallsSilent(c)
          \/ \E c \in Conns, why \in {"drained", "dropped"} : OutboundRemoves(c, why)
          \/ Tick \/ Holder
          \/ \E s \in Starts : StartOvertaken(s)
          \/ \E cb \in callbacks : OutboundForgets(cb) \/ CallDrained(cb) \/ CallDropped(cb)
      BY <3>2, NextCases
    <3>7. ~ \E c \in Conns, msg \in Messages : ReceiveRemote(c, msg)
      BY <3>5
    <3>8. ~ \E c \in Conns : PeerFallsSilent(c)
      BY <3>5
    <3>9. ASSUME NEW c \in Conns, NEW why \in {"drained", "dropped"}, OutboundRemoves(c, why)
          PROVE  FALSE
      BY <3>1, <3>9 DEF OutboundRemoves
    <3>10. ~ \E cb \in callbacks : OutboundForgets(cb) \/ CallDrained(cb) \/ CallDropped(cb)
      BY <3>4
    <3> QED BY <3>3, <3>4, <3>6, <3>7, <3>8, <3>9, <3>10
  <2> QED BY <1>1, <2>4
<1>8. ASSUME proc' = [proc EXCEPT ![t] = Killed(@)]
      PROVE  proc[t].state = "running" /\ task[t].run = "wait" /\ ~task[t].ctx
  <2>1. proc[t].state = "running"
    BY <1>0, <1>8 DEF Killed
  <2> QED BY <1>0, <2>1 DEF TaskOK, TaskInv
<1>9. CASE CtlEvent(t)
  <2>0. task[t].events # << >>
    BY <1>9 DEF CtlEvent
  <2>1. \/ UNCHANGED proc
        \/ proc' = [proc EXCEPT ![t].sigint = TRUE]
        \/ /\ Head(task[t].events) \notin Inputs
           /\ proc' = [proc EXCEPT ![t] = Killed(@)]
    BY <1>9 DEF CtlEvent
  <2>2. proc' # [proc EXCEPT ![t].sigint = TRUE]
    BY <1>0 DEF Process
  <2>3. Asks(t)
    BY <1>0, <1>2, <2>0, <2>1, <2>2, HeadAndTail DEF Asks
  <2> QED BY <1>0, <2>3 DEF Asks, ReasonInv
<1>10. CASE CtlClosed(t)
  <2>1. (task[t].ctx \/ task[t].closed) /\ proc' = [proc EXCEPT ![t] = Killed(@)]
    BY <1>10 DEF CtlClosed, Stop
  <2> QED BY <1>0, <1>8, <2>1 DEF ReasonInv
<1>11. CASE CtlFailed(t)
  BY <1>0, <1>11 DEF CtlFailed, Said, ReasonInv
<1>12. CASE KillProc(t)
  BY <1>0, <1>8, <1>12 DEF KillProc, ReasonInv
<1>13. CASE RunStart(t)
  BY <1>0, <1>13 DEF RunStart, PtyProcess, PipeProcess, NewProc
<1>14. CASE CtlWrites(t)
  BY <1>0, <1>14 DEF CtlWrites, Process
<1>15. CASE CopyReads(t) \/ ProcReads(t) \/ ProcWrites(t) \/ ProcExits(t) \/ Reap(t)
  <2>2. CASE CopyReads(t)
    BY <1>0, <2>2 DEF CopyReads, Process
  <2>3. CASE ProcReads(t)
    BY <1>0, <2>3 DEF ProcReads, Process
  <2>4. CASE ProcWrites(t)
    BY <1>0, <2>4 DEF ProcWrites, Process
  <2>5. CASE ProcExits(t)
    BY <1>0, <2>5 DEF ProcExits, Process
  <2>6. CASE Reap(t)
    BY <1>0, <2>6 DEF Reap, Process
  <2> QED BY <1>15, <2>2, <2>3, <2>4, <2>5, <2>6
<1> QED BY <1>2, <1>7, <1>9, <1>10, <1>11, <1>12, <1>13, <1>14, <1>15
        DEF TaskStep, Run, Ctl, Copy, RunSnapshot, RunStartFails, RunWaited, RunCopied, RunReplied,
            CtlNoEvent, CtlDone, CtlWriteFails, CopySent, CopyEnds

-----------------------------------------------------------------------------
(***************************************************************************)
(* What was enqueued for the client.                                       *)
(***************************************************************************)
LEMMA OutputsAppend ==
    ASSUME NEW q \in Seq(LogFrame), NEW frame
    PROVE  /\ Outputs(q) \in Nat
           /\ frame = "output" => Outputs(Append(q, frame)) = Outputs(q) + 1
           /\ frame # "output" => Outputs(Append(q, frame)) = Outputs(q)
<1> DEFINE S == {i \in 1 .. Len(q) : q[i] = "output"}
           T == {i \in 1 .. Len(Append(q, frame)) : Append(q, frame)[i] = "output"}
<1>1. Len(q) \in Nat /\ IsFiniteSet(1 .. Len(q))
  BY FS_Interval
<1>2. IsFiniteSet(S)
  BY <1>1, FS_Subset
<1>3. Cardinality(S) \in Nat /\ Cardinality(S \union {Len(q) + 1}) = Cardinality(S) + 1
  <2>1. Len(q) + 1 \notin S
    BY <1>1
  <2> QED BY <1>2, <2>1, FS_CardinalityType, FS_AddElement
<1>4. Outputs(q) = Cardinality(S) /\ Outputs(Append(q, frame)) = Cardinality(T)
  BY DEF Outputs
<1>5. CASE frame = "output"
  <2>1. T = S \union {Len(q) + 1}
    BY <1>1, <1>5
  <2> QED BY <1>3, <1>4, <1>5, <2>1
<1>6. CASE frame # "output"
  <2>1. T = S
    BY <1>1, <1>6
  <2> QED BY <1>3, <1>4, <1>6, <2>1
<1> QED BY <1>5, <1>6

LEMMA ContainsAppend ==
    ASSUME NEW q \in Seq(LogFrame), NEW frame, NEW what
    PROVE  Contains(Append(q, frame), what) <=> Contains(q, what) \/ frame = what
<1>1. ASSUME Contains(q, what) PROVE Contains(Append(q, frame), what)
  <2>1. PICK i \in 1 .. Len(q) : q[i] = what
    BY <1>1 DEF Contains
  <2>2. i \in 1 .. Len(Append(q, frame)) /\ Append(q, frame)[i] = what
    BY <2>1
  <2> QED BY <2>2 DEF Contains
<1>2. ASSUME frame = what PROVE Contains(Append(q, frame), what)
  <2>1. Len(q) + 1 \in 1 .. Len(Append(q, frame)) /\ Append(q, frame)[Len(q) + 1] = what
    BY <1>2
  <2> QED BY <2>1 DEF Contains
<1>3. ASSUME Contains(Append(q, frame), what), frame # what PROVE Contains(q, what)
  <2>1. PICK i \in 1 .. Len(Append(q, frame)) : Append(q, frame)[i] = what
    BY <1>3 DEF Contains
  <2>2. i \in 1 .. Len(q) /\ q[i] = what
    BY <1>3, <2>1
  <2> QED BY <2>2 DEF Contains
<1> QED BY <1>1, <1>2, <1>3

LEMMA StaysStartedOnce ==
    ASSUME \A t \in Starts : Goes(t), NEW c
    PROVE  StartedOnce(c)' <=> StartedOnce(c)
  BY DEF Goes, ConnOf, StartedOnce

\* A step that neither sends output of t nor takes any from its process.
Quiet(t) ==
    LET c == ConnOf(t)
    IN  /\ task'[t].run = "new" => task[t].run = "new"
        /\ \/ log'[c] = log[c]
           \/ task'[t].run # "new" /\ \E frame \in {"start_ack", "error"} : log'[c] = Append(log[c], frame)
        /\ conn'[c].state # "none" => /\ conn[c].state # "none" /\ conn'[c].owner = conn[c].owner
                                      /\ Held(t)' = Held(t)
        /\ task[t].copy = "done" /\ ~task[t].failed => task'[t].copy = "done" /\ ~task'[t].failed
        /\ proc'[t].pty = proc[t].pty /\ proc'[t].written = proc[t].written
        /\ proc'[t].state = "none" <=> proc[t].state = "none"
        /\ proc[t].pty \/ proc[t].state = "none" => proc'[t].unread = proc[t].unread

LEMMA QuietLog ==
    ASSUME TypeOK, \A s \in Starts : Goes(s), NEW t \in Starts, LogInv(t), Quiet(t)
    PROVE  LogInv(t)'
<1> DEFINE c == ConnOf(t)
<1>0. c \in Conns /\ c' = c /\ log[c] \in Seq(LogFrame) /\ (StartedOnce(c)' <=> StartedOnce(c))
  <2>1. c \in Conns
    BY TypeParts DEF TaskTypes, Task, ConnOf
  <2>2. c' = c
    BY DEF ConnOf, Goes
  <2> QED BY <2>1, <2>2, TypeParts, StaysStartedOnce DEF LogTypes
<1>1. /\ Outputs(log'[c]) = Outputs(log[c])
      /\ Contains(log'[c], "exit") <=> Contains(log[c], "exit")
  <2>1. CASE log'[c] = log[c]
    BY <2>1
  <2>2. ASSUME NEW frame \in {"start_ack", "error"}, log'[c] = Append(log[c], frame)
        PROVE  /\ Outputs(log'[c]) = Outputs(log[c])
               /\ Contains(log'[c], "exit") <=> Contains(log[c], "exit")
    BY <1>0, <2>2, OutputsAppend, ContainsAppend
  <2> QED BY <2>1, <2>2 DEF Quiet
<1>2. SUFFICES ASSUME StartedOnce(c) PROVE LogInv(t)'
  BY <1>0 DEF LogInv
<1>3. task'[t].run = "new" => conn'[c].state = "none" /\ log'[c] = << >>
  BY <1>2 DEF LogInv, Quiet
<1>4. conn'[c].state # "none" => \/ conn'[c].owner = t
                                 \/ task'[t].run = "done" /\ proc'[t].state = "none"
  BY <1>2 DEF LogInv, Quiet, Goes
<1>5. Contains(log'[c], "exit") => /\ task'[t].copy = "done" /\ ~task'[t].failed
                                   /\ proc'[t].pty => Outputs(log'[c]) = proc'[t].written
  BY <1>1, <1>2 DEF LogInv, Quiet
<1>6. conn'[c].state # "none" /\ (proc'[t].pty \/ proc'[t].state = "none") =>
          Outputs(log'[c]) + Held(t)' + proc'[t].unread = proc'[t].written
  BY <1>1, <1>2 DEF LogInv, Quiet
<1> HIDE DEF c
<1>7. ConnOf(t)' = c
  BY <1>0 DEF c
<1> QED BY <1>3, <1>4, <1>5, <1>6, <1>7 DEF LogInv

LEMMA TaskStepCopy ==
    ASSUME TypeOK, NEW t \in Starts, TaskStep(t), ~RunStart(t), ~Copy(t)
    PROVE  task'[t].copy = task[t].copy /\ task'[t].failed = task[t].failed
<1>0. task \in [Starts -> Task] /\ task[t] \in Task
  BY TypeParts DEF TaskTypes
<1>1. CASE UNCHANGED task
  BY <1>1
<1>2. CASE Finish(t)
  BY <1>0, <1>2, FinishFields
<1>3. CASE RunSnapshot(t)
  <2>1. Finish(t) \/ task' = [task EXCEPT ![t].run = "start"]
    BY <1>3 DEF RunSnapshot
  <2> QED BY <1>0, <1>2, <2>1 DEF Task
<1>4. CASE RunStartFails(t)
  BY <1>0, <1>4 DEF RunStartFails, Task
<1>5. CASE RunWaited(t)
  BY <1>0, <1>5 DEF RunWaited, Task
<1>6. CASE RunCopied(t)
  <2>1. Finish(t) \/ task' = [task EXCEPT ![t].run = "reply"]
    BY <1>6 DEF RunCopied
  <2> QED BY <1>0, <1>2, <2>1 DEF Task
<1>7. CASE CtlNoEvent(t)
  BY <1>0, <1>7 DEF CtlNoEvent, Task
<1>8. CASE CtlDone(t)
  BY <1>0, <1>8 DEF CtlDone, Task
<1>9. CASE CtlClosed(t)
  BY <1>0, <1>9 DEF CtlClosed, Stop, Task
<1>10. CASE CtlWrites(t)
  BY <1>0, <1>10 DEF CtlWrites, Task
<1>11. CASE CtlWriteFails(t)
  BY <1>0, <1>11 DEF CtlWriteFails, Task
<1>12. CASE CtlFailed(t)
  BY <1>0, <1>12 DEF CtlFailed, Stop, Task
<1>13. CASE Reap(t)
  BY <1>0, <1>13 DEF Reap, Task
<1>14. CASE CtlEvent(t)
  <2> DEFINE rest == Tail(task[t].events)
  <2>1. \/ \E ctl : task' = [task EXCEPT ![t].events = rest, ![t].ctl = ctl]
        \/ \E ctl : task' = [task EXCEPT ![t].events = rest, ![t].ctl = ctl, ![t].grace = TRUE]
        \/ \E ctl : task' = [task EXCEPT ![t].events = rest, ![t].ctl = ctl, ![t].ctx = TRUE]
    BY <1>14 DEF CtlEvent
  <2> HIDE DEF rest
  <2>2. ASSUME NEW ctl, task' = [task EXCEPT ![t].events = rest, ![t].ctl = ctl]
        PROVE  task'[t].copy = task[t].copy /\ task'[t].failed = task[t].failed
    BY <1>0, <2>2 DEF Task
  <2>3. ASSUME NEW ctl, task' = [task EXCEPT ![t].events = rest, ![t].ctl = ctl, ![t].grace = TRUE]
        PROVE  task'[t].copy = task[t].copy /\ task'[t].failed = task[t].failed
    BY <1>0, <2>3 DEF Task
  <2>4. ASSUME NEW ctl, task' = [task EXCEPT ![t].events = rest, ![t].ctl = ctl, ![t].ctx = TRUE]
        PROVE  task'[t].copy = task[t].copy /\ task'[t].failed = task[t].failed
    BY <1>0, <2>4 DEF Task
  <2> QED BY <2>1, <2>2, <2>3, <2>4
<1> QED BY <1>1, <1>2, <1>3, <1>4, <1>5, <1>6, <1>7, <1>8, <1>9, <1>10, <1>11, <1>12, <1>13, <1>14
        DEF TaskStep, Run, Ctl, RunReplied, ProcReads, ProcWrites, ProcExits, KillProc

\* What is left of the process of t as it was.
SameOutput(t) ==
    /\ proc'[t].pty = proc[t].pty /\ proc'[t].written = proc[t].written
    /\ proc'[t].state = "none" <=> proc[t].state = "none"
    /\ proc[t].pty \/ proc[t].state = "none" => proc'[t].unread = proc[t].unread

LEMMA TaskStepOutput ==
    ASSUME TypeOK, NEW t \in Starts, TaskStep(t), ~RunStart(t), ~CopyReads(t), ~ProcWrites(t)
    PROVE  SameOutput(t)
<1>0. proc \in [Starts -> Process] /\ proc[t] \in Process
  BY TypeParts DEF ProcTypes
<1>1. CASE UNCHANGED proc
  BY <1>1 DEF SameOutput
<1>2. ASSUME NEW p \in Process, proc' = [proc EXCEPT ![t] = p], p.pty = proc[t].pty,
             p.written = proc[t].written, p.state = "none" <=> proc[t].state = "none",
             proc[t].pty \/ proc[t].state = "none" => p.unread = proc[t].unread
      PROVE  SameOutput(t)
  BY <1>0, <1>2 DEF SameOutput
<1>3. ASSUME proc' = [proc EXCEPT ![t] = Killed(@)] PROVE SameOutput(t)
  <2>1. CASE proc[t].state # "running"
    BY <1>0, <1>1, <1>3, <2>1 DEF Killed
  <2>2. CASE proc[t].state = "running"
    <3>1. proc' = [proc EXCEPT ![t] = [proc[t] EXCEPT !.state = "exited", !.killed = TRUE]]
      BY <1>3, <2>2 DEF Killed
    <3> QED BY <1>0, <2>2, <3>1 DEF Process, SameOutput
  <2> QED BY <2>1, <2>2
<1>4. CASE CtlEvent(t)
  <2>1. \/ UNCHANGED proc
        \/ proc' = [proc EXCEPT ![t].sigint = TRUE]
        \/ proc' = [proc EXCEPT ![t] = Killed(@)]
    BY <1>4 DEF CtlEvent
  <2>2. CASE proc' = [proc EXCEPT ![t].sigint = TRUE]
    BY <1>0, <2>2 DEF Process, SameOutput
  <2> QED BY <1>1, <1>3, <2>1, <2>2
<1>5. CASE CtlClosed(t) \/ CtlFailed(t) \/ KillProc(t)
  BY <1>3, <1>5 DEF CtlClosed, CtlFailed, Stop, KillProc
<1>6. CASE CtlWrites(t)
  <2>1. UNCHANGED proc \/ proc' = [proc EXCEPT ![t].stdin = @ + 1]
    BY <1>6 DEF CtlWrites
  <2>2. CASE proc' = [proc EXCEPT ![t].stdin = @ + 1]
    BY <1>0, <2>2 DEF Process, SameOutput
  <2> QED BY <1>1, <2>1, <2>2
<1>7. CASE ProcReads(t)
  BY <1>0, <1>7 DEF ProcReads, Process, SameOutput
<1>8. CASE ProcExits(t)
  BY <1>0, <1>8 DEF ProcExits, Process, SameOutput
<1>9. CASE Reap(t)
  BY <1>0, <1>9 DEF Reap, Process, SameOutput
<1> QED BY <1>1, <1>4, <1>5, <1>6, <1>7, <1>8, <1>9
        DEF TaskStep, Run, Ctl, Copy, RunSnapshot, RunStartFails, RunWaited, RunCopied, RunReplied,
            CtlNoEvent, CtlDone, CtlWriteFails, CopySent, CopyEnds

LEMMA TaskStepHeld ==
    ASSUME TypeOK, NEW t \in Starts, TaskStep(t), ~CopyReads(t)
    PROVE  send'[t]["copy"] = send[t]["copy"]
<1>0. SendTypes
  BY TypeParts
<1>1. CASE UNCHANGED send
  BY <1>1
<1>2. ASSUME NEW a \in Agents \ {"copy"}, NEW frame, Say(t, a, frame)
      PROVE  send'[t]["copy"] = send[t]["copy"]
  BY <1>0, <1>2, SayFields DEF Agents
<1>3. CASE RunStartFails(t) \/ CtlWriteFails(t)
  BY <1>2, <1>3 DEF RunStartFails, CtlWriteFails, Agents
<1>4. CASE RunCopied(t)
  <2>1. UNCHANGED send \/ \E frame : Say(t, "run", frame)
    BY <1>4 DEF RunCopied
  <2> QED BY <1>1, <1>2, <2>1 DEF Agents
<1> QED BY <1>1, <1>3, <1>4 DEF TaskStep, Run, Ctl, Copy, RunSnapshot, RunStart, RunWaited,
           RunReplied, CtlEvent, CtlNoEvent, CtlDone, CtlClosed, CtlWrites, CtlFailed,
           CopySent, CopyEnds, ProcReads, ProcWrites, ProcExits, KillProc, Reap

LEMMA TaskStepLog ==
    ASSUME TypeOK, \A s \in Starts : Goes(s), NEW t \in Starts, TaskStep(t), TaskOK(t),
           LogInv(t)
    PROVE  LogInv(t)'
<1> DEFINE c == ConnOf(t)
<1>0. /\ task \in [Starts -> Task] /\ task[t] \in Task
      /\ proc \in [Starts -> Process] /\ proc[t] \in Process
      /\ c \in Conns /\ c' = c /\ UNCHANGED log /\ UNCHANGED conn
      /\ Outputs(log[c]) \in Nat /\ SendTypes
  <2>1. TaskTypes /\ ProcTypes /\ LogTypes /\ SendTypes
    BY TypeParts
  <2>2. c \in Conns /\ c' = c
    BY <2>1 DEF TaskTypes, Task, ConnOf, Goes
  <2>3. log[c] \in Seq(LogFrame)
    BY <2>1, <2>2 DEF LogTypes
  <2>4. Outputs(log[c]) \in Nat
    BY <2>3, OutputsAppend
  <2> QED BY <2>1, <2>2, <2>4, TaskStepLeaves DEF outsideVars, TaskTypes, ProcTypes
<1>1. CASE ~RunStart(t) /\ ~CopyReads(t) /\ ~ProcWrites(t)
  <2>1. SameOutput(t) /\ send'[t]["copy"] = send[t]["copy"]
    BY <1>1, TaskStepOutput, TaskStepHeld
  <2>2. task[t].copy = "done" /\ ~task[t].failed => task'[t].copy = "done" /\ ~task'[t].failed
    BY <1>1, TaskStepCopy DEF Copy, CopySent, CopyEnds
  <2>3. task'[t].run = "new" => task[t].run = "new"
    BY DEF Goes
  <2>4. Quiet(t)
    BY <1>0, <2>1, <2>2, <2>3 DEF Quiet, SameOutput, Held
  <2> QED BY <2>4, QuietLog
<1>2. StartedOnce(c)' <=> StartedOnce(c)
  BY <1>0, StaysStartedOnce
<1> HIDE DEF c
<1>3. ConnOf(t) = c /\ ConnOf(t)' = c
  BY <1>0 DEF c
<1>4. SUFFICES ASSUME StartedOnce(c), RunStart(t) \/ CopyReads(t) \/ ProcWrites(t) PROVE LogInv(t)'
  BY <1>0, <1>1, <1>2, <1>3 DEF LogInv
<1>5. CASE RunStart(t)
  <2>1. PICK p \in {PtyProcess, PipeProcess} : proc' = [proc EXCEPT ![t] = p]
    BY <1>5 DEF RunStart
  <2>2. p.state = "running" /\ p.unread = 0 /\ p.written = 0
    BY <2>1 DEF PtyProcess, PipeProcess, NewProc
  <2>3. /\ task[t].run = "start" /\ task'[t].run = "wait" /\ proc'[t] = p
        /\ send' = send
    BY <1>0, <1>5, <2>1 DEF RunStart, Task
  <2>4. proc[t].state = "none" /\ proc[t].unread = 0 /\ proc[t].written = 0 /\ task[t].copy = "none"
    BY <2>3 DEF TaskOK, TaskInv
  <2>5. ~Contains(log[c], "exit")
    BY <1>3, <1>4, <2>4 DEF LogInv
  <2>6. conn[c].state # "none" => conn[c].owner = t /\ Outputs(log[c]) + Held(t) + 0 = 0
    BY <1>3, <1>4, <2>3, <2>4 DEF LogInv
  <2>7. Held(t)' = Held(t)
    BY <2>3 DEF Held
  <2> QED BY <1>0, <1>2, <1>3, <1>4, <2>2, <2>3, <2>5, <2>6, <2>7 DEF LogInv
<1>6. CASE CopyReads(t)
  <2>1. /\ task[t].copy = "read" /\ task'[t].run = task[t].run
        /\ proc'[t].unread = proc[t].unread - 1 /\ proc'[t].written = proc[t].written
        /\ proc'[t].pty = proc[t].pty /\ proc'[t].state = proc[t].state
        /\ Say(t, "copy", "output")
    BY <1>0, <1>6 DEF CopyReads, Task, Process
  <2>2. send[t]["copy"].stage = "idle" /\ proc[t].state # "none"
    BY <2>1 DEF TaskOK, TaskInv, SendInv
  <2>3. send'[t]["copy"].stage = "check"
    <3>1. send'[t]["copy"] = [stage |-> "check", frame |-> "output"]
      BY <1>0, <2>1, SayFields DEF Agents
    <3> QED BY <3>1
  <2>4. Held(t) = 0 /\ Held(t)' = 1
    BY <2>2, <2>3 DEF Held
  <2>5. ~Contains(log[c], "exit")
    BY <1>3, <1>4, <2>1 DEF LogInv
  <2>6. proc[t].unread \in Int /\ proc[t].written \in Int
    BY <1>0 DEF Process
  <2>7. task[t].run # "new"
    BY <2>2 DEF TaskOK, TaskInv
  <2>8. conn[c].state # "none" /\ proc[t].pty =>
           Outputs(log[c]) + 0 + proc[t].unread = proc[t].written
    BY <1>3, <1>4, <2>4 DEF LogInv
  <2>9. conn[c].state # "none" /\ proc[t].pty =>
           Outputs(log[c]) + 1 + (proc[t].unread - 1) = proc[t].written
    BY <1>0, <2>6, <2>8
  <2>10. conn[c].state # "none" => conn[c].owner = t
    BY <1>3, <1>4, <2>2 DEF LogInv
  <2> QED BY <1>0, <1>2, <1>3, <1>4, <2>1, <2>2, <2>4, <2>5, <2>7, <2>9, <2>10 DEF LogInv
<1>7. CASE ProcWrites(t)
  <2>1. /\ proc[t].state = "running" /\ task' = task /\ send' = send
        /\ proc'[t].unread = proc[t].unread + 1 /\ proc'[t].written = proc[t].written + 1
        /\ proc'[t].pty = proc[t].pty /\ proc'[t].state = proc[t].state
    BY <1>0, <1>7 DEF ProcWrites, Process
  <2>2. task[t].run = "wait"
    BY <2>1 DEF TaskOK, TaskInv
  <2>3. ~Contains(log[c], "exit")
    BY <1>3, <1>4, <2>1 DEF LogInv, TaskOK, TaskInv
  <2>4. proc[t].unread \in Int /\ proc[t].written \in Int /\ Held(t) \in Int
    BY <1>0 DEF Process, Held
  <2>5. Held(t)' = Held(t)
    BY <2>1 DEF Held
  <2>6. conn[c].state # "none" /\ proc[t].pty =>
           Outputs(log[c]) + Held(t) + (proc[t].unread + 1) = proc[t].written + 1
    <3>1. conn[c].state # "none" /\ proc[t].pty =>
             Outputs(log[c]) + Held(t) + proc[t].unread = proc[t].written
      BY <1>3, <1>4 DEF LogInv
    <3> QED BY <1>0, <2>4, <3>1
  <2>7. conn[c].state # "none" => conn[c].owner = t
    BY <1>3, <1>4, <2>1 DEF LogInv
  <2> QED BY <1>0, <1>2, <1>3, <1>4, <2>1, <2>2, <2>3, <2>5, <2>6, <2>7 DEF LogInv
<1> QED BY <1>4, <1>5, <1>6, <1>7

LEMMA StartLog ==
    ASSUME TypeOK, \A r \in Starts : Goes(r), NEW s \in Starts, StartStep(s),
           NEW t \in Starts, TaskOK(t), LogInv(t)
    PROVE  LogInv(t)'
<1>0. /\ task \in [Starts -> Task] /\ task[t] \in Task /\ SessionTypes /\ LogTypes
      /\ ConnOf(t) \in Conns /\ ConnOf(s) \in Conns /\ ConnOf(t)' = ConnOf(t)
  BY TypeParts DEF TaskTypes, Task, ConnOf, Goes
<1>1. /\ UNCHANGED proc /\ UNCHANGED send /\ task[s].run = "new"
      /\ \E run \in {"snapshot", "done"} : task' = [task EXCEPT ![s].run = run]
  BY DEF StartStep, AcceptStart, RefuseStart, IgnoreStart
<1>2. task'[t].copy = task[t].copy /\ task'[t].failed = task[t].failed
  BY <1>0, <1>1 DEF Task
<1>3. ASSUME log'[ConnOf(t)] = log[ConnOf(t)], conn'[ConnOf(t)] = conn[ConnOf(t)] PROVE LogInv(t)'
  <2>1. Quiet(t)
    BY <1>1, <1>2, <1>3 DEF Quiet, Goes, Held
  <2> QED BY <2>1, QuietLog
<1>4. CASE IgnoreStart(s)
  BY <1>3, <1>4 DEF IgnoreStart
<1>5. CASE ConnOf(s) # ConnOf(t)
  <2>1. log'[ConnOf(t)] = log[ConnOf(t)] /\ conn'[ConnOf(t)] = conn[ConnOf(t)]
    BY <1>0, <1>5 DEF StartStep, AcceptStart, RefuseStart, IgnoreStart, SessionTypes, LogTypes
  <2> QED BY <1>3, <2>1
<1>6. CASE ConnOf(s) = ConnOf(t) /\ (AcceptStart(s) \/ RefuseStart(s))
  <2>1. SUFFICES ASSUME StartedOnce(ConnOf(t)) PROVE LogInv(t)'
    <3>1. StartedOnce(ConnOf(t))' <=> StartedOnce(ConnOf(t))
      BY <1>0, StaysStartedOnce
    <3> QED BY <3>1 DEF LogInv
  <2>2. s = t
    BY <1>6, <2>1 DEF StartedOnce
  <2> DEFINE c == ConnOf(t)
  <2>3. /\ log[c] = << >>
        /\ proc[t].state = "none" /\ proc[t].unread = 0 /\ proc[t].written = 0 /\ ~proc[t].pty
        /\ Held(t) = 0
    BY <1>1, <2>1, <2>2 DEF LogInv, TaskOK, TaskInv, SendInv, Held
  <2>4. /\ \E frame \in {"start_ack", "error"} : log' = [log EXCEPT ![c] = Append(@, frame)]
        /\ \/ conn'[c].owner = t /\ task'[t].run = "snapshot"
           \/ task'[t].run = "done"
    BY <1>0, <1>6, <2>2 DEF AcceptStart, RefuseStart, SessionTypes, Task, Registered
  <2> HIDE DEF c
  <2>5. ConnOf(t) = c /\ ConnOf(t)' = c /\ c \in Conns
    BY <1>0 DEF c
  <2>6. log[c] \in Seq(LogFrame) /\ \E frame \in {"start_ack", "error"} : log'[c] = Append(log[c], frame)
    BY <1>0, <2>4, <2>5 DEF LogTypes
  <2>7. Outputs(log'[c]) = 0 /\ ~Contains(log'[c], "exit")
    <3>1. Outputs(<< >>) = 0
      <4>1. {i \in 1 .. Len(<< >>) : << >>[i] = "output"} = {}
        OBVIOUS
      <4> QED BY <4>1, FS_EmptySet DEF Outputs
    <3>2. ~Contains(<< >>, "exit")
      BY DEF Contains
    <3>3. PICK frame \in {"start_ack", "error"} : log'[c] = Append(log[c], frame)
      BY <2>6
    <3>4. Outputs(log[c]) = 0 /\ ~Contains(log[c], "exit")
      BY <2>3, <2>5, <3>1, <3>2 DEF c
    <3>5. Outputs(Append(log[c], frame)) = Outputs(log[c])
      BY <2>6, OutputsAppend
    <3>6. ~Contains(Append(log[c], frame), "exit")
      BY <2>6, <3>4, ContainsAppend
    <3> QED BY <3>3, <3>4, <3>5, <3>6
  <2>8. Held(t)' = Held(t) /\ proc'[t] = proc[t]
    BY <1>1 DEF Held
  <2>9. Outputs(log'[c]) + Held(t)' + proc'[t].unread = proc'[t].written
    BY <2>3, <2>7, <2>8
  <2>10. /\ task'[t].run # "new"
         /\ \/ conn'[c].owner = t
            \/ task'[t].run = "done" /\ proc'[t].state = "none"
    BY <2>3, <2>4, <2>8
  <2> QED BY <2>5, <2>7, <2>9, <2>10 DEF LogInv
<1> QED BY <1>4, <1>5, <1>6 DEF StartStep

\* A frame of t is enqueued.
LEMMA EnqueueLog ==
    ASSUME TypeOK, \A r \in Starts : Goes(r), NEW t \in Starts, NEW a \in Agents,
           SendEnqueue(t, a), TaskOK(t), RouteInv(ConnOf(t)), LogInv(t)
    PROVE  LogInv(t)'
<1> DEFINE c == ConnOf(t)
           frame == send[t][a].frame
<1>0. /\ task \in [Starts -> Task] /\ task[t] \in Task /\ SendTypes /\ proc[t] \in Process
      /\ c \in Conns /\ c' = c /\ (StartedOnce(c)' <=> StartedOnce(c)) /\ "copy" \in Agents
  <2>1. c \in Conns /\ c' = c
    BY TypeParts DEF TaskTypes, Task, ConnOf, Goes
  <2> QED BY <2>1, StaysStartedOnce, TypeParts DEF TaskTypes, ProcTypes, Agents
<1>s. SUFFICES ASSUME StartedOnce(c) PROVE LogInv(t)'
  BY <1>0 DEF LogInv
<1>f. Found(c) <=> conn[c].state # "none"
  BY <1>s DEF Found, RouteInv
<1>1. /\ send[t][a].stage = "enqueue" /\ UNCHANGED conn /\ UNCHANGED proc
      /\ \/ /\ conn[c].state = "none" /\ UNCHANGED log /\ Stage(t, a, "idle")
            /\ UNCHANGED task \/ (a = "copy" /\ task' = [task EXCEPT ![t].failed = TRUE])
         \/ /\ conn[c].state # "none" /\ UNCHANGED task
            /\ log' = [log EXCEPT ![c] = Append(@, frame)]
            /\ Stage(t, a, IF frame = "output" THEN "idle" ELSE "mark")
  BY <1>f DEF SendEnqueue
<1>2. log[c] \in Seq(LogFrame) /\ Outputs(log[c]) \in Nat
  <2>1. log[c] \in Seq(LogFrame)
    BY <1>0, TypeParts DEF LogTypes
  <2> QED BY <2>1, OutputsAppend
<1>3. /\ a = "copy" => task[t].copy = "send" /\ frame = "output"
      /\ frame = "exit" => a = "run" /\ task[t].copy = "done" /\ ~task[t].failed
      /\ a # "copy" => frame \in {"exit", "error"}
  <2>1. frame \in {"none", "output", "error", "exit"}
    BY <1>0 DEF SendTypes, Call
  <2> QED BY <1>1, <2>1 DEF TaskOK, SendInv, Agents
<1> HIDE DEF frame
<1>4. CASE a # "copy"
  <2>1. Held(t)' = Held(t) /\ task' = task
    <3>1. send'[t]["copy"] = send[t]["copy"]
      BY <1>0, <1>1, <1>4, StageFields
    <3> QED BY <1>1, <1>4, <3>1 DEF Held
  <2>2. CASE conn[c].state = "none"
    <3>1. Quiet(t)
      BY <1>1, <2>1, <2>2 DEF Quiet
    <3> QED BY <3>1, QuietLog
  <2>3. CASE conn[c].state # "none" /\ frame = "error"
    <3>1. task[t].run # "new"
      BY <1>s, <2>3 DEF LogInv
    <3>2. log'[c] = Append(log[c], "error")
      BY <1>0, <1>1, <2>3, TypeParts DEF LogTypes
    <3>3. Quiet(t)
      BY <1>1, <2>1, <2>3, <3>1, <3>2 DEF Quiet
    <3> QED BY <3>3, QuietLog
  <2>4. CASE conn[c].state # "none" /\ frame = "exit"
    <3>1. log'[c] = Append(log[c], "exit")
      BY <1>0, <1>1, <2>4, TypeParts DEF LogTypes
    <3>2. Outputs(log'[c]) = Outputs(log[c])
      BY <1>2, <3>1, OutputsAppend
    <3>3. /\ task[t].copy = "done" /\ ~task[t].failed
          /\ proc[t].unread = 0 /\ proc[t].state # "none" /\ Held(t) = 0
      BY <1>3, <2>4 DEF TaskOK, TaskInv, SendInv, Held
    <3>4. proc[t].pty => Outputs(log[c]) + Held(t) + proc[t].unread = proc[t].written
      BY <2>4, <1>s DEF LogInv
    <3>5. proc[t].pty => Outputs(log'[c]) = proc[t].written
      BY <1>2, <3>2, <3>3, <3>4
    <3>6. task[t].run # "new"
      BY <2>4, <1>s DEF LogInv
    <3>7. conn[c].state # "none" => \/ conn[c].owner = t
                                    \/ task[t].run = "done" /\ proc[t].state = "none"
      BY <1>s DEF LogInv
    <3> HIDE DEF c
    <3>8. ConnOf(t)' = c
      BY <1>0 DEF c
    <3> QED BY <1>0, <1>1, <2>1, <3>2, <3>3, <3>4, <3>5, <3>6, <3>7, <3>8 DEF LogInv
  <2> QED BY <1>3, <1>4, <2>2, <2>3, <2>4
<1>5. CASE a = "copy"
  <2>2. task[t].copy = "send" /\ frame = "output" /\ ~Contains(log[c], "exit") /\ Held(t) = 1
    BY <1>1, <1>3, <1>5, <1>s DEF LogInv, Held
  <2>3. send'[t]["copy"] = Idle
    BY <1>0, <1>1, <1>5, <2>2, StageFields
  <2>4. Held(t)' = 0
    BY <2>3 DEF Held, Idle
  <2>5. task[t].run # "new" => task'[t].run # "new"
    BY DEF Goes
  <2>6. task'[t].run = task[t].run
    BY <1>0, <1>1 DEF Task
  <2>7. CASE conn[c].state = "none"
    <3>1. log' = log /\ conn' = conn
      BY <1>1, <2>7
    <3>2. task[t].run = "new" => log[c] = << >>
      BY <1>s DEF LogInv
    <3> HIDE DEF c
    <3>3. ConnOf(t)' = c
      BY <1>0 DEF c
    <3> QED BY <2>2, <2>6, <2>7, <3>1, <3>2, <3>3 DEF LogInv
  <2>8. CASE conn[c].state # "none"
    <3>1. log'[c] = Append(log[c], "output") /\ task' = task
      BY <1>0, <1>1, <2>2, <2>8, TypeParts DEF LogTypes
    <3>2. Outputs(log'[c]) = Outputs(log[c]) + 1 /\ ~Contains(log'[c], "exit")
      BY <1>2, <2>2, <3>1, OutputsAppend, ContainsAppend
    <3>3. task[t].run # "new" /\ proc[t].state # "none"
      BY <1>s, <2>2, <2>8 DEF LogInv, TaskOK, TaskInv
    <3>4. conn[c].owner = t
      BY <1>s, <2>8, <3>3 DEF LogInv
    <3>5. proc[t].pty => Outputs(log[c]) + 1 + proc[t].unread = proc[t].written
      BY <1>s, <2>2, <2>8 DEF LogInv
    <3>6. proc[t].pty => Outputs(log'[c]) + Held(t)' + proc[t].unread = proc[t].written
      <4>1. proc[t].unread \in Nat /\ proc[t].written \in Nat
        BY <1>0 DEF Process
      <4> QED BY <1>2, <2>4, <3>2, <3>5, <4>1
    <3> HIDE DEF c
    <3>7. ConnOf(t)' = c
      BY <1>0 DEF c
    <3> QED BY <1>1, <3>1, <3>2, <3>3, <3>4, <3>6, <3>7 DEF LogInv
  <2> QED BY <2>7, <2>8
<1> QED BY <1>4, <1>5

LEMMA SendLog ==
    ASSUME TypeOK, \A r \in Starts : Goes(r), NEW s \in Starts, NEW a \in Agents, Send(s, a),
           NEW t \in Starts, TaskOK(t), LogInv(t), RouteInv(ConnOf(t)), \A c \in Conns : SessionInv(c)
    PROVE  LogInv(t)'
<1> DEFINE c == ConnOf(t)
<1>0. /\ task \in [Starts -> Task] /\ task[t] \in Task /\ task[s] \in Task
      /\ SessionTypes /\ LogTypes /\ SendTypes
      /\ c \in Conns /\ ConnOf(s) \in Conns /\ c' = c /\ (StartedOnce(c)' <=> StartedOnce(c))
      /\ "copy" \in Agents
  <2>1. c \in Conns /\ c' = c
    BY TypeParts DEF TaskTypes, Task, ConnOf, Goes
  <2> QED BY <2>1, StaysStartedOnce, TypeParts DEF TaskTypes, Task, ConnOf, Agents
<1>1. UNCHANGED proc
  BY DEF Send, SendCheck, SendEnqueue, SendMark, SendForget, SendDrained
<1>2. SUFFICES ASSUME StartedOnce(c) PROVE LogInv(t)'
  BY <1>0 DEF LogInv
<1>3. CASE SendEnqueue(s, a) /\ s = t
  BY <1>3, EnqueueLog
<1>4. CASE SendEnqueue(s, a) /\ s # t
  <2>1. ConnOf(s) # c
    BY <1>2, <1>4 DEF StartedOnce
  <2>2. log'[c] = log[c] /\ UNCHANGED conn /\ task'[t] = task[t]
    BY <1>0, <1>4, <2>1 DEF SendEnqueue, LogTypes
  <2>3. send'[t] = send[t]
    <3>1. \E stage : Stage(s, a, stage)
      BY <1>4 DEF SendEnqueue
    <3> QED BY <1>0, <1>4, <3>1, StageFields
  <2>4. Held(t)' = Held(t)
    BY <2>3 DEF Held
  <2>5. Quiet(t)
    BY <1>1, <2>2, <2>4 DEF Quiet
  <2> QED BY <2>5, QuietLog
<1>5. CASE SendCheck(s, a) \/ SendMark(s, a) \/ SendForget(s, a) \/ SendDrained(s, a)
  <2>1. UNCHANGED log
    BY <1>5 DEF SendCheck, SendMark, SendForget, SendDrained
  <2>2. task'[t].run = task[t].run /\ task'[t].copy = task[t].copy /\ task'[t].failed = task[t].failed
    <3>1. UNCHANGED task \/ closeRemoteLocked(ConnOf(s), "drained")
      BY <1>5 DEF SendCheck, SendMark, SendForget, SendDrained
    <3>2. task'[t] = task[t] \/ Reached(t)
      BY <1>0, <3>1, CloseReaches
    <3> QED BY <3>2 DEF Reached
  <2>3. conn'[c].state # "none" => conn[c].state # "none" /\ conn'[c].owner = conn[c].owner
    <3>1. CASE UNCHANGED conn
      BY <3>1
    <3>2. CASE closeRemoteLocked(ConnOf(s), "drained")
      <4>1. UNCHANGED conn \/ conn' = DropConnection(ConnOf(s))
        BY <3>2 DEF closeRemoteLocked
      <4> HIDE DEF c
      <4> QED BY <1>0, <4>1, DropFields DEF NoConn
    <3>3. CASE SendMark(s, a)
      <4>1. \/ UNCHANGED conn
            \/ /\ conn[ConnOf(s)].state # "none"
               /\ \/ conn' = [conn EXCEPT ![ConnOf(s)].state = "closing"]
                  \/ conn' = [conn EXCEPT ![ConnOf(s)] = Removed(@)]
        BY <3>3 DEF SendMark, Found
      <4> HIDE DEF c
      <4>2. CASE conn' = [conn EXCEPT ![ConnOf(s)] = Removed(@)]
        BY <1>0, <4>2 DEF SessionTypes, Connection, Removed
      <4>3. CASE /\ conn[ConnOf(s)].state # "none"
                 /\ conn' = [conn EXCEPT ![ConnOf(s)].state = "closing"]
        BY <1>0, <4>3 DEF SessionTypes, Connection
      <4> QED BY <4>1, <4>2, <4>3
    <3>4. CASE SendForget(s, a)
      <4> HIDE DEF c
      <4> QED BY <1>0, <3>4, ForgottenFields DEF SendForget
    <3> QED BY <1>5, <3>1, <3>2, <3>3, <3>4 DEF SendCheck, SendDrained
  <2>4. conn'[c].state # "none" => Held(t)' = Held(t)
    <3>1. PICK stage : Stage(s, a, stage) /\ send[s][a].stage # "idle"
      BY <1>5 DEF SendCheck, SendMark, SendForget, SendForgets, SendDrained
    <3>2. CASE s # t \/ a # "copy"
      <4>1. send'[t]["copy"] = send[t]["copy"]
        BY <1>0, <3>1, <3>2, StageFields
      <4> QED BY <4>1 DEF Held
    <3>3. CASE s = t /\ a = "copy"
      <4>1. SendCheck(t, a) /\ task[t].copy = "send"
        BY <1>5, <3>1, <3>3 DEF SendMark, SendForget, SendForgets, SendDrained, TaskOK, SendInv
      <4>2. CASE session[c] = NoTask
        <5>1. conn[c].owner = NoTask
          BY <1>2, <4>2 DEF RouteInv
        <5>2. conn[c].state = "none"
          BY <1>2, <4>1, <5>1, RemoteAssumption DEF LogInv, TaskOK, TaskInv
        <5> QED BY <2>3, <5>2
      <4>3. CASE session[c] # NoTask
        <5>1. Stage(t, a, "enqueue")
          BY <4>1, <4>3 DEF SendCheck
        <5>2. send'[t]["copy"].stage = "enqueue"
          BY <1>0, <3>3, <5>1, StageFields
        <5>3. Held(t)' = 1 /\ Held(t) = 1
          BY <3>1, <3>3, <5>2 DEF Held
        <5> QED BY <5>3
      <4> QED BY <4>2, <4>3
    <3> QED BY <3>2, <3>3
  <2>5. Quiet(t)
    BY <1>1, <2>1, <2>2, <2>3, <2>4 DEF Quiet
  <2> QED BY <2>5, QuietLog
<1> QED BY <1>3, <1>4, <1>5 DEF Send

\* A step of somebody else, at most the connection goes or closes.
LEMMA OutsideLog ==
    ASSUME TypeOK, \A r \in Starts : Goes(r), NEW t \in Starts, LogInv(t),
           UNCHANGED <<send, proc>>, task'[t] = task[t] \/ Reached(t),
           LET c == ConnOf(t)
           IN  StartedOnce(c) =>
                 /\ conn'[c].state # "none" => conn[c].state # "none" /\ conn'[c].owner = conn[c].owner
                 /\ \/ log'[c] = log[c]
                    \/ task[t].run # "new" /\ log'[c] = Append(log[c], "error")
    PROVE  LogInv(t)'
<1> DEFINE c == ConnOf(t)
<1>1. c' = c /\ (StartedOnce(c)' <=> StartedOnce(c))
  <2>1. c' = c
    BY DEF ConnOf, Goes
  <2> QED BY <2>1, StaysStartedOnce
<1>2. SUFFICES ASSUME StartedOnce(c) PROVE LogInv(t)'
  BY <1>1 DEF LogInv
<1>3. task'[t].run = task[t].run /\ task'[t].copy = task[t].copy /\ task'[t].failed = task[t].failed
  BY DEF Reached
<1>4. Held(t)' = Held(t)
  BY DEF Held
<1>5. Quiet(t)
  BY <1>2, <1>3, <1>4 DEF Quiet
<1> QED BY <1>5, QuietLog

LEMMA HolderLog ==
    ASSUME TypeOK, JobsInv, \A r \in Starts : Goes(r), Holder, NEW t \in Starts, LogInv(t)
    PROVE  LogInv(t)'
<1> DEFINE c == ConnOf(t)
           s == todo[1].task
<1>0. /\ SessionTypes /\ LogTypes /\ InputTypes /\ c \in Conns
      /\ \A r \in Starts : ConnOf(r) \in Conns
  BY TypeParts DEF TaskTypes, Task, ConnOf
<1>1. s \in Starts /\ task[s].run # "new"
  <2>1. ~Free
    BY DEF Holder, HandleInput, HandleMalformed, HandleEnding, HandleGap, GapError, GapMark
  <2>2. todo[1] \in Job /\ 1 \in 1 .. Len(todo)
    BY <1>0, <2>1, TailTypes DEF InputTypes, Free
  <2> QED BY <2>2 DEF Job, JobsInv, TodoInv
<1>2. UNCHANGED <<send, proc>>
  BY DEF Holder, HandleInput, HandleMalformed, HandleEnding, HandleGap, GapError, GapMark
<1>3. task'[t] = task[t] \/ Reached(t)
  BY HolderReaches
<1>4. CASE HandleInput \/ HandleMalformed \/ HandleGap
  BY <1>2, <1>3, <1>4, OutsideLog DEF HandleInput, HandleMalformed, HandleGap
<1>5. CASE GapError
  <2>1. /\ UNCHANGED conn
        /\ UNCHANGED log \/ log' = [log EXCEPT ![ConnOf(s)] = Append(@, "error")]
    BY <1>5 DEF GapError
  <2> HIDE DEF s
  <2>2. StartedOnce(c) => log'[c] = log[c] \/ (task[t].run # "new" /\ log'[c] = Append(log[c], "error"))
    <3>1. CASE ConnOf(s) # c
      BY <1>0, <1>1, <2>1, <3>1 DEF LogTypes
    <3>2. CASE ConnOf(s) = c
      <4>1. StartedOnce(c) => s = t
        BY <1>1, <3>2 DEF StartedOnce
      <4> QED BY <1>0, <1>1, <2>1, <3>2, <4>1 DEF LogTypes
    <3> QED BY <3>1, <3>2
  <2> QED BY <1>2, <1>3, <2>1, <2>2, OutsideLog
<1>6. CASE HandleEnding \/ GapMark
  <2>1. /\ UNCHANGED log
        /\ \/ UNCHANGED conn
           \/ conn' = DropConnection(ConnOf(s))
           \/ conn' = [conn EXCEPT ![ConnOf(s)] = NoConn]
           \/ conn[ConnOf(s)].state # "none" /\ conn' = [conn EXCEPT ![ConnOf(s)].state = "closing"]
    BY <1>6 DEF HandleEnding, GapMark, Found
  <2>2. conn'[c].state # "none" => conn[c].state # "none" /\ conn'[c].owner = conn[c].owner
    <3>1. ConnOf(s) \in Conns
      BY <1>0, <1>1
    <3> HIDE DEF c, s
    <3>2. CASE conn' = DropConnection(ConnOf(s))
      BY <1>0, <3>1, <3>2, DropFields DEF NoConn
    <3> QED BY <1>0, <2>1, <3>1, <3>2 DEF SessionTypes, Connection, NoConn
  <2> QED BY <1>2, <1>3, <2>1, <2>2, OutsideLog
<1> QED BY <1>4, <1>5, <1>6 DEF Holder

LEMMA NextLogInv ==
    ASSUME TypeOK, JobsInv, \A c \in Conns : SessionInv(c) /\ RouteInv(c),
           \A r \in Starts : TaskOK(r) /\ Goes(r) /\ LogInv(r), [Next]_vars, NEW t \in Starts
    PROVE  LogInv(t)'
<1> DEFINE c == ConnOf(t)
<1>0. /\ SessionTypes /\ c \in Conns /\ \A r \in Starts : ConnOf(r) \in Conns
      /\ LogInv(t) /\ TaskOK(t)
  BY TypeParts DEF TaskTypes, Task, ConnOf
<1>1. ASSUME UNCHANGED <<task, send, proc, conn, log>> PROVE LogInv(t)'
  BY <1>0, <1>1, OutsideLog
<1>2. ASSUME NEW s \in Starts, TaskStep(s) PROVE LogInv(t)'
  <2>1. CASE s = t
    BY <1>0, <1>2, <2>1, TaskStepLog
  <2>2. CASE s # t
    <3>1. task'[t] = task[t] /\ send'[t] = send[t] /\ proc'[t] = proc[t] /\ UNCHANGED <<conn, log>>
      BY <1>2, <2>2, TaskStepOther, TaskStepLeaves DEF outsideVars
    <3>2. Quiet(t)
      BY <3>1 DEF Quiet, Held
    <3> QED BY <1>0, <3>2, QuietLog
  <2> QED BY <2>1, <2>2
<1>3. ASSUME NEW s \in Starts, StartStep(s) PROVE LogInv(t)'
  BY <1>0, <1>3, StartLog
<1>4. ASSUME NEW s \in Starts, NEW a \in Agents, Send(s, a) PROVE LogInv(t)'
  BY <1>0, <1>4, SendLog
<1>5. CASE Holder
  BY <1>0, <1>5, HolderLog
<1>6. ASSUME NEW d \in Conns, NEW why \in {"drained", "dropped"}, OutboundRemoves(d, why)
      PROVE  LogInv(t)'
  <2>1. /\ UNCHANGED <<task, send, proc, log>> /\ conn' = [conn EXCEPT ![d] = Removed(@)]
    BY <1>6 DEF OutboundRemoves
  <2>2. conn'[c].state # "none" => conn[c].state # "none" /\ conn'[c].owner = conn[c].owner
    <3> HIDE DEF c
    <3> QED BY <1>0, <2>1 DEF SessionTypes, Connection, Removed
  <2> QED BY <1>0, <2>1, <2>2, OutsideLog
<1>7. ASSUME NEW cb \in callbacks, OutboundForgets(cb) \/ CallDrained(cb) \/ CallDropped(cb)
      PROVE  LogInv(t)'
  <2>1. cb.task \in Starts /\ ConnOf(cb.task) \in Conns
    BY <1>0 DEF SessionTypes, Callbacks
  <2>2. CASE CallDropped(cb)
    BY <1>1, <2>2 DEF CallDropped
  <2>3. CASE CallDrained(cb)
    <3>1. closeRemoteLocked(ConnOf(cb.task), "drained") /\ UNCHANGED <<log, send, proc>>
      BY <2>3 DEF CallDrained
    <3>2. task'[t] = task[t] \/ Reached(t)
      BY <1>0, <2>1, <3>1, CloseReaches
    <3>3. conn'[c].state # "none" => conn[c].state # "none" /\ conn'[c].owner = conn[c].owner
      <4>1. UNCHANGED conn \/ conn' = DropConnection(ConnOf(cb.task))
        BY <3>1 DEF closeRemoteLocked
      <4> HIDE DEF c
      <4> QED BY <1>0, <2>1, <4>1, DropFields DEF NoConn
    <3> QED BY <1>0, <3>1, <3>2, <3>3, OutsideLog
  <2>4. CASE OutboundForgets(cb)
    <3>1. /\ UNCHANGED <<task, send, proc, log>> /\ conn' = Forgotten(ConnOf(cb.task))
      BY <2>4 DEF OutboundForgets
    <3>2. conn'[c].state = conn[c].state /\ conn'[c].owner = conn[c].owner
      BY <1>0, <2>1, <3>1, ForgottenFields
    <3> QED BY <1>0, <3>1, <3>2, OutsideLog
  <2> QED BY <1>7, <2>2, <2>3, <2>4
<1>8. ASSUME NEW d \in Conns, \/ \E msg \in Messages : ReceiveRemote(d, msg)
                              \/ PeerFallsSilent(d)
      PROVE  LogInv(t)'
  BY <1>1, <1>8 DEF ReceiveRemote, PeerFallsSilent
<1>9. CASE Tick
  BY <1>1, <1>9 DEF Tick
<1>10. CASE UNCHANGED vars
  BY <1>1, <1>10 DEF vars
<1>11. ASSUME NEW s \in Starts, StartOvertaken(s) PROVE LogInv(t)'
  <2>1. ~StartedOnce(ConnOf(s))
    BY <1>11, OvertakenAgain
  <2>2. CASE ConnOf(s) = c
    <3>1. c' = c /\ (StartedOnce(c)' <=> StartedOnce(c))
      <4>1. c' = c
        BY DEF ConnOf, Goes
      <4> QED BY <4>1, StaysStartedOnce
    <3>2. ~StartedOnce(c)'
      BY <2>1, <2>2, <3>1
    <3> QED BY <3>1, <3>2 DEF LogInv
  <2>3. CASE ConnOf(s) # c
    <3>0. /\ OvertakenForgets(s) /\ task' = [task EXCEPT ![s].run = "done"] /\ UNCHANGED proc
          /\ log' = log \/ log' = [log EXCEPT ![ConnOf(s)] = Append(@, "error")]
      BY <1>11, OvertakenParts
    <3>1. PICK owner \in {s, NoTask} :
             conn' = [conn EXCEPT ![ConnOf(s)] =
                         [routed |-> FALSE, state |-> "open", owner |-> owner, start |-> s]]
      BY <1>11, OvertakenParts
    <3>2. conn'[c] = conn[c] /\ log'[c] = log[c] /\ task'[t] = task[t]
      <4> HIDE DEF c
      <4>1. s # t
        BY <2>3 DEF c
      <4>2. LogTypes /\ TaskTypes /\ ConnOf(s) \in Conns
        BY <1>0, TypeParts
      <4> QED BY <1>0, <2>3, <3>0, <3>1, <4>1, <4>2 DEF SessionTypes, LogTypes, TaskTypes
    <3>3. send'[t] = send[t]
      <4>1. ASSUME NEW r \in Starts, NEW a \in Agents, ConnOf(r) = ConnOf(s), SendForgets(r, a)
            PROVE  send'[t] = send[t]
        <5>1. (\E stage : Stage(r, a, stage)) /\ r # t /\ SendTypes
          BY <2>3, <4>1, TypeParts DEF SendForgets
        <5> QED BY <5>1, StageFields
      <4> QED BY <3>0, <4>1 DEF OvertakenForgets
    <3>4. Quiet(t)
      BY <3>0, <3>2, <3>3 DEF Quiet, Held
    <3> QED BY <1>0, <3>4, QuietLog
  <2> QED BY <2>2, <2>3
<1> QED BY <1>2, <1>3, <1>4, <1>5, <1>6, <1>7, <1>8, <1>9, <1>10, <1>11, NextCases

\* Output is enqueued by copyOutput of a task of the connection only.
LEMMA OutputMoves ==
    ASSUME TypeOK, \A t \in Starts : TaskOK(t), [Next]_vars, NEW c \in Conns
    PROVE  \/ log'[c] = log[c]
           \/ \E frame \in LogFrame \ {"output"} : log'[c] = Append(log[c], frame)
           \/ \E s \in Starts : ConnOf(s) = c /\ task[s].copy = "send"
<1>0. SessionTypes /\ LogTypes /\ InputTypes /\ SendTypes /\ \A t \in Starts : ConnOf(t) \in Conns
  BY TypeParts DEF TaskTypes, Task, ConnOf
<1> DEFINE Goal == \/ log'[c] = log[c]
                   \/ \E frame \in LogFrame \ {"output"} : log'[c] = Append(log[c], frame)
                   \/ \E s \in Starts : ConnOf(s) = c /\ task[s].copy = "send"
<1>1. ASSUME UNCHANGED log PROVE Goal
  BY <1>1
<1>2. ASSUME NEW d \in Conns, NEW frame \in LogFrame \ {"output"},
             log' = [log EXCEPT ![d] = Append(@, frame)]
      PROVE  Goal
  BY <1>0, <1>2 DEF LogTypes
<1>3. ASSUME NEW t \in Starts, StartStep(t) PROVE Goal
  <2>1. ConnOf(t) \in Conns
    BY <1>0
  <2> QED BY <1>1, <1>2, <1>3, <2>1 DEF StartStep, AcceptStart, RefuseStart, IgnoreStart, LogFrame
<1>4. ASSUME NEW t \in Starts, NEW a \in Agents, Send(t, a) PROVE Goal
  <2>1. CASE SendCheck(t, a) \/ SendMark(t, a) \/ SendForget(t, a) \/ SendDrained(t, a)
    BY <1>1, <2>1 DEF SendCheck, SendMark, SendForget, SendDrained
  <2>2. CASE SendEnqueue(t, a)
    <3> DEFINE frame == send[t][a].frame
    <3>1. UNCHANGED log \/ log' = [log EXCEPT ![ConnOf(t)] = Append(@, frame)]
      BY <2>2 DEF SendEnqueue
    <3>2. frame \in LogFrame /\ (frame = "output" => task[t].copy = "send")
      BY <1>0, <2>2 DEF SendEnqueue, TaskOK, SendInv, SendTypes, Call, LogFrame
    <3>3. ConnOf(t) \in Conns
      BY <1>0
    <3> HIDE DEF frame
    <3>4. CASE frame # "output"
      BY <1>1, <1>2, <3>1, <3>2, <3>3, <3>4
    <3>5. CASE frame = "output"
      <4>1. CASE ConnOf(t) = c
        BY <3>2, <3>5, <4>1
      <4>2. CASE ConnOf(t) # c
        BY <1>0, <1>1, <3>1, <3>3, <4>2 DEF LogTypes
      <4> QED BY <4>1, <4>2
    <3> QED BY <3>4, <3>5
  <2> QED BY <1>4, <2>1, <2>2 DEF Send
<1>5. ASSUME Holder PROVE Goal
  <2>1. CASE HandleInput \/ HandleMalformed \/ HandleGap \/ HandleEnding \/ GapMark
    BY <1>1, <2>1 DEF HandleInput, HandleMalformed, HandleGap, HandleEnding, GapMark
  <2>2. CASE GapError
    <3>1. todo[1].task \in Starts
      BY <1>0, <2>2, TailTypes DEF GapError, Job
    <3>2. ConnOf(todo[1].task) \in Conns
      BY <1>0, <3>1
    <3>3. UNCHANGED log \/ log' = [log EXCEPT ![ConnOf(todo[1].task)] = Append(@, "error")]
      BY <2>2 DEF GapError
    <3>4. "error" \in LogFrame \ {"output"}
      BY DEF LogFrame
    <3> QED BY <1>1, <1>2, <3>2, <3>3, <3>4
  <2> QED BY <1>5, <2>1, <2>2 DEF Holder
<1>6. ASSUME NEW cb \in callbacks, OutboundForgets(cb) \/ CallDrained(cb) \/ CallDropped(cb) PROVE Goal
  BY <1>1, <1>6 DEF OutboundForgets, CallDrained, CallDropped
<1>7. ASSUME NEW d \in Conns, \/ \E msg \in Messages : ReceiveRemote(d, msg)
                              \/ PeerFallsSilent(d)
      PROVE  Goal
  BY <1>1, <1>7 DEF ReceiveRemote, PeerFallsSilent
<1>8. ASSUME NEW d \in Conns, NEW why \in {"drained", "dropped"}, OutboundRemoves(d, why)
       PROVE  Goal
  BY <1>1, <1>8 DEF OutboundRemoves
<1>9. ASSUME Tick PROVE Goal
  BY <1>1, <1>9 DEF Tick
<1>10. ASSUME NEW t \in Starts, TaskStep(t) PROVE Goal
  BY <1>1, <1>10, TaskStepLeaves DEF outsideVars
<1>11. ASSUME UNCHANGED vars PROVE Goal
  BY <1>1, <1>11 DEF vars
<1>12. ASSUME NEW t \in Starts, StartOvertaken(t) PROVE Goal
  <2>1. log' = log \/ log' = [log EXCEPT ![ConnOf(t)] = Append(@, "error")]
    BY <1>12, OvertakenParts
  <2>2. ConnOf(t) \in Conns
    BY <1>0
  <2> QED BY <1>1, <1>2, <2>1, <2>2 DEF LogFrame
<1> HIDE DEF Goal
<1>13. Goal
  BY <1>3, <1>4, <1>5, <1>6, <1>7, <1>9, <1>10, <1>11, <1>12, <1>8, NextCases
<1> QED BY <1>13 DEF Goal

LEMMA NextNoOutput ==
    ASSUME TypeOK, \A t \in Starts : TaskOK(t) /\ Goes(t) /\ LogInv(t), [Next]_vars,
           NoOutputAfterExit
    PROVE  NoOutputAfterExit'
<1> SUFFICES ASSUME NEW c \in Conns, StartedOnce(c)',
                    NEW i \in 1 .. Len(log'[c]), NEW j \in 1 .. Len(log'[c]),
                    i < j, log'[c][i] = "exit"
             PROVE  log'[c][j] # "output"
  BY DEF NoOutputAfterExit
<1>0. StartedOnce(c) /\ log[c] \in Seq(LogFrame)
  BY StaysStartedOnce, TypeParts DEF LogTypes
<1>1. CASE log'[c] = log[c]
  BY <1>0, <1>1 DEF NoOutputAfterExit
<1>2. ASSUME NEW frame \in LogFrame \ {"output"}, log'[c] = Append(log[c], frame)
      PROVE  log'[c][j] # "output"
  <2>1. CASE j = Len(log[c]) + 1
    BY <1>0, <1>2, <2>1
  <2>2. CASE j # Len(log[c]) + 1
    <3>1. /\ i \in 1 .. Len(log[c]) /\ j \in 1 .. Len(log[c])
          /\ log'[c][i] = log[c][i] /\ log'[c][j] = log[c][j]
      BY <1>0, <1>2, <2>2
    <3> QED BY <1>0, <3>1 DEF NoOutputAfterExit
  <2> QED BY <2>1, <2>2
<1>3. ASSUME NEW s \in Starts, ConnOf(s) = c, task[s].copy = "send"
      PROVE  log'[c][j] # "output"
  <2>1. ~Contains(log[c], "exit")
    BY <1>0, <1>3 DEF LogInv
  <2>2. PICK frame \in LogFrame : log'[c] = log[c] \/ log'[c] = Append(log[c], frame)
    <3>1. Moves(c)
      BY NextMoves
    <3> QED BY <3>1 DEF Moves, LogMoves, LogFrame
  <2>3. i \in 1 .. Len(log[c]) /\ log[c][i] = "exit"
    <3>1. CASE log'[c] = log[c]
      BY <3>1
    <3>2. CASE log'[c] = Append(log[c], frame)
      BY <1>0, <3>2
    <3> QED BY <2>2, <3>1, <3>2
  <2> QED BY <2>1, <2>3 DEF Contains
<1> QED BY <1>1, <1>2, <1>3, OutputMoves

-----------------------------------------------------------------------------
(***************************************************************************)
(* The theorems.                                                           *)
(***************************************************************************)
LEMMA InitInv == Init => RemoteInv
<1> SUFFICES ASSUME Init PROVE RemoteInv
  OBVIOUS
<1>0. PICK root \in Roots : task = [t \in Starts |-> NewTask(root[t])]
  BY DEF Init
<1>1. /\ session = [c \in Conns |-> NoTask] /\ conn = [c \in Conns |-> NoConn]
      /\ log = [c \in Conns |-> << >>] /\ callbacks = {} /\ todo = << >>
      /\ send = [t \in Starts |-> [a \in Agents |-> Idle]]
      /\ proc = [t \in Starts |-> NewProc]
  BY DEF Init
<1>2. TypeOK
  BY InitTypes
<1>3. JobsInv
  BY <1>1 DEF JobsInv, TodoInv, CallbacksInv
<1>4. ASSUME NEW c \in Conns PROVE SessionInv(c) /\ RouteInv(c)
  BY <1>1 DEF SessionInv, RouteInv, NoConn
<1>5. ASSUME NEW t \in Starts PROVE TaskInv(t) /\ SendInv(t) /\ ReasonInv(t) /\ LogInv(t)
  <2>1. /\ task[t] = NewTask(root[t]) /\ proc[t] = NewProc /\ \A a \in Agents : send[t][a] = Idle
        /\ ConnOf(t) \in Conns
    BY <1>0, <1>1, <1>2, TypeParts DEF TaskTypes, Task, ConnOf
  <2>2. TaskInv(t)
    BY <2>1 DEF TaskInv, NewTask, NewProc
  <2>3. SendInv(t)
    BY <2>1 DEF SendInv, Idle, Agents
  <2>4. ReasonInv(t)
    BY <2>1 DEF ReasonInv, NewTask
  <2>5. LogInv(t)
    BY <1>1, <2>1 DEF LogInv, NoConn, Contains
  <2> QED BY <2>2, <2>3, <2>4, <2>5
<1>6. NoOutputAfterExit
  BY <1>1 DEF NoOutputAfterExit
<1> QED BY <1>2, <1>3, <1>4, <1>5, <1>6 DEF RemoteInv

LEMMA NextInv == RemoteInv /\ [Next]_vars => RemoteInv'
<1> SUFFICES ASSUME RemoteInv, [Next]_vars PROVE RemoteInv'
  OBVIOUS
<1>1. /\ TypeOK /\ JobsInv /\ NoOutputAfterExit
      /\ \A c \in Conns : SessionInv(c) /\ RouteInv(c)
      /\ \A t \in Starts : TaskOK(t) /\ ReasonInv(t) /\ LogInv(t) /\ TaskInv(t) /\ SendInv(t)
  BY DEF RemoteInv, TaskOK
<1>2. TypeOK'
  BY <1>1, NextTypes
<1>3. \A t \in Starts : Goes(t)
  BY <1>1, NextGoes
<1>4. JobsInv'
  BY <1>1, <1>2, <1>3, NextJobsInv
<1>5. \A c \in Conns : SessionInv(c)'
  BY <1>1, <1>2, <1>3, NextSessionInv
<1>6. \A t \in Starts : TaskOK(t)'
  BY <1>1, NextTasksOK
<1>7. \A t \in Starts : ReasonInv(t)'
  BY <1>1, <1>3, NextReasonInv
<1>8. \A t \in Starts : LogInv(t)'
  BY <1>1, <1>3, NextLogInv
<1>9. NoOutputAfterExit'
  BY <1>1, <1>3, NextNoOutput
<1>10. \A c \in Conns : RouteInv(c)'
  BY <1>1, <1>2, <1>3, NextRouteInv
<1> QED BY <1>2, <1>4, <1>5, <1>6, <1>7, <1>8, <1>9, <1>10 DEF RemoteInv, TaskOK

\* The inductive invariant of the executing side: what the session map, the
\* outbound connections, the holder of Manager.mu, the goroutines of every
\* task and the frames enqueued for its client have to do with each other.
THEOREM SpecRemoteInv == Spec => []RemoteInv
<1> QED BY InitInv, NextInv, PTL DEF Spec

\* The event channel of a task never holds more than defaultRemoteEventBuffer,
\* and the stdin pipe and the output of a process stay within their bounds.
THEOREM SpecTypeOK == Spec => []TypeOK
<1>1. RemoteInv => TypeOK
  BY DEF RemoteInv
<1> QED BY <1>1, SpecRemoteInv, PTL

\* remoteByConn and the two maps of the outbound manager go together, though no
\* lock covers them: the end of a session without its connection is under way,
\* also when its root was started before, and the connection of a root that is
\* started once has callbacks only while its session is there
\* (closeRemoteLocked, AcceptRemoteStart, forgetConn, CloseRemoteConn and
\* handleRemoteOutboundDrop).
THEOREM SpecSessionsMatchConnections == Spec => []SessionsMatchConnections
<1>1. RemoteInv => SessionsMatchConnections
  <2> SUFFICES ASSUME RemoteInv, NEW c \in Conns
               PROVE  /\ session[c] # NoTask => conn[c].owner = session[c] \/ EndIsComing(c)
                      /\ StartedOnce(c) /\ conn[c].owner # NoTask => conn[c].owner = session[c]
    BY DEF SessionsMatchConnections
  <2>1. SessionInv(c) /\ RouteInv(c) /\ InputTypes
    BY TypeParts DEF RemoteInv
  <2>2. todo # << >> => 1 \in 1 .. Len(todo)
    BY <2>1 DEF InputTypes
  <2>3. EndIsDue(c) => EndIsComing(c)
    BY <2>2 DEF EndIsDue, EndIsComing
  <2> QED BY <2>1, <2>3 DEF SessionInv, RouteInv
<1> QED BY <1>1, SpecRemoteInv, PTL

\* run() waits for copyOutput before it reports the exit, so that a client
\* that stops at the exit frame has all the output that was sent.
THEOREM SpecNoOutputAfterExit == Spec => []NoOutputAfterExit
<1>1. RemoteInv => NoOutputAfterExit
  BY DEF RemoteInv
<1> QED BY <1>1, SpecRemoteInv, PTL

\* The exit of a command in a terminal is reported after all of its output,
\* though it is reaped and its context cancelled while copyOutput still reads.
THEOREM SpecOutputComplete == Spec => []OutputComplete
<1>1. RemoteInv => OutputComplete
  BY DEF RemoteInv, OutputComplete, LogInv
<1> QED BY <1>1, SpecRemoteInv, PTL

\* controlLoop, killAfterGrace and the context stop a command only when its
\* session has ended, its connection is gone, or an error is or was reported.
THEOREM SpecKillHasReason == Spec => KillHasReason
<1>1. RemoteInv /\ [Next]_vars =>
         [\A t \in Starts :
             proc'[t].killed /\ ~proc[t].killed =>
                 \/ session[ConnOf(t)] # t
                 \/ Contains(log[ConnOf(t)], "error")
                 \/ \E i \in 1 .. Len(todo) : todo[i].task = t
                 \/ conn[ConnOf(t)].owner # t
                 \/ ~conn[ConnOf(t)].routed]_vars
  <2> SUFFICES ASSUME RemoteInv, [Next]_vars,
                      NEW t \in Starts, proc'[t].killed, ~proc[t].killed
               PROVE  \/ session[ConnOf(t)] # t
                      \/ Contains(log[ConnOf(t)], "error")
                      \/ \E i \in 1 .. Len(todo) : todo[i].task = t
                      \/ conn[ConnOf(t)].owner # t
                      \/ ~conn[ConnOf(t)].routed
    OBVIOUS
  <2>1. TypeOK /\ InputTypes /\ \A s \in Starts : TaskOK(s) /\ ReasonInv(s)
    BY TypeParts DEF RemoteInv, TaskOK
  <2>2. Reason(t)
    BY <2>1, NextKill
  <2>3. ASSUME todo # << >>, todo[1] = [task |-> t, what |-> "gap_error"]
        PROVE  \E i \in 1 .. Len(todo) : todo[i].task = t
    <3>1. 1 \in 1 .. Len(todo) /\ todo[1].task = t
      BY <2>1, <2>3 DEF InputTypes
    <3> QED BY <3>1
  <2> QED BY <2>2, <2>3 DEF Reason
<1> QED BY <1>1, SpecRemoteInv, PTL DEF Spec, KillHasReason
====
