------------------------------ MODULE Outbound ------------------------------
(***************************************************************************)
(* The queue of one chat in internal/outbound/manager.go: connections that *)
(* reply in the chat, callers that open root messages, the goroutine that  *)
(* runs the queue and the goroutines that send its batches.  Chats share   *)
(* nothing but the manager's two maps, so one is enough.                   *)
(*                                                                         *)
(* Every action is one critical section of chatQueue.mu with the callback  *)
(* and the notifyReschedule that follow it.  Times are kept relative to    *)
(* now: how long until nextFlushAt, until the cooldown or a heartbeat is   *)
(* due, and how old a queued frame is.                                     *)
(***************************************************************************)
EXTENDS Integers, Sequences, FiniteSets

CONSTANTS
    Conns,       \* connections of the chat, by connection id
    Jobs,        \* calls of OpenRoot
    Cooldown,    \* lark.send_cooldown in ticks
    Interval,    \* heartbeat interval in ticks, 0 for none
    BatchLimit,  \* how many ordinary frames fit the request limit
    MaxFrames,   \* bound: frames numbered per connection
    MaxAge,      \* bound: ages are told apart up to here
    MaxFailures, \* bound: sends that fail retryably
    NoFlush      \* hasNextFlush is false

ASSUME OutboundAssumption ==
    /\ IsFiniteSet(Conns) /\ IsFiniteSet(Jobs)
    /\ Cooldown \in Nat \ {0} /\ Interval \in Nat /\ BatchLimit \in Nat \ {0}
    /\ MaxFrames \in Nat /\ MaxAge \in Nat /\ MaxFailures \in Nat
    /\ NoFlush \notin Nat

VARIABLES
    state,      \* connection: "new", "open" in chatQueue.conns, "gone"
    nextSeq,    \* connection: its Sequencer
    frames,     \* connection: the queued frames
    closing,    \* connection: closeAfterDrained
    inFlight,   \* connection: counter of batches being sent
    hbIn,       \* connection: ticks until nextHeartbeatAt
    job,        \* root job and what its caller has got
    batches,    \* replies being sent by a sendBatch goroutine; lost: Lark never answers
    rootSend,   \* root job: its sendBatch goroutine, or "lost"
    cooling,    \* ticks until lastAttemptAt + cooldown
    flushIn,    \* ticks until nextFlushAt, or NoFlush
    pc,         \* where run() is
    timer,      \* ticks until the timer of run() fires
    resched,    \* a token in rescheduleCh
    posted,     \* history: numbers that Lark has posted
    outcome,    \* history: the callback a connection has got
    failures    \* history: sends that failed retryably

connVars == <<state, nextSeq, frames, closing, inFlight, hbIn, outcome>>
runVars == <<pc, timer>>
vars == <<state, nextSeq, frames, closing, inFlight, hbIn, job, batches, rootSend,
          cooling, flushIn, pc, timer, resched, posted, outcome, failures>>

Frame == [seq : 1 .. MaxFrames, huge : BOOLEAN, age : 0 .. MaxAge]

NewFrame(c, huge) == [seq |-> nextSeq[c], huge |-> huge, age |-> 0]

Open == {c \in Conns : state[c] = "open"}
InMap == {"queued", "sending"}   \* states of a job in chatQueue.rootJobs

SeqsOf(s) == {s[i].seq : i \in 1 .. Len(s)}
BatchesOf(c) == {b \in batches : b.conn = c}

Init ==
    /\ state = [c \in Conns |-> "new"]
    /\ nextSeq = [c \in Conns |-> 1]
    /\ frames = [c \in Conns |-> << >>]
    /\ closing = [c \in Conns |-> FALSE]
    /\ inFlight = [c \in Conns |-> 0]
    /\ hbIn = [c \in Conns |-> 0]
    /\ job = [j \in Jobs |-> [state |-> "new", huge |-> FALSE, age |-> 0, result |-> "none"]]
    /\ batches = {}
    /\ rootSend = [j \in Jobs |-> "none"]
    /\ cooling = 0
    /\ flushIn = NoFlush
    /\ pc = "check"
    /\ timer = 0
    /\ resched = FALSE
    /\ posted = [c \in Conns |-> {}]
    /\ outcome = [c \in Conns |-> "none"]
    /\ failures = 0

-----------------------------------------------------------------------------
(***************************************************************************)
(* Planning: when run() has to flush next.                                 *)
(***************************************************************************)

\* A connection that has used up MaxFrames sends no more heartbeats.
HasHeartbeat(c) == state[c] = "open" /\ Interval > 0 /\ nextSeq[c] <= MaxFrames

Later(m, n) == IF m < n THEN n ELSE m

\* hasPendingLocked after the step.
PendingAfter ==
    \/ \E j \in Jobs : job'[j].state = "queued"
    \/ \E c \in Conns : state'[c] = "open" /\ frames'[c] # << >>

\* Mutant: the plan forgets the heartbeats.
ReplanFrames ==
    flushIn' = IF PendingAfter THEN cooling' ELSE NoFlush

\* replanLocked, as a part of the step that has determined everything else.
Replan ==
    LET beating == {c \in Conns : HasHeartbeat(c)'}
    IN  IF PendingAfter THEN flushIn' = cooling'
        ELSE IF beating = {} THEN flushIn' = NoFlush
        ELSE \E c \in beating :
               /\ \A d \in beating : hbIn'[c] <= hbIn'[d]
               /\ flushIn' = Later(hbIn'[c], cooling')

\* Mutant: a new frame is flushed at once, cooldown or not.
ScheduleNow == flushIn' = 0

\* scheduleReadyLocked
ScheduleReady ==
    flushIn' = IF flushIn = NoFlush THEN cooling
               ELSE IF cooling < flushIn THEN cooling ELSE flushIn

\* notifyReschedule: the channel holds one token.
Notify == resched' = TRUE

-----------------------------------------------------------------------------
(***************************************************************************)
(* Calls from the session managers.                                        *)
(***************************************************************************)

\* A connection id is a root message id, each connection is registered once.
RegisterConnection(c) ==
    /\ state[c] = "new"
    /\ state' = [state EXCEPT ![c] = "open"]
    /\ hbIn' = [hbIn EXCEPT ![c] = Interval]
    /\ UNCHANGED <<nextSeq, frames, closing, inFlight, outcome, job, batches, rootSend,
                   cooling, runVars, posted, failures>>
    /\ Replan
    /\ Notify

Enqueue(c, huge) ==
    /\ state[c] = "open"
    /\ nextSeq[c] <= MaxFrames
    /\ nextSeq' = [nextSeq EXCEPT ![c] = @ + 1]
    /\ frames' = [frames EXCEPT ![c] = Append(@, NewFrame(c, huge))]
    /\ UNCHANGED <<state, closing, inFlight, hbIn, outcome, job, batches, rootSend,
                   cooling, runVars, posted, failures>>
    /\ ScheduleReady
    /\ Notify

\* The connection leaves the maps with the callback or without one.
Remove(c, why) ==
    /\ state' = [state EXCEPT ![c] = "gone"]
    /\ outcome' = [outcome EXCEPT ![c] = why]
    /\ frames' = [frames EXCEPT ![c] = << >>]
    /\ closing' = [closing EXCEPT ![c] = FALSE]
    /\ inFlight' = [inFlight EXCEPT ![c] = 0]
    /\ hbIn' = [hbIn EXCEPT ![c] = 0]
    /\ UNCHANGED nextSeq

\* Mutant: an empty queue counts as drained, whatever is being sent.
MarkCloseWhenQueueEmpty(c) ==
    /\ state[c] = "open"
    /\ IF frames[c] = << >>
       THEN /\ Remove(c, "drained")
            /\ UNCHANGED <<job, batches, rootSend, cooling, runVars, posted, failures>>
            /\ Replan
       ELSE /\ closing' = [closing EXCEPT ![c] = TRUE]
            /\ UNCHANGED <<state, nextSeq, frames, inFlight, hbIn, outcome, job, batches,
                           rootSend, cooling, flushIn, runVars, posted, failures>>
    /\ Notify

MarkCloseAfterDrained(c) ==
    /\ state[c] = "open"
    /\ IF frames[c] = << >> /\ inFlight[c] = 0
       THEN /\ Remove(c, "drained")
            /\ UNCHANGED <<job, batches, rootSend, cooling, runVars, posted, failures>>
            /\ Replan
       ELSE /\ closing' = [closing EXCEPT ![c] = TRUE]
            /\ UNCHANGED <<state, nextSeq, frames, inFlight, hbIn, outcome, job, batches,
                           rootSend, cooling, flushIn, runVars, posted, failures>>
    /\ Notify

DropConnection(c) ==
    /\ state[c] = "open"
    /\ Remove(c, "removed")
    /\ UNCHANGED <<job, batches, rootSend, cooling, runVars, posted, failures>>
    /\ Replan
    /\ Notify

OpenRoot(j, huge) ==
    /\ job[j].state = "new"
    /\ job' = [job EXCEPT ![j] = [state |-> "queued", huge |-> huge, age |-> 0,
                                  result |-> "none"]]
    /\ UNCHANGED <<connVars, batches, rootSend, cooling, runVars, posted, failures>>
    /\ ScheduleReady
    /\ Notify

\* The select of OpenRoot takes the result.
OpenRootReturns(j) ==
    /\ job[j].state = "answered"
    /\ job' = [job EXCEPT ![j].state = "returned"]
    /\ UNCHANGED <<connVars, batches, rootSend, cooling, flushIn, runVars, resched,
                   posted, failures>>

\* The select of OpenRoot takes ctx.Done, which it may also do when the result
\* is there.  A root message that is being sent is not called back.
CancelOpenRoot(j) ==
    /\ job[j].state \in InMap \union {"answered"}
    /\ job' = [job EXCEPT ![j].state = "returned", ![j].result = "canceled"]
    /\ UNCHANGED <<connVars, batches, rootSend, cooling, runVars, posted, failures>>
    /\ IF job[j].state \in InMap THEN Replan ELSE UNCHANGED flushIn
    /\ Notify

-----------------------------------------------------------------------------
(***************************************************************************)
(* The goroutine of the chat: run and flushOnce.                           *)
(***************************************************************************)

\* currentWaitLocked decides how run() waits.
RunCheck ==
    /\ pc = "check"
    /\ pc' = IF flushIn = NoFlush THEN "idle"
             ELSE IF flushIn = 0 THEN "flush" ELSE "armed"
    /\ timer' = IF flushIn = NoFlush THEN 0 ELSE flushIn
    /\ UNCHANGED <<connVars, job, batches, rootSend, cooling, flushIn, resched, posted, failures>>

RunWake ==
    /\ pc \in {"idle", "armed"}
    /\ resched
    /\ resched' = FALSE
    /\ pc' = "check"
    /\ timer' = 0
    /\ UNCHANGED <<connVars, job, batches, rootSend, cooling, flushIn, posted, failures>>

RunTimer ==
    /\ pc = "armed"
    /\ timer = 0
    /\ pc' = "flush"
    /\ UNCHANGED <<connVars, job, batches, rootSend, cooling, flushIn, timer, resched,
                   posted, failures>>

\* selectHeartbeatConnLocked: a heartbeat that is due goes before everything.
DueHeartbeats == {c \in Conns : HasHeartbeat(c) /\ hbIn[c] = 0}

\* selectPendingConnLocked: the connections whose first frame is the oldest.
OldestConns ==
    LET waiting == {c \in Open : frames[c] # << >>}
    IN  {c \in waiting : \A d \in waiting : frames[d][1].age <= frames[c][1].age}

\* selectRootJobLocked
OldestJobs ==
    LET waiting == {j \in Jobs : job[j].state = "queued"}
    IN  {j \in waiting : \A k \in waiting : job[k].age <= job[j].age}

\* A root job goes before a connection unless the connection's first frame is
\* older.  Two ages of MaxAge may stand for different times.
RootFirst(j) ==
    \A c \in OldestConns : frames[c][1].age <= job[j].age

ConnFirst(c) ==
    \A j \in OldestJobs : \/ frames[c][1].age > job[j].age
                          \/ frames[c][1].age = MaxAge /\ job[j].age = MaxAge

\* buildAndPopReplyBatchLocked takes the longest prefix that fits.
Fits(s, k) == k <= BatchLimit /\ \A i \in 1 .. k : ~s[i].huge

LongestFit(s, k) ==
    /\ k \in 1 .. Len(s)
    /\ Fits(s, k)
    /\ k < Len(s) => ~Fits(s, k + 1)

\* Mutant: the last frame of the batch stays in the queue.
PopAllButLast(c, queue) ==
    \E k \in 1 .. Len(queue) :
        /\ LongestFit(queue, k)
        /\ frames' = [frames EXCEPT ![c] = SubSeq(queue, k, Len(queue))]
        /\ batches' = batches \union
                        {[conn |-> c, frames |-> SubSeq(queue, 1, k), posted |-> FALSE,
                          lost |-> FALSE]}
        /\ inFlight' = [inFlight EXCEPT ![c] = @ + 1]
        /\ cooling' = Cooldown
        /\ UNCHANGED <<state, closing, hbIn, outcome, job, rootSend, posted, failures>>

\* popReplyBatchLocked and the sendBatch goroutine that is started with it;
\* queue is frames[c], with the heartbeat if one was added.
PopReplyBatch(c, queue) ==
    \E k \in 1 .. Len(queue) :
        /\ LongestFit(queue, k)
        /\ frames' = [frames EXCEPT ![c] = SubSeq(queue, k + 1, Len(queue))]
        /\ batches' = batches \union
                        {[conn |-> c, frames |-> SubSeq(queue, 1, k), posted |-> FALSE,
                          lost |-> FALSE]}
        /\ inFlight' = [inFlight EXCEPT ![c] = @ + 1]
        /\ cooling' = Cooldown
        /\ UNCHANGED <<state, closing, hbIn, outcome, job, rootSend, posted, failures>>

FlushHeartbeat(c) ==
    /\ c \in DueHeartbeats
    /\ IF frames[c] = << >>
       THEN /\ nextSeq' = [nextSeq EXCEPT ![c] = @ + 1]
            /\ PopReplyBatch(c, <<NewFrame(c, FALSE)>>)
       ELSE /\ UNCHANGED nextSeq
            /\ PopReplyBatch(c, frames[c])

FlushConn(c) ==
    /\ DueHeartbeats = {}
    /\ c \in OldestConns
    /\ ConnFirst(c)
    /\ UNCHANGED nextSeq
    /\ PopReplyBatch(c, frames[c])

\* A first frame that does not fit alone drops the connection: dropConnLocked
\* and its onDrop.
FlushTooLarge(c) ==
    /\ \/ c \in DueHeartbeats
       \/ DueHeartbeats = {} /\ c \in OldestConns /\ ConnFirst(c)
    /\ frames[c] # << >>
    /\ frames[c][1].huge
    /\ Remove(c, "dropped")
    /\ UNCHANGED <<job, batches, rootSend, cooling, posted, failures>>

FlushRoot(j) ==
    /\ DueHeartbeats = {}
    /\ j \in OldestJobs
    /\ RootFirst(j)
    /\ ~job[j].huge
    /\ job' = [job EXCEPT ![j].state = "sending"]
    /\ rootSend' = [rootSend EXCEPT ![j] = "sending"]
    /\ cooling' = Cooldown
    /\ UNCHANGED <<connVars, batches, posted, failures>>

FlushRootTooLarge(j) ==
    /\ DueHeartbeats = {}
    /\ j \in OldestJobs
    /\ RootFirst(j)
    /\ job[j].huge
    /\ job' = [job EXCEPT ![j].state = "answered", ![j].result = "too_large"]
    /\ UNCHANGED <<connVars, batches, rootSend, cooling, posted, failures>>

FlushNothing ==
    /\ DueHeartbeats = {} /\ OldestConns = {} /\ OldestJobs = {}
    /\ UNCHANGED <<connVars, job, batches, rootSend, cooling, posted, failures>>

\* flushOnce with its prepareBatch, which replans last.
Flush ==
    /\ pc = "flush"
    /\ \/ /\ \/ \E c \in Conns : FlushHeartbeat(c) \/ FlushConn(c)
             \/ \E j \in Jobs : FlushRoot(j) \/ FlushRootTooLarge(j)
             \/ FlushNothing
          /\ Notify
       \/ (\E c \in Conns : FlushTooLarge(c)) /\ UNCHANGED resched
    /\ Replan
    /\ pc' = "check"
    /\ timer' = 0

-----------------------------------------------------------------------------
(***************************************************************************)
(* The sendBatch goroutines and Lark.                                      *)
(***************************************************************************)

\* Lark posts the message; whether the sender learns of it is another matter.
LarkPostsReply(b) ==
    /\ b \in batches
    /\ ~b.lost
    /\ ~b.posted
    /\ batches' = (batches \ {b}) \union {[b EXCEPT !.posted = TRUE]}
    /\ posted' = [posted EXCEPT ![b.conn] = @ \union SeqsOf(b.frames)]
    /\ UNCHANGED <<connVars, job, rootSend, cooling, flushIn, runVars, resched, failures>>

LarkPostsRoot(j) ==
    /\ rootSend[j] = "sending"
    /\ rootSend' = [rootSend EXCEPT ![j] = "posted"]
    /\ UNCHANGED <<connVars, job, batches, cooling, flushIn, runVars, resched, posted, failures>>

\* The request has no deadline: neither http.DefaultClient nor the context of
\* sendBatch gives it one.  Without an answer, or a broken TCP connection, its
\* goroutine waits for ever.
LarkNeverAnswersReply(b) ==
    /\ b \in batches
    /\ ~b.lost
    /\ batches' = (batches \ {b}) \union {[b EXCEPT !.lost = TRUE]}
    /\ UNCHANGED <<connVars, job, rootSend, cooling, flushIn, runVars, resched, posted, failures>>

LarkNeverAnswersRoot(j) ==
    /\ rootSend[j] \in {"sending", "posted"}
    /\ rootSend' = [rootSend EXCEPT ![j] = "lost"]
    /\ UNCHANGED <<connVars, job, batches, cooling, flushIn, runVars, resched, posted, failures>>

\* Mutant: the batch of a connection that has gone is counted all the same.
ReplyIgnoredCounts(b) ==
    /\ b \in batches
    /\ ~b.lost
    /\ state[b.conn] # "open"
    /\ batches' = batches \ {b}
    /\ inFlight' = [inFlight EXCEPT ![b.conn] = @ - 1]
    /\ UNCHANGED <<state, nextSeq, frames, closing, hbIn, outcome, job, rootSend, cooling,
                   runVars, posted, failures>>
    /\ Replan
    /\ Notify

\* commitReplyResult for a connection that has gone.
ReplyIgnored(b) ==
    /\ b \in batches
    /\ ~b.lost
    /\ state[b.conn] # "open"
    /\ batches' = batches \ {b}
    /\ UNCHANGED <<connVars, job, rootSend, cooling, runVars, posted, failures>>
    /\ Replan
    /\ Notify

\* Mutant: a result does not look for a connection that waits to be drained.
ReplySentForgetsClose(b) ==
    /\ b \in batches
    /\ ~b.lost
    /\ b.posted
    /\ state[b.conn] = "open"
    /\ batches' = batches \ {b}
    /\ inFlight' = [inFlight EXCEPT ![b.conn] = @ - 1]
    /\ hbIn' = [hbIn EXCEPT ![b.conn] = Interval]
    /\ UNCHANGED <<state, nextSeq, frames, closing, outcome, job, rootSend, cooling,
                   runVars, posted, failures>>
    /\ Replan
    /\ Notify

ReplySent(b) ==
    LET c == b.conn
    IN  /\ b \in batches
        /\ ~b.lost
        /\ b.posted
        /\ state[c] = "open"
        /\ batches' = batches \ {b}
        /\ IF closing[c] /\ frames[c] = << >> /\ inFlight[c] = 1
           THEN Remove(c, "drained")
           ELSE /\ inFlight' = [inFlight EXCEPT ![c] = @ - 1]
                /\ hbIn' = [hbIn EXCEPT ![c] = Interval]
                /\ UNCHANGED <<state, nextSeq, frames, closing, outcome>>
        /\ UNCHANGED <<job, rootSend, cooling, runVars, posted, failures>>
        /\ Replan
        /\ Notify

\* Mutant: a batch that fails is not put back.
ReplyFailedLoses(b) ==
    LET c == b.conn
    IN  /\ b \in batches
        /\ ~b.lost
        /\ failures < MaxFailures
        /\ failures' = failures + 1
        /\ state[c] = "open"
        /\ batches' = batches \ {b}
        /\ inFlight' = [inFlight EXCEPT ![c] = @ - 1]
        /\ UNCHANGED <<state, nextSeq, frames, closing, hbIn, outcome, job, rootSend, cooling,
                       runVars, posted>>
        /\ Replan
        /\ Notify

\* Mutant: a batch that fails is still counted as in flight.
ReplyFailedStillInFlight(b) ==
    LET c == b.conn
    IN  /\ b \in batches
        /\ ~b.lost
        /\ failures < MaxFailures
        /\ failures' = failures + 1
        /\ state[c] = "open"
        /\ batches' = batches \ {b}
        /\ frames' = [frames EXCEPT ![c] = b.frames \o @]
        /\ UNCHANGED <<state, nextSeq, closing, inFlight, hbIn, outcome, job, rootSend, cooling,
                       runVars, posted>>
        /\ Replan
        /\ Notify

\* A retryable error, after which the message may have been posted or not: the
\* batch goes back to the head of the queue.
ReplyFailedRetryably(b) ==
    LET c == b.conn
    IN  /\ b \in batches
        /\ ~b.lost
        /\ failures < MaxFailures
        /\ failures' = failures + 1
        /\ state[c] = "open"
        /\ batches' = batches \ {b}
        /\ frames' = [frames EXCEPT ![c] = b.frames \o @]
        /\ inFlight' = [inFlight EXCEPT ![c] = @ - 1]
        /\ UNCHANGED <<state, nextSeq, closing, hbIn, outcome, job, rootSend, cooling,
                       runVars, posted>>
        /\ Replan
        /\ Notify

\* Any other error drops the connection.
ReplyFailed(b) ==
    /\ b \in batches
    /\ ~b.lost
    /\ ~b.posted
    /\ state[b.conn] = "open"
    /\ batches' = batches \ {b}
    /\ Remove(b.conn, "dropped")
    /\ UNCHANGED <<job, rootSend, cooling, runVars, posted, failures>>
    /\ Replan
    /\ Notify

\* commitRootResult: the result of a job that was cancelled goes nowhere.
RootSent(j) ==
    /\ rootSend[j] = "posted"
    /\ rootSend' = [rootSend EXCEPT ![j] = "none"]
    /\ job' = IF job[j].state = "sending"
              THEN [job EXCEPT ![j].state = "answered", ![j].result = "ok"]
              ELSE job
    /\ UNCHANGED <<connVars, batches, cooling, runVars, posted, failures>>
    /\ Replan
    /\ Notify

RootFailedRetryably(j) ==
    /\ rootSend[j] \in {"sending", "posted"}
    /\ failures < MaxFailures
    /\ failures' = failures + 1
    /\ rootSend' = [rootSend EXCEPT ![j] = "none"]
    /\ job' = IF job[j].state = "sending" THEN [job EXCEPT ![j].state = "queued"] ELSE job
    /\ UNCHANGED <<connVars, batches, cooling, runVars, posted>>
    /\ Replan
    /\ Notify

\* Mutant: the caller is not told that its root failed.
RootFailedSilently(j) ==
    /\ rootSend[j] = "sending"
    /\ rootSend' = [rootSend EXCEPT ![j] = "none"]
    /\ UNCHANGED <<connVars, job, batches, cooling, runVars, posted, failures>>
    /\ Replan
    /\ Notify

RootFailed(j) ==
    /\ rootSend[j] = "sending"
    /\ rootSend' = [rootSend EXCEPT ![j] = "none"]
    /\ job' = IF job[j].state = "sending"
              THEN [job EXCEPT ![j].state = "answered", ![j].result = "error"]
              ELSE job
    /\ UNCHANGED <<connVars, batches, cooling, runVars, posted, failures>>
    /\ Replan
    /\ Notify

-----------------------------------------------------------------------------
Sooner(n) == IF n = 0 THEN 0 ELSE n - 1
Older(age) == IF age < MaxAge THEN age + 1 ELSE age

Aged(s) == [i \in 1 .. Len(s) |-> [s[i] EXCEPT !.age = Older(s[i].age)]]

\* One tick of the clock.
Elapse ==
    /\ cooling' = Sooner(cooling)
    /\ flushIn' = IF flushIn = NoFlush THEN NoFlush ELSE Sooner(flushIn)
    /\ timer' = Sooner(timer)
    /\ hbIn' = [c \in Conns |-> Sooner(hbIn[c])]
    /\ frames' = [c \in Conns |-> Aged(frames[c])]
    /\ batches' = {[b EXCEPT !.frames = Aged(b.frames)] : b \in batches}
    /\ job' = [j \in Jobs |-> IF job[j].state \in InMap
                              THEN [job[j] EXCEPT !.age = Older(job[j].age)] ELSE job[j]]
    /\ UNCHANGED <<state, nextSeq, closing, inFlight, rootSend, pc, resched, posted,
                   outcome, failures>>

Calls ==
    \/ \E c \in Conns : \/ RegisterConnection(c)
                        \/ \E huge \in BOOLEAN : Enqueue(c, huge)
                        \/ MarkCloseAfterDrained(c)
                        \/ DropConnection(c)
    \/ \E j \in Jobs : \/ \E huge \in BOOLEAN : OpenRoot(j, huge)
                       \/ CancelOpenRoot(j)

RunLoop == RunCheck \/ RunWake \/ RunTimer \/ Flush

Sends ==
    \/ \E b \in batches : \/ LarkPostsReply(b)
                          \/ ReplyIgnored(b)
                          \/ ReplySent(b)
                          \/ ReplyFailedRetryably(b)
                          \/ ReplyFailed(b)
    \/ \E j \in Jobs : \/ LarkPostsRoot(j)
                       \/ RootSent(j)
                       \/ RootFailedRetryably(j)
                       \/ RootFailed(j)

Silence ==
    \/ \E b \in batches : LarkNeverAnswersReply(b)
    \/ \E j \in Jobs : LarkNeverAnswersRoot(j)

Next ==
    \/ Calls
    \/ \E j \in Jobs : OpenRootReturns(j)
    \/ RunLoop
    \/ Sends
    \/ Silence
    \/ Elapse

Spec == Init /\ [][Next]_vars

\* The goroutine of the chat and the goroutines that send run on, Lark answers a
\* request unless it never does (Silence, the step of a request without a
\* timeout), a caller that waits takes its result, and time passes.  Callers owe
\* nothing, and no request has to go unanswered.
FairSpec ==
    /\ Spec
    /\ WF_vars(RunLoop)
    /\ WF_vars(Sends)
    /\ WF_vars(\E j \in Jobs : OpenRootReturns(j))
    /\ WF_vars(Elapse)

-----------------------------------------------------------------------------
TypeOK ==
    /\ state \in [Conns -> {"new", "open", "gone"}]
    /\ nextSeq \in [Conns -> 1 .. MaxFrames + 1]
    /\ frames \in [Conns -> Seq(Frame)]
    /\ closing \in [Conns -> BOOLEAN]
    /\ inFlight \in [Conns -> Nat]
    /\ hbIn \in [Conns -> 0 .. Interval]
    /\ job \in [Jobs -> [state : {"new", "answered", "returned"} \union InMap,
                         huge : BOOLEAN, age : 0 .. MaxAge,
                         result : {"none", "ok", "error", "too_large", "canceled"}]]
    /\ batches \subseteq [conn : Conns, frames : Seq(Frame), posted : BOOLEAN, lost : BOOLEAN]
    /\ rootSend \in [Jobs -> {"none", "sending", "posted", "lost"}]
    /\ cooling \in 0 .. Cooldown
    /\ flushIn \in Nat \union {NoFlush}
    /\ pc \in {"check", "idle", "armed", "flush"}
    /\ timer \in Nat
    /\ resched \in BOOLEAN
    /\ posted \in [Conns -> SUBSET (1 .. MaxFrames)]
    /\ outcome \in [Conns -> {"none", "drained", "dropped", "removed"}]
    /\ failures \in 0 .. MaxFailures

\* No frame is lost on its way: each number a live connection has given is
\* queued, being sent or posted, whichever batches fail and in which order
\* their results come in (popReplyBatchLocked, commitReplyResult).
Flying(c) == UNION {SeqsOf(b.frames) : b \in BatchesOf(c)}

NothingLost ==
    \A c \in Open :
        1 .. nextSeq[c] - 1 \subseteq SeqsOf(frames[c]) \union Flying(c) \union posted[c]

\* A frame is in one place only, so that it is not sent again unless its batch
\* came back: the queue holds a number once, no two batches share one, and none
\* is in a batch and in the queue.
OnePlace ==
    \A c \in Open :
        /\ \A i, k \in 1 .. Len(frames[c]) :
               frames[c][i].seq = frames[c][k].seq => i = k
        /\ SeqsOf(frames[c]) \intersect Flying(c) = {}
        /\ \A a, b \in BatchesOf(c) :
               a # b => SeqsOf(a.frames) \intersect SeqsOf(b.frames) = {}

\* The counter that decides when a connection is drained counts its batches.
InFlightCounts ==
    \A c \in Open : inFlight[c] = Cardinality(BatchesOf(c))

\* onDrained, on which the session layer ends the session, comes only when
\* every frame of the connection, the closing ones included, has been posted:
\* never while a batch is on its way or could come back.
DrainedIsPosted ==
    \A c \in Conns : outcome[c] = "drained" => posted[c] = 1 .. nextSeq[c] - 1

\* What the queue promises to the session layer: the manager numbers frames
\* for connections in its map only, posts none that it has not numbered, and
\* takes a connection out of the map once, as drained only when every frame is
\* in the chat (RegisterConnection, removeConnLocked and the callbacks).
Numbered == [c \in Conns |-> nextSeq[c] - 1]

Replies == INSTANCE ReplyQueue
           WITH phase <- state, numbered <- Numbered, inChat <- posted, reason <- outcome

ImplementsReplyQueue == Replies!Spec

\* Two attempts to send in a chat are a cooldown apart (lark.send_cooldown),
\* though the timer of run() fires on a plan that may have been changed since.
Attempt == \/ \E b \in batches' : \A a \in batches : b.conn # a.conn \/ SeqsOf(b.frames) # SeqsOf(a.frames)
           \/ \E j \in Jobs : rootSend[j] = "none" /\ rootSend'[j] = "sending"

CooldownKept == [][Attempt => cooling = 0 /\ cooling' = Cooldown]_vars

\* No wake-up is lost: what waits is planned, and run() neither sleeps without
\* a timer nor sleeps longer than the plan unless a token will wake it.
Waiting ==
    \/ \E j \in Jobs : job[j].state = "queued"
    \/ \E c \in Open : frames[c] # << >> \/ HasHeartbeat(c)

NoLostWakeup ==
    /\ Waiting => flushIn # NoFlush
    /\ pc = "idle" /\ flushIn # NoFlush => resched
    /\ pc = "armed" /\ flushIn # NoFlush /\ flushIn < timer => resched

\* A request that Lark never answers holds up nothing but what it carries: every
\* other frame that was accepted is posted in the end, those numbered after it
\* included, unless the connection goes (the retries of commitReplyResult, the
\* heartbeats and the plan of replanLocked with a goroutine per batch).
Unanswered(c) == {b \in BatchesOf(c) : b.lost}

FramesGetPosted ==
    \A c \in Conns : \A n \in 1 .. MaxFrames :
        nextSeq[c] > n ~> \/ n \in posted[c]
                          \/ outcome[c] \in {"dropped", "removed"}
                          \/ \E b \in Unanswered(c) : n \in SeqsOf(b.frames)

\* A connection that was asked to close after its frames are sent does end with
\* a callback, unless it is dropped first or a request of its own is never
\* answered: then its counter of batches in flight stays above 0 for ever.
CloseEnds ==
    \A c \in Conns : closing[c] ~> state[c] = "gone" \/ Unanswered(c) # {}

\* Every caller of OpenRoot gets an answer, unless its own request to Lark gets
\* none: requests of others that are never answered do not keep it waiting.
OpenRootAnswered ==
    \A j \in Jobs :
        job[j].state = "queued" ~> job[j].state = "returned" \/ rootSend[j] = "lost"
=============================================================================
