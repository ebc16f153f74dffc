------------------------------- MODULE Events -------------------------------
(***************************************************************************)
(* The event source of elarkd: the websocket of                            *)
(* cmd/elarkd/lark_websocket_event_source.go, the bootstrap message        *)
(* (internal/bootstrap) and the handlers of the two modes, one after the   *)
(* other (combinedEventHandler in cmd/elarkd/main.go).  One goroutine      *)
(* reads, handles and acknowledges.                                        *)
(*                                                                         *)
(* An event comes in one or more parts, in any order; Lark delivers it     *)
(* again until it has the acknowledgement, also over a later connection.   *)
(* The bootstrap message is a request of module Token, which other         *)
(* requests go on beside.  What the handlers do is in Local and Remote.    *)
(*                                                                         *)
(* When the event source fails, runForeground cancels its context and      *)
(* waits for every service; the process ends when they have returned, if   *)
(* they do, and it can crash at any time.  The service manager may start   *)
(* it again (cmd/elarkd/service.go), and nothing is kept but what Lark     *)
(* knows.                                                                  *)
(***************************************************************************)
EXTENDS Token, FiniteSets, Sequences

CONSTANTS
    EventIds,     \* events of Lark
    Kind,         \* event: "message", "bot_added", or "other" (also malformed)
    Parts,        \* event: the number of its parts
    Modes,        \* the modes that are enabled, in their order
    Bootstrap,    \* the request that sends the bootstrap message
    NoEvent

ASSUME EventsAssumption ==
    /\ IsFiniteSet(EventIds) /\ NoEvent \notin EventIds
    /\ Kind \in [EventIds -> {"message", "bot_added", "other"}]
    /\ Parts \in [EventIds -> Nat \ {0}]
    /\ Modes \in {<<"local">>, <<"remote">>, <<"local", "remote">>}
    /\ Bootstrap \in Requests

VARIABLES
    ws,           \* Run: "endpoint", "dialing", "open", "backoff", "ended" when
                  \* it has returned, "down" when there is no process
    cancelled,    \* runCtx
    wire,         \* parts that Lark has sent on this connection
    chunks,       \* event: the parts that wait for the others
    handling,     \* the event that is being handled, or NoEvent
    stage,        \* what is done with it next, a mode is its handler
    given,        \* history: what the event was given to, the bootstrap message too
    acked         \* Lark: events it has the acknowledgement of

wsVars == <<ws, cancelled, wire, chunks, handling, stage, given, acked>>
vars == <<tokenVars, wsVars>>

Init ==
    /\ TokenInit
    /\ ws = "endpoint"
    /\ cancelled = FALSE
    /\ wire = {}
    /\ chunks = [e \in EventIds |-> {}]
    /\ handling = NoEvent
    /\ stage = "read"
    /\ given = [e \in EventIds |-> {}]
    /\ acked = {}

-----------------------------------------------------------------------------
(***************************************************************************)
(* Run and runConnection.                                                  *)
(***************************************************************************)

FetchEndpoint ==
    /\ ws = "endpoint"
    /\ ws' = "dialing"
    /\ UNCHANGED <<tokenVars, cancelled, wire, chunks, handling, stage, given, acked>>

Dial ==
    /\ ws = "dialing"
    /\ ws' \in {"open", "backoff"}
    /\ UNCHANGED <<tokenVars, cancelled, wire, chunks, handling, stage, given, acked>>

Backoff ==
    /\ ws = "backoff"
    /\ ws' = "endpoint"
    /\ UNCHANGED <<tokenVars, cancelled, wire, chunks, handling, stage, given, acked>>

\* The connection goes with what was on it and the parts that waited.
Disconnect ==
    /\ wire' = {}
    /\ chunks' = [e \in EventIds |-> {}]
    /\ handling' = NoEvent
    /\ stage' = "read"

\* Reading fails, or what was read is no frame.
ReadFails ==
    /\ ws = "open"
    /\ handling = NoEvent
    /\ ws' = "backoff"
    /\ Disconnect
    /\ UNCHANGED <<tokenVars, cancelled, given, acked>>

\* There is no endpoint, or the dial is answered with an HTTP status.
SourceFails ==
    /\ ws \in {"endpoint", "dialing"}
    /\ ws' = "ended"
    /\ UNCHANGED <<tokenVars, cancelled, wire, chunks, handling, stage, given, acked>>

\* Whatever Run waits for returns when the context is cancelled: the endpoint,
\* the dial, the timer, and the read, whose connection is closed.
SourceStops ==
    /\ cancelled
    /\ ws \notin {"ended", "down"}
    /\ handling = NoEvent
    /\ ws' = "ended"
    /\ Disconnect
    /\ UNCHANGED <<tokenVars, cancelled, given, acked>>

\* Lark: an event that is not acknowledged is sent (again).
LarkSends(e) ==
    /\ ws = "open"
    /\ e \notin acked
    /\ \A i \in 1 .. Parts[e] : <<e, i>> \notin wire
    /\ wire' = wire \union ({e} \X (1 .. Parts[e]))
    /\ UNCHANGED <<tokenVars, ws, cancelled, chunks, handling, stage, given, acked>>

-----------------------------------------------------------------------------
(***************************************************************************)
(* handleFrame and handlePayload.                                          *)
(***************************************************************************)

\* Mutant: the parts before are not looked up.
ReadPartAlone(e, i) ==
    LET whole == Parts[e] = 1
    IN  /\ ws = "open"
        /\ handling = NoEvent
        /\ <<e, i>> \in wire
        /\ wire' = wire \ {<<e, i>>}
        /\ chunks' = [chunks EXCEPT ![e] = IF whole THEN {} ELSE {i}]
        /\ handling' = IF whole THEN e ELSE NoEvent
        /\ stage' = IF whole THEN "bootstrap" ELSE "read"
        /\ UNCHANGED <<tokenVars, ws, cancelled, given, acked>>

\* Mutant: an event that is complete stays with the parts.
ReadPartKeeps(e, i) ==
    LET have == chunks[e] \union {i}
        whole == Cardinality(have) = Parts[e]
    IN  /\ ws = "open"
        /\ handling = NoEvent
        /\ <<e, i>> \in wire
        /\ wire' = wire \ {<<e, i>>}
        /\ chunks' = [chunks EXCEPT ![e] = have]
        /\ handling' = IF whole THEN e ELSE NoEvent
        /\ stage' = IF whole THEN "bootstrap" ELSE "read"
        /\ UNCHANGED <<tokenVars, ws, cancelled, given, acked>>

\* A part is kept until the others are there; the last one is handled, and
\* only its frame is acknowledged.
ReadPart(e, i) ==
    LET have == chunks[e] \union {i}
        whole == Cardinality(have) = Parts[e]
    IN  /\ ws = "open"
        /\ handling = NoEvent
        /\ <<e, i>> \in wire
        /\ wire' = wire \ {<<e, i>>}
        /\ chunks' = [chunks EXCEPT ![e] = IF whole THEN {} ELSE have]
        /\ handling' = IF whole THEN e ELSE NoEvent
        /\ stage' = IF whole THEN "bootstrap" ELSE "read"
        /\ UNCHANGED <<tokenVars, ws, cancelled, given, acked>>

\* HandleEventJSON; there is a sender where commands are executed.
IsBootstrap == Kind[handling] = "bot_added" /\ Modes # <<"local">>

SendBootstrap ==
    /\ stage = "bootstrap"
    /\ IsBootstrap
    /\ Call(Bootstrap)
    /\ stage' = "sending"
    /\ UNCHANGED <<ws, cancelled, wire, chunks, handling, given, acked>>

\* SendTextMessage has returned; its error is logged only, unless the context
\* was cancelled.
BootstrapSent ==
    /\ stage = "sending"
    /\ request[Bootstrap].step \in Returned
    /\ given' = [given EXCEPT ![handling] = {"bootstrap"}]
    /\ \/ stage' = "ack"
       \/ cancelled /\ stage' = "nack"
    /\ UNCHANGED <<tokenVars, ws, cancelled, wire, chunks, handling, acked>>

\* Any other kind of event is ErrIgnoredEvent there.  ParseMessageReceiveEvent
\* ignores what is no message for this bot.
Parse ==
    /\ stage = "bootstrap"
    /\ ~IsBootstrap
    /\ stage' = IF Kind[handling] = "message" THEN Modes[1] ELSE "ack"
    /\ UNCHANGED <<tokenVars, ws, cancelled, wire, chunks, handling, given, acked>>

LastMode == Modes[Len(Modes)]

\* Mutant: a handler that fails is the last, and the event acknowledged.
HandleUntilError ==
    /\ stage \in {"local", "remote"}
    /\ given' = [given EXCEPT ![handling] = @ \union {stage}]
    /\ stage' \in {"ack", IF stage = LastMode THEN "ack" ELSE LastMode}
    /\ UNCHANGED <<tokenVars, ws, cancelled, wire, chunks, handling, acked>>

\* combinedEventHandler: each mode in turn, whatever the one before said; an
\* error is the last word only when the context was cancelled.
Handle ==
    /\ stage \in {"local", "remote"}
    /\ given' = [given EXCEPT ![handling] = @ \union {stage}]
    /\ \/ stage' = IF stage = LastMode THEN "ack" ELSE LastMode
       \/ cancelled /\ stage' = "nack"
    /\ UNCHANGED <<tokenVars, ws, cancelled, wire, chunks, handling, acked>>

\* A handler waits for ever with the mutex of its manager: a task takes no
\* events (module Remote) or an elark does not read (module Local).
HandlerStays ==
    /\ stage \in {"local", "remote"}
    /\ stage' = "stuck"
    /\ UNCHANGED <<tokenVars, ws, cancelled, wire, chunks, handling, given, acked>>

\* ackWSFrame; the acknowledgement reaches Lark.
Ack ==
    /\ stage = "ack"
    /\ acked' = acked \union {handling}
    /\ handling' = NoEvent
    /\ stage' = "read"
    /\ UNCHANGED <<tokenVars, ws, cancelled, wire, chunks, given>>

\* It does not: the connection is broken.
AckFails ==
    /\ stage = "ack"
    /\ ws' = "backoff"
    /\ Disconnect
    /\ UNCHANGED <<tokenVars, cancelled, given, acked>>

\* The event is answered with status 500, which is no acknowledgement, and Run
\* returns the error of the context.
Nack ==
    /\ stage = "nack"
    /\ ws' = "ended"
    /\ Disconnect
    /\ UNCHANGED <<tokenVars, cancelled, given, acked>>

-----------------------------------------------------------------------------
(***************************************************************************)
(* runForeground and the service that runs it.                             *)
(***************************************************************************)

\* A signal or the failure of any service cancels the context of all.
Cancel ==
    /\ ws # "down" /\ ~cancelled
    /\ cancelled' = TRUE
    /\ UNCHANGED <<tokenVars, ws, wire, chunks, handling, stage, given, acked>>

\* The reader waits for ever with an event in hand.
HeldUp ==
    \/ stage = "stuck"
    \/ stage = "sending" /\ request[Bootstrap].step = "unanswered"

GoesDown ==
    /\ ws' = "down"
    /\ Disconnect
    /\ Forgets
    /\ UNCHANGED <<issued, revoked, cancelled, given, acked>>

\* wg.Wait returns, at the earliest after Run.  It need not: a service may wait
\* for ever, and so may the event source for its handler.
ElarkdEnds ==
    /\ ws = "ended" /\ cancelled
    /\ GoesDown

ElarkdCrashes == ws # "down" /\ GoesDown

\* KeepAlive of launchd, Restart=on-failure of systemd, or a user.
ElarkdRestarts ==
    /\ ws = "down"
    /\ ws' = "endpoint"
    /\ cancelled' = FALSE
    /\ UNCHANGED <<tokenVars, wire, chunks, handling, stage, given, acked>>

\* From a part that is read to the answer for its event.
HandleFrame == SendBootstrap \/ BootstrapSent \/ Parse \/ Handle \/ Ack \/ AckFails \/ Nack

Source ==
    \/ FetchEndpoint \/ Dial \/ Backoff \/ ReadFails \/ SourceFails \/ SourceStops
    \/ HandleFrame \/ HandlerStays

Others == Requests \ {Bootstrap}

Next ==
    \/ Source
    \/ \E e \in EventIds : LarkSends(e) \/ \E i \in 1 .. Parts[e] : ReadPart(e, i)
    \/ Cancel \/ ElarkdEnds \/ ElarkdCrashes \/ ElarkdRestarts
    \/ \E r \in Others : Call(r) /\ ws # "down" /\ UNCHANGED wsVars
    \/ \E r \in Requests : Canceled(r) /\ cancelled /\ UNCHANGED wsVars
    \/ TokenNext /\ UNCHANGED wsVars

Spec == Init /\ [][Next]_vars

\* The goroutine of Run goes on with the frame it has read, its request, the
\* bootstrap message, goes on unless Lark never answers (LarkNeverAnswers), every
\* frame on a connection is read in its turn, and Lark reads its end of it.
\* Nothing else has to happen: no other request ends, no connection is made
\* again, no handler and no process has to end or to start, and Lark need not
\* repeat an event.
FairSpec ==
    /\ Spec
    /\ WF_vars(HandleFrame)
    /\ WF_vars(RequestStep(Bootstrap) /\ UNCHANGED wsVars)
    /\ \A e \in EventIds : \A i \in 1 .. Parts[e] : SF_vars(ReadPart(e, i))

-----------------------------------------------------------------------------
TypeOK ==
    /\ TokenTypeOK
    /\ ws \in {"endpoint", "dialing", "open", "backoff", "ended", "down"}
    /\ cancelled \in BOOLEAN
    /\ wire \subseteq UNION {{e} \X (1 .. Parts[e]) : e \in EventIds}
    /\ \A e \in EventIds : chunks[e] \in (SUBSET (1 .. Parts[e])) \ {1 .. Parts[e]}
    /\ handling \in EventIds \union {NoEvent}
    /\ stage \in {"read", "bootstrap", "sending", "local", "remote", "stuck", "ack", "nack"}
    /\ stage = "read" <=> handling = NoEvent
    /\ given \in [EventIds -> SUBSET {"bootstrap", "local", "remote"}]
    /\ acked \subseteq EventIds

Enabled == {Modes[i] : i \in DOMAIN Modes}

Handled(e) ==
    CASE Kind[e] = "message" -> given[e] = Enabled
      [] Kind[e] = "bot_added" -> "remote" \in Enabled => given[e] = {"bootstrap"}
      [] OTHER -> TRUE

\* An event that Lark will not deliver again has been handled by every mode
\* that is enabled, or its bootstrap message has been tried: handleFrame
\* acknowledges last, one mode's error keeps no other from the event, and
\* neither does the end of elarkd between two of these steps; what was cut
\* short by the end of the context is answered with 500 instead.
AckedIsHandled == \A e \in acked : Handled(e)

\* An event that has come over a connection is handled, in however many parts
\* and in whatever order with those of others, unless the connection breaks or
\* elarkd stops before.  One goroutine reads for all: another event delays it,
\* and keeps it from being read only if its handler never returns or if Lark
\* never answers its bootstrap message.
EventsHandled ==
    \A e \in EventIds :
        {e} \X (1 .. Parts[e]) \subseteq wire
            ~> Handled(e) \/ HeldUp \/ ws # "open" \/ cancelled
=============================================================================
