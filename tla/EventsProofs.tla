---------------------------- MODULE EventsProofs ----------------------------
(***************************************************************************)
(* Theorems about the event source and the token it shares with the other  *)
(* requests, for every set of events of any kind and any number of parts,  *)
(* for each choice of modes, and however often connections break and       *)
(* elarkd crashes or ends.                                                 *)
(***************************************************************************)
EXTENDS Events, TokenProofs, FiniteSetTheorems

\* What an event that Lark may still deliver has been given to.
GivenBounds ==
    \A e \in EventIds :
        CASE Kind[e] = "message" -> given[e] \subseteq Enabled
          [] Kind[e] = "bot_added" -> given[e] \subseteq {"bootstrap"}
          [] OTHER -> TRUE

\* How far the event in hand has come: each handler has its turn, the first
\* has had its own when the last one has, and what is left to acknowledge has
\* been handled.
StageMatches ==
    /\ stage = "sending" => IsBootstrap
    /\ stage \in {"local", "remote"} =>
           /\ Kind[handling] = "message"
           /\ stage \in Enabled
           /\ Enabled \ given[handling] \subseteq {stage, LastMode}
    /\ stage = "ack" => Handled(handling)

EventsInv == TypeOK /\ TokenInv /\ GivenBounds /\ StageMatches /\ AckedIsHandled

-----------------------------------------------------------------------------
(***************************************************************************)
(* Lemmas about the constants and the operators.                           *)
(***************************************************************************)

LEMMA ModesFacts ==
    /\ Modes[1] \in Enabled /\ LastMode \in Enabled
    /\ Enabled = {Modes[1], LastMode}
    /\ Enabled \subseteq {"local", "remote"}
    /\ Modes # <<"local">> <=> "remote" \in Enabled
<1>1. CASE Modes = <<"local">>
  BY <1>1 DEF Enabled, LastMode
<1>2. CASE Modes = <<"remote">>
  BY <1>2 DEF Enabled, LastMode
<1>3. CASE Modes = <<"local", "remote">>
  BY <1>3 DEF Enabled, LastMode
<1> QED BY <1>1, <1>2, <1>3, EventsAssumption DEF EventsAssumption

\* The parts are all there exactly when they are as many as there are parts.
LEMMA WholeIsAll ==
    ASSUME NEW n \in Nat, NEW have \in SUBSET (1 .. n)
    PROVE  Cardinality(have) = n <=> have = 1 .. n
<1>1. IsFiniteSet(1 .. n) /\ Cardinality(1 .. n) = n
  BY FS_Interval
<1> QED BY <1>1, FS_Subset

\* Every step of the event source is a step of the token.
LEMMA NextTokenStep == [Next]_vars => TokenStep
<1> SUFFICES ASSUME [Next]_vars PROVE TokenStep
  OBVIOUS
<1>1. CASE Source
  BY <1>1, EventsAssumption
     DEF Source, FetchEndpoint, Dial, Backoff, ReadFails, SourceFails, SourceStops,
         HandleFrame, SendBootstrap, BootstrapSent, Parse, Handle, HandlerStays, Ack,
         AckFails, Nack, TokenStep
<1>2. ASSUME NEW e \in EventIds, LarkSends(e) \/ \E i \in 1 .. Parts[e] : ReadPart(e, i)
      PROVE  TokenStep
  BY <1>2 DEF LarkSends, ReadPart, TokenStep
<1>3. CASE Cancel \/ ElarkdEnds \/ ElarkdCrashes \/ ElarkdRestarts
  BY <1>3 DEF Cancel, ElarkdEnds, ElarkdCrashes, GoesDown, ElarkdRestarts, TokenStep
<1>4. CASE UNCHANGED vars
  BY <1>4 DEF vars, TokenStep
<1> QED BY <1>1, <1>2, <1>3, <1>4 DEF Next, Others, TokenStep

-----------------------------------------------------------------------------
(***************************************************************************)
(* The inductive invariant.                                                *)
(***************************************************************************)

LEMMA InitEventsInv == Init => EventsInv
<1> SUFFICES ASSUME Init PROVE EventsInv
  OBVIOUS
<1>1. TokenInv
  BY InitTokenInv DEF Init
<1>2. TypeOK
  <2>1. \A e \in EventIds : {} # 1 .. Parts[e]
    BY EventsAssumption DEF EventsAssumption
  <2> QED BY <1>1, <2>1, EventsAssumption DEF Init, TypeOK, TokenInv, EventsAssumption
<1> QED
  BY <1>1, <1>2 DEF EventsInv, Init, GivenBounds, StageMatches, AckedIsHandled

\* A step that leaves wsVars alone.
LEMMA SourceStutters ==
    ASSUME EventsInv, TokenInv', UNCHANGED wsVars
    PROVE  EventsInv'
  BY DEF EventsInv, wsVars, TypeOK, TokenInv, GivenBounds, StageMatches, AckedIsHandled,
         IsBootstrap, Handled

\* A connection that is lost takes the event in hand with it.
LEMMA DisconnectInv ==
    ASSUME EventsInv, TokenInv', Disconnect, UNCHANGED <<given, acked>>,
           ws' \in {"backoff", "ended", "down"}, cancelled' = cancelled
    PROVE  EventsInv'
<1>1. TypeOK'
  <2>1. \A e \in EventIds : {} # 1 .. Parts[e]
    BY EventsAssumption DEF EventsAssumption
  <2> QED BY <2>1 DEF EventsInv, TypeOK, TokenInv, Disconnect
<1> QED
  BY <1>1 DEF EventsInv, Disconnect, GivenBounds, StageMatches, AckedIsHandled, Handled

LEMMA NextEventsInv == EventsInv /\ [Next]_vars => EventsInv'
<1> SUFFICES ASSUME EventsInv, [Next]_vars PROVE EventsInv'
  OBVIOUS
<1> USE EventsAssumption DEF EventsAssumption
<1>0. TokenInv'
  BY NextTokenStep, TokenStepInv DEF EventsInv
<1>1. CASE FetchEndpoint \/ Backoff \/ SourceFails \/ Cancel \/ ElarkdRestarts
  BY <1>0, <1>1 DEF FetchEndpoint, Backoff, SourceFails, Cancel, ElarkdRestarts, EventsInv,
                    TypeOK, TokenInv, GivenBounds, StageMatches, AckedIsHandled,
                    IsBootstrap, Handled
<1>2. CASE Dial \/ HandlerStays
  BY <1>0, <1>2 DEF Dial, HandlerStays, EventsInv, TypeOK, TokenInv, GivenBounds,
                    StageMatches, AckedIsHandled, IsBootstrap, Handled
<1>3. CASE ReadFails \/ SourceStops \/ AckFails \/ Nack \/ ElarkdEnds \/ ElarkdCrashes
  BY <1>0, <1>3, DisconnectInv
     DEF ReadFails, SourceStops, AckFails, Nack, ElarkdEnds, ElarkdCrashes, GoesDown
<1>4. ASSUME NEW e \in EventIds, LarkSends(e) PROVE EventsInv'
  <2>1. wire' \subseteq UNION {{d} \X (1 .. Parts[d]) : d \in EventIds}
    BY <1>4 DEF LarkSends, EventsInv, TypeOK
  <2> QED
    BY <1>0, <1>4, <2>1 DEF LarkSends, EventsInv, TypeOK, TokenInv, GivenBounds,
                            StageMatches, AckedIsHandled, IsBootstrap, Handled
<1>5. ASSUME NEW e \in EventIds, NEW i \in 1 .. Parts[e], ReadPart(e, i) PROVE EventsInv'
  <2> DEFINE have == chunks[e] \union {i}
             whole == Cardinality(have) = Parts[e]
  <2>1. have \in SUBSET (1 .. Parts[e])
    BY DEF EventsInv, TypeOK
  <2>2. whole <=> have = 1 .. Parts[e]
    BY <2>1, WholeIsAll
  <2>3. {} # 1 .. Parts[e]
    OBVIOUS
  <2>4. /\ chunks' = [chunks EXCEPT ![e] = IF whole THEN {} ELSE have]
        /\ handling' = IF whole THEN e ELSE NoEvent
        /\ stage' = IF whole THEN "bootstrap" ELSE "read"
        /\ wire' \subseteq wire
        /\ UNCHANGED <<tokenVars, ws, cancelled, given, acked>>
    BY <1>5 DEF ReadPart
  <2> HIDE DEF whole, have
  <2>5. ASSUME NEW d \in EventIds
        PROVE  chunks'[d] \in (SUBSET (1 .. Parts[d])) \ {1 .. Parts[d]}
    BY <2>1, <2>2, <2>3, <2>4 DEF EventsInv, TypeOK
  <2>6. TypeOK'
    BY <1>0, <2>4, <2>5 DEF EventsInv, TypeOK, TokenInv
  <2> QED
    BY <1>0, <2>4, <2>6 DEF EventsInv, GivenBounds, StageMatches, AckedIsHandled, Handled
<1>6. CASE SendBootstrap
  BY <1>0, <1>6 DEF SendBootstrap, EventsInv, TypeOK, TokenInv, GivenBounds, StageMatches,
                    AckedIsHandled, IsBootstrap, Handled
<1>7. CASE BootstrapSent
  <2>1. /\ handling \in EventIds /\ Kind[handling] = "bot_added"
        /\ given' = [given EXCEPT ![handling] = {"bootstrap"}]
        /\ stage' \in {"ack", "nack"}
        /\ UNCHANGED <<tokenVars, ws, cancelled, wire, chunks, handling, acked>>
    BY <1>7 DEF BootstrapSent, EventsInv, TypeOK, StageMatches, IsBootstrap
  <2>2. TypeOK'
    BY <1>0, <2>1 DEF EventsInv, TypeOK, TokenInv
  <2> QED
    BY <1>0, <2>1, <2>2 DEF EventsInv, TypeOK, GivenBounds, StageMatches, AckedIsHandled, Handled
<1>8. CASE Parse
  <2>1. CASE Kind[handling] = "message"
    <3>1. stage' = Modes[1] /\ handling \in EventIds
      BY <1>8, <2>1 DEF Parse, EventsInv, TypeOK
    <3>2. TypeOK'
      BY <1>0, <1>8, <3>1, ModesFacts DEF Parse, EventsInv, TypeOK, TokenInv
    <3> QED
      BY <1>0, <1>8, <2>1, <3>1, <3>2, ModesFacts
         DEF Parse, EventsInv, GivenBounds, StageMatches, AckedIsHandled, Handled
  <2>2. CASE Kind[handling] # "message"
    <3>1. stage' = "ack" /\ handling \in EventIds
      BY <1>8, <2>2 DEF Parse, EventsInv, TypeOK
    <3>2. TypeOK'
      BY <1>0, <1>8, <3>1 DEF Parse, EventsInv, TypeOK, TokenInv
    <3>3. Handled(handling)
      BY <1>8, <2>2, ModesFacts DEF Parse, IsBootstrap, Handled
    <3> QED
      BY <1>0, <1>8, <3>1, <3>2, <3>3
         DEF Parse, EventsInv, GivenBounds, StageMatches, AckedIsHandled, Handled
  <2> QED BY <2>1, <2>2
<1>9. CASE Handle
  <2>1. /\ handling \in EventIds /\ Kind[handling] = "message" /\ stage \in Enabled
        /\ Enabled \ given[handling] \subseteq {stage, LastMode}
        /\ given[handling] \subseteq Enabled
        /\ given' = [given EXCEPT ![handling] = @ \union {stage}]
        /\ stage' \in {IF stage = LastMode THEN "ack" ELSE LastMode, "nack"}
        /\ UNCHANGED <<tokenVars, ws, cancelled, wire, chunks, handling, acked>>
    BY <1>9 DEF Handle, EventsInv, TypeOK, StageMatches, GivenBounds
  <2>2. given'[handling] = given[handling] \union {stage}
    BY <2>1 DEF EventsInv, TypeOK
  <2>3. TypeOK'
    BY <1>0, <1>9, <2>1, <2>2, ModesFacts DEF EventsInv, TypeOK, TokenInv
  <2>4. GivenBounds'
    BY <2>1, <2>2 DEF EventsInv, TypeOK, GivenBounds
  <2>5. StageMatches'
    BY <2>1, <2>2, ModesFacts DEF StageMatches, Handled
  <2>6. AckedIsHandled'
    BY <2>1, <2>2 DEF EventsInv, TypeOK, AckedIsHandled, Handled
  <2> QED BY <1>0, <2>3, <2>4, <2>5, <2>6 DEF EventsInv
<1>10. CASE Ack
  BY <1>0, <1>10 DEF Ack, EventsInv, TypeOK, TokenInv, GivenBounds, StageMatches,
                     AckedIsHandled, IsBootstrap, Handled
<1>11. CASE UNCHANGED wsVars
  BY <1>0, <1>11, SourceStutters
<1> QED
  BY <1>1, <1>2, <1>3, <1>4, <1>5, <1>6, <1>7, <1>8, <1>9, <1>10, <1>11
     DEF Next, Source, HandleFrame, vars

THEOREM SpecEventsInv == Spec => []EventsInv
  BY InitEventsInv, NextEventsInv, PTL DEF Spec

-----------------------------------------------------------------------------
(***************************************************************************)
(* The theorems.                                                           *)
(***************************************************************************)

\* The variables of the event source, of the client and of Lark stay in their
\* types: an event is in hand exactly while something is done with it, and the
\* parts that wait are never all the parts (handlePayload in
\* lark_websocket_event_source.go).
THEOREM SpecTypeOK == Spec => []TypeOK
<1>1. EventsInv => TypeOK
  BY DEF EventsInv
<1> QED BY <1>1, SpecEventsInv, PTL

\* However many requests race for the token, and however late an answer is
\* stored, a request gives up only when Lark revokes what it gave to this very
\* attempt (doAuthorizedJSON in client.go).
THEOREM SpecRefusedOnlyIfRevoked == Spec => []RefusedOnlyIfRevoked
<1>1. EventsInv => RefusedOnlyIfRevoked
  BY DEF EventsInv, TokenInv
<1> QED BY <1>1, SpecEventsInv, PTL

\* No request that was refused with an older token takes one that Lark accepts
\* out of the cache (invalidateTenantToken in client.go).
THEOREM SpecGoodTokenKept == Spec => GoodTokenKept
<1> DEFINE Keeps == cache.token # NoToken /\ cache'.token = NoToken =>
                        \/ cache.token \in revoked
                        \/ \E r \in Requests : Misread(r) /\ request[r].token = cache.token
                        \/ Forgets
<1>1. EventsInv /\ [Next]_vars => [Keeps]_tokenVars
  BY NextTokenStep, TokenStepKeeps DEF EventsInv
<1> QED BY <1>1, SpecEventsInv, PTL DEF Spec, GoodTokenKept

\* What is acknowledged has been handled, by each mode that is enabled or by
\* the bootstrap message, however the steps of handleFrame and the end of the
\* process fall (handleFrame in lark_websocket_event_source.go,
\* combinedEventHandler in main.go).
THEOREM SpecAckedIsHandled == Spec => []AckedIsHandled
<1>1. EventsInv => AckedIsHandled
  BY DEF EventsInv
<1> QED BY <1>1, SpecEventsInv, PTL
=============================================================================
