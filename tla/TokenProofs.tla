----------------------------- MODULE TokenProofs -----------------------------
(***************************************************************************)
(* What every step of a specification that uses module Token keeps of the  *)
(* token, for any number of requests that run at the same time and any     *)
(* number of tokens.  The specification says how its steps are steps of    *)
(* the token (TokenStep); module EventsProofs does.                        *)
(***************************************************************************)
EXTENDS Token, TLAPS

\* What is in the cache was issued, and so was what a request holds; the second
\* attempt holds a token that was given to it.
CacheIssued == cache.token \in 0 .. issued

TokenHeld ==
    \A r \in Requests :
        request[r].step \in {"fetched", "sending"} =>
            /\ request[r].token \in Issued
            /\ request[r].attempt = 1 => request[r].granted

TokenInv == TokenTypeOK /\ CacheIssued /\ TokenHeld /\ RefusedOnlyIfRevoked

\* What a step can do to the token: a request is made, goes on or is given up,
\* the cache ages, Lark revokes a token, or the process ends.
TokenStep ==
    \/ \E r \in Requests : Call(r) \/ Canceled(r)
    \/ TokenNext
    \/ Forgets /\ UNCHANGED <<issued, revoked>>
    \/ UNCHANGED tokenVars

-----------------------------------------------------------------------------
Request == [step : Waiting \union Returned, attempt : 0 .. 1,
            token : 0 .. MaxTokens, granted : BOOLEAN]

\* A step that replaces one request keeps the invariant when what it leaves is
\* well formed; the others hold tokens that stay issued.
LEMMA OneRequest ==
    ASSUME TokenInv, NEW r \in Requests, NEW q \in Request,
           request' = [request EXCEPT ![r] = q],
           q.step \in {"fetched", "sending"} =>
               q.token \in 1 .. issued' /\ (q.attempt = 1 => q.granted),
           q.step = "refused" => q.granted,
           cache' \in [token : 0 .. issued', fresh : BOOLEAN],
           issued' \in issued .. MaxTokens, revoked' = revoked
    PROVE  TokenInv'
<1> USE TokenAssumption
<1>1. /\ request \in [Requests -> Request] /\ issued \in Nat /\ issued' \in Nat
      /\ revoked \subseteq Issued
  BY DEF TokenInv, TokenTypeOK, Request
<1>2. Issued \subseteq Issued'
  BY <1>1 DEF Issued
<1>3. TokenTypeOK'
  BY <1>1, <1>2 DEF TokenTypeOK, Request
<1>a. CacheIssued'
  BY DEF CacheIssued
<1>4. \A s \in Requests : request'[s] = IF s = r THEN q ELSE request[s]
  BY <1>1
<1>5. TokenHeld'
  BY <1>1, <1>2, <1>4 DEF TokenHeld, TokenInv, Issued
<1>6. RefusedOnlyIfRevoked'
  BY <1>4 DEF RefusedOnlyIfRevoked, TokenInv
<1> QED BY <1>3, <1>a, <1>5, <1>6 DEF TokenInv

\* The two requests that the code makes out of nothing.
LEMMA NewRequestFacts ==
    /\ NewRequest \in Request /\ NewRequest.step = "token"
    /\ Idle \in Request /\ Idle.step = "returned"
<1>1. NewRequest \in Request /\ NewRequest.step = "token"
  BY TokenAssumption DEF NewRequest, Request, Waiting, NoToken
<1> QED BY <1>1 DEF Idle, Request, Returned

LEMMA NoCacheFacts ==
    ASSUME NEW n \in Nat PROVE NoCache \in [token : 0 .. n, fresh : BOOLEAN]
  BY DEF NoCache, NoToken

LEMMA InitTokenInv == TokenInit => TokenInv
<1> SUFFICES ASSUME TokenInit PROVE TokenInv
  OBVIOUS
<1>2. TokenTypeOK
  BY NewRequestFacts, NoCacheFacts, TokenAssumption DEF TokenInit, TokenTypeOK, Request
<1>3. CacheIssued /\ TokenHeld /\ RefusedOnlyIfRevoked
  BY NewRequestFacts
     DEF TokenInit, CacheIssued, TokenHeld, RefusedOnlyIfRevoked, NoCache, NoToken
<1> QED BY <1>2, <1>3 DEF TokenInv

LEMMA RequestStepInv ==
    ASSUME TokenInv, NEW r \in Requests,
           RequestStep(r) \/ LarkNeverAnswers(r) \/ Call(r) \/ Canceled(r)
    PROVE  TokenInv'
<1> USE TokenAssumption
<1>1. /\ request \in [Requests -> Request] /\ issued \in 0 .. MaxTokens
      /\ cache \in [token : 0 .. issued, fresh : BOOLEAN]
      /\ revoked \subseteq 1 .. issued
  BY DEF TokenInv, TokenTypeOK, CacheIssued, Request, Issued
<1> DEFINE req == request[r]
<1>2. /\ req \in Request /\ issued \in Nat /\ issued \in issued .. MaxTokens
      /\ req.step \in {"fetched", "sending"} =>
             req.token \in 1 .. issued /\ (req.attempt = 1 => req.granted)
      /\ req.step = "refused" => req.granted
  BY <1>1 DEF TokenInv, TokenHeld, RefusedOnlyIfRevoked, Issued
<1>3. NewRequest \in Request /\ NewRequest.step = "token"
  BY NewRequestFacts
<1>4. CASE Call(r)
  BY <1>1, <1>2, <1>3, <1>4, OneRequest DEF Call
<1>5. CASE UseCache(r)
  <2> DEFINE q == [req EXCEPT !.step = "sending", !.token = cache.token]
  <2>1. request' = [request EXCEPT ![r] = q]
    BY <1>1, <1>5 DEF UseCache, Request
  <2>2. q \in Request /\ q.step = "sending" /\ q.token = cache.token /\ q.attempt = 0
    <3>1. cache.token \in 0 .. MaxTokens
      BY <1>1
    <3> QED BY <1>2, <1>5, <3>1 DEF UseCache, Request, Waiting
  <2>3. cache.token \in 1 .. issued
    BY <1>1, <1>5 DEF UseCache, CacheIsUsable, NoToken, Issued
  <2>4. UNCHANGED <<cache, issued, revoked>>
    BY <1>5 DEF UseCache
  <2>5. cache' \in [token : 0 .. issued', fresh : BOOLEAN] /\ issued' \in issued .. MaxTokens
    BY <1>1, <1>2, <2>4
  <2> HIDE DEF q
  <2>6. q.token \in 1 .. issued' /\ revoked' = revoked
    BY <2>2, <2>3, <2>4
  <2>7. (q.attempt = 1 => q.granted) /\ (q.step = "refused" => q.granted)
    BY <2>2
  <2> QED BY <2>1, <2>2, <2>5, <2>6, <2>7, OneRequest
<1>6. CASE Fetch(r)
  <2> DEFINE q == [req EXCEPT !.step = "fetching"]
  <2>1. request' = [request EXCEPT ![r] = q]
    BY <1>1, <1>6 DEF Fetch, Moves, Request
  <2>2. q \in Request /\ q.step = "fetching"
    BY <1>2 DEF Request, Waiting
  <2> QED BY <1>1, <1>2, <1>6, <2>1, <2>2, OneRequest DEF Fetch
<1>7. CASE LarkIssues(r)
  <2>1. PICK token \in (Issued \ revoked) \union ({issued + 1} \intersect Tokens) :
          /\ request' = [request EXCEPT ![r].step = "fetched", ![r].token = token,
                                        ![r].granted = request[r].attempt = 1]
          /\ issued' = IF token > issued THEN token ELSE issued
    BY <1>7 DEF LarkIssues
  <2>2. token \in 1 .. MaxTokens /\ token \in 1 .. issued' /\ issued' \in issued .. MaxTokens
    BY <1>1, <1>2, <2>1 DEF Issued, Tokens
  <2>a. PICK second \in BOOLEAN : second = (request[r].attempt = 1)
    OBVIOUS
  <2> DEFINE q == [req EXCEPT !.step = "fetched", !.token = token, !.granted = second]
  <2>3. request' = [request EXCEPT ![r] = q]
    BY <1>1, <2>1, <2>a DEF Request
  <2>4. /\ q \in Request /\ q.step = "fetched" /\ q.token = token
        /\ q.attempt = req.attempt /\ q.granted = second
    <3>1. q \in Request
      <4>1. token \in 0 .. MaxTokens /\ "fetched" \in Waiting
        BY <2>2 DEF Waiting
      <4> QED BY <1>2, <4>1 DEF Request
    <3>2. q.step = "fetched" /\ q.token = token /\ q.attempt = req.attempt
      BY <1>2 DEF Request
    <3>3. q.granted = second
      BY <1>2 DEF Request
    <3> QED BY <3>1, <3>2, <3>3
  <2>b. q.attempt = 1 => q.granted
    BY <2>4, <2>a, Zenon
  <2>5. cache' \in [token : 0 .. issued', fresh : BOOLEAN] /\ revoked' = revoked
    <3>1. cache' = cache /\ revoked' = revoked
      BY <1>7 DEF LarkIssues
    <3>2. 0 .. issued \subseteq 0 .. issued'
      BY <1>2, <2>2
    <3> QED BY <1>1, <3>1, <3>2
  <2> HIDE DEF q
  <2> QED BY <2>2, <2>3, <2>4, <2>b, <2>5, OneRequest
<1>8. CASE StoreToken(r)
  <2> DEFINE q == [req EXCEPT !.step = "sending"]
  <2>1. request' = [request EXCEPT ![r] = q]
    BY <1>1, <1>8 DEF StoreToken, Moves, Request
  <2>2. /\ q \in Request /\ q.step = "sending" /\ q.token \in 1 .. issued
        /\ q.attempt = 1 => q.granted
    BY <1>2, <1>8 DEF StoreToken, Request, Waiting
  <2>3. cache' \in [token : 0 .. issued, fresh : BOOLEAN]
    BY <1>2, <1>8 DEF StoreToken
  <2> QED BY <1>2, <1>8, <2>1, <2>2, <2>3, OneRequest DEF StoreToken
<1>9. ASSUME NEW step \in Returned, Returns(r, step), step = "refused" => req.granted,
             UNCHANGED <<cache, issued, revoked>>
      PROVE  TokenInv'
  <2> DEFINE q == [NewRequest EXCEPT !.step = step,
                                     !.granted = step = "refused" /\ request[r].granted]
  <2>1. request' = [request EXCEPT ![r] = q]
    BY <1>9 DEF Returns
  <2>2. q \in Request /\ q.step = step /\ (q.step = "refused" => q.granted)
    BY <1>2, <1>3, <1>9 DEF Request, Returned
  <2> HIDE DEF q
  <2> QED BY <1>1, <1>2, <1>9, <2>1, <2>2, OneRequest DEF Returned
<1>10. CASE Succeeds(r)
  BY <1>9, <1>10 DEF Succeeds, Returned
<1>11. CASE Refused(r)
  <2>1. CASE req.attempt = 0
    <3> DEFINE q == [NewRequest EXCEPT !.attempt = 1]
    <3>1. request' = [request EXCEPT ![r] = q]
      BY <1>11, <2>1 DEF Refused
    <3>2. q \in Request /\ q.step = "token"
      BY <1>3 DEF Request
    <3>3. cache' \in [token : 0 .. issued, fresh : BOOLEAN]
      BY <1>1, <1>2, <1>11, <2>1, NoCacheFacts DEF Refused, Invalidate
    <3> HIDE DEF q
    <3> QED BY <1>2, <1>11, <3>1, <3>2, <3>3, OneRequest DEF Refused
  <2>2. CASE req.attempt = 1
    BY <1>2, <1>9, <1>11, <2>2 DEF Refused, Returned
  <2> QED BY <1>2, <2>1, <2>2 DEF Request
<1>12. CASE Fails(r) \/ Canceled(r)
  BY <1>9, <1>12 DEF Fails, Canceled, Returned
<1>13. CASE Misread(r)
  <2> DEFINE q == [NewRequest EXCEPT !.attempt = 1]
  <2>1. request' = [request EXCEPT ![r] = q]
    BY <1>13 DEF Misread
  <2>2. q \in Request /\ q.step = "token"
    BY <1>3 DEF Request
  <2>3. cache' \in [token : 0 .. issued, fresh : BOOLEAN]
    BY <1>1, <1>2, <1>13, NoCacheFacts DEF Misread, Invalidate
  <2> HIDE DEF q
  <2> QED BY <1>2, <1>13, <2>1, <2>2, <2>3, OneRequest DEF Misread
<1>14. CASE LarkNeverAnswers(r)
  <2> DEFINE q == [NewRequest EXCEPT !.step = "unanswered"]
  <2>1. request' = [request EXCEPT ![r] = q] /\ UNCHANGED <<cache, issued, revoked>>
    BY <1>14 DEF LarkNeverAnswers
  <2>2. q \in Request /\ q.step = "unanswered"
    BY <1>3 DEF Request, Waiting
  <2> HIDE DEF q
  <2> QED BY <1>1, <1>2, <2>1, <2>2, OneRequest
<1> QED
  BY <1>4, <1>5, <1>6, <1>7, <1>8, <1>10, <1>11, <1>12, <1>13, <1>14 DEF RequestStep

LEMMA ForgetsInv ==
    ASSUME TokenInv, Forgets, UNCHANGED <<issued, revoked>>
    PROVE  TokenInv'
<1>2. request' = [r \in Requests |-> Idle] /\ cache' = NoCache
  BY DEF Forgets
<1>3. TokenTypeOK'
  BY NewRequestFacts, NoCacheFacts, <1>2, TokenAssumption
     DEF TokenInv, TokenTypeOK, Request, Issued
<1>4. CacheIssued' /\ TokenHeld' /\ RefusedOnlyIfRevoked'
  BY NewRequestFacts, <1>2, TokenAssumption
     DEF CacheIssued, TokenHeld, RefusedOnlyIfRevoked, NoCache, NoToken, TokenInv, TokenTypeOK
<1> QED BY <1>3, <1>4 DEF TokenInv

LEMMA TokenStepInv == TokenInv /\ TokenStep => TokenInv'
<1> SUFFICES ASSUME TokenInv, TokenStep PROVE TokenInv'
  OBVIOUS
<1> USE TokenAssumption
<1>1. CASE CacheAges
  BY <1>1 DEF CacheAges, TokenInv, TokenTypeOK, CacheIssued, TokenHeld,
              RefusedOnlyIfRevoked, Issued
<1>2. ASSUME NEW token \in Tokens, Revoke(token) PROVE TokenInv'
  BY <1>2 DEF Revoke, TokenInv, TokenTypeOK, CacheIssued, TokenHeld,
              RefusedOnlyIfRevoked, Issued
<1>3. CASE UNCHANGED tokenVars
  BY <1>3 DEF tokenVars, TokenInv, TokenTypeOK, CacheIssued, TokenHeld,
              RefusedOnlyIfRevoked, Issued
<1> QED
  BY <1>1, <1>2, <1>3, RequestStepInv, ForgetsInv DEF TokenStep, TokenNext

\* Only the refusal of a token takes that token out of the cache, and a refused
\* token is revoked, unless the answer was misread.
LEMMA TokenStepKeeps ==
    ASSUME TokenInv, TokenStep, cache.token # NoToken, cache'.token = NoToken
    PROVE  \/ cache.token \in revoked
           \/ \E r \in Requests : Misread(r) /\ request[r].token = cache.token
           \/ Forgets
<1>1. ASSUME NEW r \in Requests, StoreToken(r) PROVE FALSE
  BY <1>1, TokenAssumption
     DEF StoreToken, TokenInv, TokenTypeOK, TokenHeld, Issued, NoToken
<1>2. ASSUME NEW r \in Requests, Refused(r) PROVE cache.token \in revoked
  BY <1>2 DEF Refused, Invalidate
<1>3. CASE UNCHANGED cache
  BY <1>3
<1>4. CASE CacheAges
  BY <1>4 DEF CacheAges, TokenInv, TokenTypeOK
<1>5. ASSUME NEW r \in Requests, RequestStep(r), ~StoreToken(r), ~Refused(r), ~Misread(r)
      PROVE  UNCHANGED cache
  BY <1>5 DEF RequestStep, UseCache, Fetch, LarkIssues, Succeeds, Fails
<1>6. ASSUME NEW r \in Requests, Misread(r) PROVE request[r].token = cache.token
  BY <1>6 DEF Misread, Invalidate
<1>7. ASSUME NEW r \in Requests, LarkNeverAnswers(r) \/ Call(r) \/ Canceled(r)
      PROVE  UNCHANGED cache
  BY <1>7 DEF LarkNeverAnswers, Call, Canceled
<1> QED
  BY <1>1, <1>2, <1>3, <1>4, <1>5, <1>6, <1>7 DEF TokenStep, TokenNext, Revoke, tokenVars
=============================================================================
