-------------------------------- MODULE Token --------------------------------
(***************************************************************************)
(* The tenant access token of the Lark client (internal/lark/client.go):   *)
(* requests that run at the same time, the token they share, and the       *)
(* second attempt of a request whose token was refused.                    *)
(*                                                                         *)
(* The mutex of the client is held only to read and to write the cache, so *)
(* another request can come between any two steps.  Lark gives out tokens, *)
(* the same one again or a new one, and can revoke one at any time; a      *)
(* revoked token stays revoked.  Tokens are numbered as Lark issues them,  *)
(* 0 is no token.  http.DefaultClient has no timeout: a request that Lark  *)
(* never answers waits until its context is cancelled.                     *)
(***************************************************************************)
EXTENDS Integers

CONSTANTS
    Requests,    \* callers of doAuthorizedJSON, each one may call it again
    MaxTokens    \* bound: tokens that Lark issues

ASSUME TokenAssumption == MaxTokens \in Nat \ {0}

VARIABLES
    cache,       \* tenantToken, and whether it is before tokenRefreshAt
    request,     \* request: where it is, its attempt and the token it holds
    issued,      \* Lark: the number of tokens issued
    revoked      \* Lark: the tokens it no longer accepts

tokenVars == <<cache, request, issued, revoked>>

NoToken == 0
Tokens == 1 .. MaxTokens
Issued == 1 .. issued
Waiting == {"token", "fetching", "fetched", "sending", "unanswered"}
Returned == {"returned", "refused"}

\* granted: Lark gave the token to the second attempt, and accepted it then.
NewRequest == [step |-> "token", attempt |-> 0, token |-> NoToken, granted |-> FALSE]

NoCache == [token |-> NoToken, fresh |-> FALSE]
\* No request, or one that has returned and left nothing.
Idle == [NewRequest EXCEPT !.step = "returned"]

TokenInit ==
    /\ cache = NoCache
    /\ request = [r \in Requests |-> Idle]
    /\ issued = 0
    /\ revoked = {}

Moves(r, step) == request' = [request EXCEPT ![r].step = step]

\* What is left of a request that has returned, with or without an answer.
Returns(r, step) ==
    request' = [request EXCEPT ![r] = [NewRequest EXCEPT
                    !.step = step, !.granted = step = "refused" /\ request[r].granted]]

-----------------------------------------------------------------------------
(***************************************************************************)
(* doAuthorizedJSON and tenantAccessToken.                                 *)
(***************************************************************************)
Call(r) ==
    /\ request[r].step \in Returned
    /\ request' = [request EXCEPT ![r] = NewRequest]
    /\ UNCHANGED <<cache, issued, revoked>>

CacheIsUsable == cache.token # NoToken /\ cache.fresh

\* Mutant: the second attempt takes what is in the cache.
UseCacheAlways(r) ==
    /\ request[r].step = "token"
    /\ IF CacheIsUsable
       THEN request' = [request EXCEPT ![r].step = "sending", ![r].token = cache.token]
       ELSE Moves(r, "fetching")
    /\ UNCHANGED <<cache, issued, revoked>>

UseCache(r) ==
    /\ request[r].step = "token"
    /\ request[r].attempt = 0
    /\ CacheIsUsable
    /\ request' = [request EXCEPT ![r].step = "sending", ![r].token = cache.token]
    /\ UNCHANGED <<cache, issued, revoked>>

\* The second attempt always fetches; nobody waits for the fetch of another.
Fetch(r) ==
    /\ request[r].step = "token"
    /\ request[r].attempt = 1 \/ ~CacheIsUsable
    /\ Moves(r, "fetching")
    /\ UNCHANGED <<cache, issued, revoked>>

\* Lark's answer to the fetch, which is on its way until it is stored.
LarkIssues(r) ==
    /\ request[r].step = "fetching"
    /\ \E token \in (Issued \ revoked) \union ({issued + 1} \intersect Tokens) :
          /\ request' = [request EXCEPT ![r].step = "fetched", ![r].token = token,
                                        ![r].granted = request[r].attempt = 1]
          /\ issued' = IF token > issued THEN token ELSE issued
    /\ UNCHANGED <<cache, revoked>>

\* The answer that is stored last wins, whenever Lark gave it.
StoreToken(r) ==
    /\ request[r].step = "fetched"
    /\ cache' = [token |-> request[r].token, fresh |-> TRUE]
    /\ Moves(r, "sending")
    /\ UNCHANGED <<issued, revoked>>

-----------------------------------------------------------------------------
(***************************************************************************)
(* doJSONWithToken: what comes of the request.                             *)
(***************************************************************************)
Succeeds(r) ==
    /\ request[r].step = "sending"
    /\ request[r].token \notin revoked
    /\ Returns(r, "returned")
    /\ UNCHANGED <<cache, issued, revoked>>

\* Mutant: whatever token is in the cache is taken out.
InvalidateAny(token) == NoCache

\* invalidateTenantToken: only the token that was refused is taken out.
Invalidate(token) ==
    IF cache.token = token THEN NoCache ELSE cache

Refused(r) ==
    /\ request[r].step = "sending"
    /\ request[r].token \in revoked
    /\ IF request[r].attempt = 0
       THEN /\ cache' = Invalidate(request[r].token)
            /\ request' = [request EXCEPT ![r] = [NewRequest EXCEPT !.attempt = 1]]
       ELSE /\ Returns(r, "refused")
            /\ UNCHANGED cache
    /\ UNCHANGED <<issued, revoked>>

\* An answer about something else that TokenExpired takes for an expired token,
\* by the words of its message.
Misread(r) ==
    /\ request[r].step = "sending"
    /\ request[r].attempt = 0
    /\ cache' = Invalidate(request[r].token)
    /\ request' = [request EXCEPT ![r] = [NewRequest EXCEPT !.attempt = 1]]
    /\ UNCHANGED <<issued, revoked>>

\* The network or Lark fails, for the request or for the fetch.
Fails(r) ==
    /\ request[r].step \in {"fetching", "sending"}
    /\ Returns(r, "returned")
    /\ UNCHANGED <<cache, issued, revoked>>

\* What the request holds no longer matters.
LarkNeverAnswers(r) ==
    /\ request[r].step \in {"fetching", "sending"}
    /\ request' = [request EXCEPT ![r] = [NewRequest EXCEPT !.step = "unanswered"]]
    /\ UNCHANGED <<cache, issued, revoked>>

\* The context of a request that waits for ever is cancelled.
Canceled(r) ==
    /\ request[r].step = "unanswered"
    /\ Returns(r, "returned")
    /\ UNCHANGED <<cache, issued, revoked>>

-----------------------------------------------------------------------------
\* now is past tokenRefreshAt.
CacheAges ==
    /\ cache.fresh
    /\ cache' = [cache EXCEPT !.fresh = FALSE]
    /\ UNCHANGED <<request, issued, revoked>>

\* Lark can always issue a token that it accepts.
Revoke(token) ==
    /\ token \in Issued \ revoked
    /\ issued < MaxTokens \/ Issued \ revoked # {token}
    /\ revoked' = revoked \union {token}
    /\ UNCHANGED <<cache, request, issued>>

RequestStep(r) ==
    \/ UseCache(r) \/ Fetch(r) \/ LarkIssues(r) \/ StoreToken(r)
    \/ Succeeds(r) \/ Refused(r) \/ Misread(r) \/ Fails(r)

\* The process has ended, and what it held is gone.
Forgets == cache' = NoCache /\ request' = [r \in Requests |-> Idle]

TokenNext ==
    \/ \E r \in Requests : RequestStep(r) \/ LarkNeverAnswers(r)
    \/ CacheAges
    \/ \E token \in Tokens : Revoke(token)

-----------------------------------------------------------------------------
TokenTypeOK ==
    /\ cache \in [token : 0 .. MaxTokens, fresh : BOOLEAN]
    /\ request \in [Requests -> [step : Waiting \union Returned, attempt : 0 .. 1,
                                 token : 0 .. MaxTokens, granted : BOOLEAN]]
    /\ issued \in 0 .. MaxTokens
    /\ revoked \subseteq Issued

\* A request gives up for its token only if Lark has revoked a token that it
\* had given to this very attempt: a stale token in the cache, which a slow
\* fetch of another request can put back after it was taken out, costs an
\* attempt but never the request (doAuthorizedJSON).
RefusedOnlyIfRevoked == \A r \in Requests : request[r].step = "refused" => request[r].granted

\* A token that Lark still accepts is never taken out of the cache by a
\* request that was refused with an older one (invalidateTenantToken), as long
\* as the process lives; only an answer to this very token that is taken for
\* its end does.
GoodTokenKept ==
    [][cache.token # NoToken /\ cache'.token = NoToken =>
          \/ cache.token \in revoked
          \/ \E r \in Requests : Misread(r) /\ request[r].token = cache.token
          \/ Forgets]_tokenVars
=============================================================================
