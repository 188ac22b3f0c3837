----------------------------- MODULE AuthSessions -----------------------------
(***************************************************************************)
(* Device sessions and their rotating refresh tokens                       *)
(* (backend/internal/auth, backend/internal/httpapi/identity_handlers.go)  *)
(* with the browser that uses them (web/src/lib/identity.ts): a cookie jar *)
(* shared by the tabs, and in each tab an identity in memory.              *)
(*                                                                         *)
(* The server's transactions lock the session row; each is one step, with  *)
(* the authentication of the request before it.                            *)
(* A call of a tab is sent, served, its headers arrive (the cookie is set) *)
(* and its body is read (the identity is set); it may be lost on the way.  *)
(*                                                                         *)
(* An anonymous principal has one session, so the columns of its row in    *)
(* principals are kept with that session; all accounts are one account.    *)
(* Access tokens expire at any moment: a request that carries one may      *)
(* always be refused.  Sessions and tokens are never deleted; their sets   *)
(* bound a history.                                                        *)
(***************************************************************************)
EXTENDS Naturals

CONSTANTS
  Tabs,
  Sessions,   \* ids of device_sessions
  Tokens,     \* refresh tokens
  NoSession,  \* no identity, no bearer token
  NoToken     \* no cookie

ASSUME SessionAssumption == NoSession \notin Sessions /\ NoToken \notin Tokens

VARIABLES
  session,   \* rows of device_sessions, with kind and merge of the principal
  token,     \* rows of refresh_tokens
  cookie,    \* the refresh cookie of the browser
  identity,  \* currentIdentity of each tab: the session it speaks for
  refresh,   \* refreshPromise of each tab
  sign,      \* the anonymous, login, register or logout call of each tab
  adrift,    \* tokens of refresh requests that a tab no longer waits for
  lost,      \* history: the answer of a refresh did not reach its tab
  split      \* history: a refresh overlapped a call that signs in or out, or the
             \* headers of such a call were processed and its body was not read

server  == <<session, token>>
browser == <<cookie, identity, refresh, sign>>
history == <<lost, split>>
vars    == <<session, token, cookie, identity, refresh, sign, adrift, lost, split>>

\* revoked: revocation_reason, "no" while revoked_at IS NULL.
Session == [kind    : {"none", "guest", "user"},
            revoked : {"no", "reuse", "expired", "logout", "merged"},
            merged  : BOOLEAN,
            expired : BOOLEAN]

Token == [session : Sessions \cup {NoSession}, consumed : BOOLEAN, revoked : BOOLEAN]

\* sent: the request is under way.  granted, refused, failed: the answer is, from
\* the handler or from what stands before it.  accept, reject: its headers have been
\* processed, its body is being read.
Call == [phase   : {"none", "sent", "granted", "refused", "failed", "accept", "reject"},
         kind    : {"refresh", "anonymous", "account", "logout"},
         session : Sessions \cup {NoSession},
         token   : Tokens \cup {NoToken}]

NoCall(kind) == [phase |-> "none", kind |-> kind, session |-> NoSession, token |-> NoToken]

\* Rows, cookie, identities and calls keep their shape through every answer, loss and
\* reload: a request that goes on without its tab always carries a token.
TypeOK ==
  /\ session \in [Sessions -> Session]
  /\ token \in [Tokens -> Token]
  /\ cookie \in Tokens \cup {NoToken}
  /\ identity \in [Tabs -> Sessions \cup {NoSession}]
  /\ refresh \in [Tabs -> Call]
  /\ sign \in [Tabs -> Call]
  /\ adrift \in SUBSET Tokens
  /\ lost \in BOOLEAN /\ split \in BOOLEAN

Unborn  == [kind |-> "none", revoked |-> "no", merged |-> FALSE, expired |-> FALSE]
Unissued == [session |-> NoSession, consumed |-> FALSE, revoked |-> FALSE]

Init ==
  /\ session = [s \in Sessions |-> Unborn]
  /\ token = [k \in Tokens |-> Unissued]
  /\ cookie = NoToken
  /\ identity = [t \in Tabs |-> NoSession]
  /\ refresh = [t \in Tabs |-> NoCall("refresh")]
  /\ sign = [t \in Tabs |-> NoCall("anonymous")]
  /\ adrift = {}
  /\ lost = FALSE /\ split = FALSE

-----------------------------------------------------------------------------
(* The server *)

Live(s) == session[s].kind # "none" /\ session[s].revoked = "no"

\* AuthenticateAccessToken, for an access token not expired itself.
Authenticates(s) ==
  s # NoSession /\ Live(s) /\ ~session[s].merged /\ ~session[s].expired

Usable(k) ==
  token[k].session # NoSession /\ ~token[k].consumed /\ ~token[k].revoked

\* Mutant of RevokedTokens: the tokens of the session survive.
KeptTokens(S) == token

\* The rows after the sessions in S are revoked; the first reason is kept.
RevokedTokens(S) ==
  [k \in Tokens |-> IF token[k].session \in S THEN [token[k] EXCEPT !.revoked = TRUE]
                    ELSE token[k]]

\* Mutant of RevokedSessions: a later reason replaces the first.
RevokedAgain(S, reason) ==
  [s \in Sessions |-> IF s \in S THEN [session[s] EXCEPT !.revoked = reason]
                      ELSE session[s]]

RevokedSessions(S, reason) ==
  [s \in Sessions |-> IF s \in S /\ Live(s) THEN [session[s] EXCEPT !.revoked = reason]
                      ELSE session[s]]

Revoke(S, reason) ==
  /\ session' = RevokedSessions(S, reason)
  /\ token' = RevokedTokens(S)

\* Mutant of Rotated: the token presented is not marked as consumed.
RotatedUnconsumed(k, new) ==
  [token EXCEPT ![new] = [Unissued EXCEPT !.session = token[k].session]]

Rotated(k, new) ==
  [token EXCEPT ![new] = [Unissued EXCEPT !.session = token[k].session],
                ![k].consumed = TRUE]

Rotatable(k) ==
  k # NoToken /\ Usable(k) /\ Authenticates(token[k].session)

\* RotateRefreshToken, when it grants.
Rotate(k, new) ==
  /\ Rotatable(k)
  /\ token[new].session = NoSession
  /\ token' = Rotated(k, new)
  /\ UNCHANGED session

Unknown(k) == k = NoToken \/ token[k].session = NoSession

\* RotateRefreshToken, when it refuses.
Reject(k) ==
  /\ ~Rotatable(k)
  /\ IF Unknown(k)
       THEN UNCHANGED server
       ELSE LET s == token[k].session IN
            IF token[k].consumed \/ token[k].revoked THEN Revoke({s}, "reuse")
            ELSE IF ~Live(s) \/ session[s].merged THEN UNCHANGED server
            ELSE Revoke({s}, "expired")

\* createDeviceGrant, in a transaction that leaves the rows as given.
Granted(sessions, tokens, s, kind, k) ==
  /\ session[s].kind = "none"
  /\ token[k].session = NoSession
  /\ session' = [sessions EXCEPT ![s] = [Unborn EXCEPT !.kind = kind]]
  /\ token' = [tokens EXCEPT ![k] = [Unissued EXCEPT !.session = s]]

\* Mutant of MergedSessions: the guest is merged but stays signed in.
MergedUnrevoked(g) == [session EXCEPT ![g].merged = TRUE]

\* mergeGuestPrincipal; promoteGuestPreview concerns other tables.
MergedSessions(g) ==
  [session EXCEPT ![g].merged = TRUE, ![g].revoked = "merged"]

\* LoginIdentityUser and RegisterIdentityUser, with the guest g of the bearer token.
SignIn(g, s, k) ==
  IF g = NoSession
    THEN Granted(session, token, s, "user", k)
    ELSE /\ Authenticates(g) /\ session[g].kind = "guest"
         /\ Granted(MergedSessions(g), RevokedTokens({g}), s, "user", k)

-----------------------------------------------------------------------------
(* Calls: the tab sends *)

InFlight(call) == call.phase # "none"

\* refreshOnce: restoreBrowserIdentity, or an access token expired or rejected.
SendRefresh(t) ==
  /\ ~InFlight(refresh[t])
  /\ refresh' = [refresh EXCEPT ![t].phase = "sent", ![t].token = cookie]
  /\ split' = (split \/ InFlight(sign[t]))
  /\ UNCHANGED <<session, token, cookie, identity, sign, adrift, lost>>

\* createAnonymousIdentity, authenticateBrowserIdentity with or without the guest
\* of this tab, logoutBrowserIdentity.
SendSign(t) ==
  /\ ~InFlight(sign[t])
  /\ \E kind \in {"anonymous", "account", "logout"}, s \in {NoSession, identity[t]} :
       /\ kind = "anonymous" => s = NoSession
       /\ kind = "account" /\ s # NoSession => session[s].kind = "guest"
       /\ kind = "logout" => s # NoSession
       /\ sign' = [sign EXCEPT ![t] = [NoCall(kind) EXCEPT !.phase = "sent", !.session = s]]
  /\ split' = (split \/ InFlight(refresh[t]))
  /\ UNCHANGED <<session, token, cookie, identity, refresh, adrift, lost>>

-----------------------------------------------------------------------------
(* Calls: the server answers *)

\* An answer that grants nothing.
Answered(call, phase) == [NoCall(call.kind) EXCEPT !.phase = phase]

\* What an error of the handler answers: it clears the cookie if the request had one.
RefreshRefusal(k) == IF k = NoToken THEN "failed" ELSE "refused"

\* handleRefreshIdentityV1.  A commit that took effect may be reported as a failure.
ServeRefresh(t) ==
  /\ refresh[t].phase = "sent"
  /\ LET k == refresh[t].token IN
     \/ \E new \in Tokens :
          /\ Rotate(k, new)
          /\ \/ refresh' = [refresh EXCEPT ![t].phase = "granted", ![t].token = new,
                                           ![t].session = token[k].session]
             \/ refresh' = [refresh EXCEPT ![t] = Answered(@, "refused")]
     \/ /\ Reject(k)
        /\ refresh' = [refresh EXCEPT ![t] = Answered(@, RefreshRefusal(k))]
  /\ UNCHANGED <<cookie, identity, sign, adrift, lost, split>>

\* No transaction has taken effect: it failed, or the rate limit refused the request.
RefreshError(t) ==
  /\ refresh[t].phase = "sent"
  /\ \E phase \in {RefreshRefusal(refresh[t].token), "failed"} :
       refresh' = [refresh EXCEPT ![t] = Answered(@, phase)]
  /\ UNCHANGED <<session, token, cookie, identity, sign, adrift, lost, split>>

\* A refresh request whose tab is gone is served all the same.
ServeAdrift(k) ==
  /\ k \in adrift
  /\ Reject(k) \/ \E new \in Tokens : Rotate(k, new)
  /\ adrift' = adrift \ {k}
  /\ UNCHANGED <<cookie, identity, refresh, sign, lost, split>>

\* The handlers of anonymous, login, register and logout, likewise.
ServeSign(t) ==
  /\ sign[t].phase = "sent"
  /\ \/ /\ sign[t].kind \in {"anonymous", "account"}
        /\ \E s \in Sessions, k \in Tokens :
             /\ IF sign[t].kind = "anonymous" THEN Granted(session, token, s, "guest", k)
                                              ELSE SignIn(sign[t].session, s, k)
             /\ \/ sign' = [sign EXCEPT ![t].phase = "granted", ![t].session = s,
                                         ![t].token = k]
                \/ sign' = [sign EXCEPT ![t] = Answered(@, "refused")]
     \/ /\ sign[t].kind = "logout"
        /\ Authenticates(sign[t].session)
        /\ Revoke({sign[t].session}, "logout")
        /\ \E phase \in {"granted", "refused"} :
             sign' = [sign EXCEPT ![t] = Answered(@, phase)]
     \/ /\ sign' = [sign EXCEPT ![t] = Answered(@, "refused")]
        /\ UNCHANGED server
  /\ UNCHANGED <<cookie, identity, refresh, adrift, lost, split>>

-----------------------------------------------------------------------------
(* Calls: the answer reaches the tab *)

\* Mutant of RefreshCookie: the cookie is not replaced.
RefreshCookieKept(call) == IF call.phase = "refused" THEN NoToken ELSE cookie

\* Set-Cookie: the new token, or an expired cookie after any error of the handler.
RefreshCookie(call) ==
  CASE call.phase = "granted" -> call.token
    [] call.phase = "refused" -> NoToken
    [] OTHER                  -> cookie

RefreshArrives(t) ==
  /\ refresh[t].phase \in {"granted", "refused", "failed"}
  /\ cookie' = RefreshCookie(refresh[t])
  /\ refresh' = [refresh EXCEPT ![t].phase = IF @ = "granted" THEN "accept" ELSE "reject",
                               ![t].token = NoToken]
  /\ UNCHANGED <<session, token, identity, sign, adrift, lost, split>>

\* Mutant of RefreshedIdentity: the tab keeps its identity after an error.
IdentityKept(t) == IF refresh[t].phase = "accept" THEN refresh[t].session ELSE identity[t]

\* refreshBrowserIdentity: the identity of the answer, or null.
RefreshedIdentity(t) ==
  IF refresh[t].phase = "accept" THEN refresh[t].session ELSE NoSession

RefreshSettles(t) ==
  /\ refresh[t].phase \in {"accept", "reject"}
  /\ identity' = [identity EXCEPT ![t] = RefreshedIdentity(t)]
  /\ refresh' = [refresh EXCEPT ![t] = NoCall("refresh")]
  /\ UNCHANGED <<session, token, cookie, sign, adrift, lost, split>>

\* A refusal sets no cookie.
SignArrives(t) ==
  /\ sign[t].phase \in {"granted", "refused"}
  /\ cookie' = IF sign[t].phase = "refused" THEN cookie
               ELSE IF sign[t].kind = "logout" THEN NoToken ELSE sign[t].token
  /\ sign' = [sign EXCEPT ![t].phase = IF @ = "granted" THEN "accept" ELSE "reject",
                         ![t].token = NoToken]
  /\ UNCHANGED <<session, token, identity, refresh, adrift, lost, split>>

\* acceptIdentity; logoutBrowserIdentity forgets the identity whatever the answer.
SignSettles(t) ==
  /\ sign[t].phase \in {"accept", "reject"}
  /\ identity' = [identity EXCEPT ![t] =
                    IF sign[t].kind = "logout" THEN NoSession
                    ELSE IF sign[t].phase = "accept" THEN sign[t].session ELSE @]
  /\ sign' = [sign EXCEPT ![t] = NoCall("anonymous")]
  /\ UNCHANGED <<session, token, cookie, refresh, adrift, lost, split>>

\* The connection fails after the headers: the body cannot be read.
BodyFails(t) ==
  /\ \/ /\ refresh[t].phase = "accept"
        /\ refresh' = [refresh EXCEPT ![t] = Answered(@, "reject")]
        /\ UNCHANGED <<sign, split>>
     \/ /\ sign[t].phase = "accept" /\ sign[t].kind # "logout"
        /\ sign' = [sign EXCEPT ![t] = Answered(@, "reject")]
        /\ split' = TRUE
        /\ UNCHANGED refresh
  /\ UNCHANGED <<session, token, cookie, identity, adrift, lost>>

\* Mutant of Abandoned: a request without a cookie is taken for one with a token.
AbandonedUnchecked(t) ==
  IF refresh[t].phase = "sent" THEN {adrift, adrift \cup {refresh[t].token}} ELSE {adrift}

\* What becomes of the request of a refresh that is given up.
Abandoned(t) ==
  IF refresh[t].phase = "sent" /\ refresh[t].token # NoToken
    THEN {adrift, adrift \cup {refresh[t].token}}
    ELSE {adrift}

\* The connection fails before the headers arrive (ApiUnavailableError); the
\* identity is kept.
LoseRefresh(t) ==
  /\ refresh[t].phase \in {"sent", "granted", "refused", "failed"}
  /\ refresh' = [refresh EXCEPT ![t] = NoCall("refresh")]
  /\ adrift' \in Abandoned(t)
  /\ lost' = TRUE
  /\ UNCHANGED <<session, token, cookie, identity, sign, split>>

LoseSign(t) ==
  /\ sign[t].phase \in {"sent", "granted", "refused"}
  /\ sign' = [sign EXCEPT ![t] = NoCall("anonymous")]
  /\ identity' = IF sign[t].kind = "logout" THEN [identity EXCEPT ![t] = NoSession]
                                            ELSE identity
  /\ UNCHANGED <<session, token, cookie, refresh, adrift, lost, split>>

\* The page is loaded again: nothing in memory survives.
Reload(t) ==
  /\ identity' = [identity EXCEPT ![t] = NoSession]
  /\ refresh' = [refresh EXCEPT ![t] = NoCall("refresh")]
  /\ sign' = [sign EXCEPT ![t] = NoCall("anonymous")]
  /\ adrift' \in Abandoned(t)
  /\ lost' = (lost \/ refresh[t].phase \in {"sent", "granted", "refused", "failed"})
  /\ UNCHANGED <<session, token, cookie, split>>

-----------------------------------------------------------------------------
(* Elsewhere *)

\* RevokeDeviceSession, by another device of the principal.
RevokeDevice(s) ==
  /\ Live(s)
  /\ Revoke({s}, "logout")
  /\ UNCHANGED <<cookie, identity, refresh, sign, adrift, lost, split>>

\* RevokeAllDeviceSessions of the account.
RevokeAll ==
  /\ Revoke({s \in Sessions : session[s].kind = "user"}, "logout")
  /\ UNCHANGED <<cookie, identity, refresh, sign, adrift, lost, split>>

Expire(s) ==
  /\ session[s].kind # "none" /\ ~session[s].expired
  /\ session' = [session EXCEPT ![s].expired = TRUE]
  /\ UNCHANGED <<token, cookie, identity, refresh, sign, adrift, lost, split>>

\* The cookie expires with the session of its token.
CookieExpires ==
  /\ cookie # NoToken
  /\ session[token[cookie].session].expired
  /\ cookie' = NoToken
  /\ UNCHANGED <<session, token, identity, refresh, sign, adrift, lost, split>>

-----------------------------------------------------------------------------
Tab(t) ==
  \/ SendRefresh(t) \/ SendSign(t)
  \/ ServeRefresh(t) \/ RefreshError(t) \/ ServeSign(t)
  \/ RefreshArrives(t) \/ RefreshSettles(t) \/ LoseRefresh(t)
  \/ SignArrives(t) \/ SignSettles(t) \/ LoseSign(t) \/ BodyFails(t)
  \/ Reload(t)

Elsewhere ==
  \/ \E k \in Tokens : ServeAdrift(k)
  \/ \E s \in Sessions : RevokeDevice(s) \/ Expire(s)
  \/ RevokeAll
  \/ CookieExpires

Next == (\E t \in Tabs : Tab(t)) \/ Elsewhere

Spec == Init /\ [][Next]_vars

-----------------------------------------------------------------------------
(* Safety *)

\* A session has at most one refresh token that would be accepted, whatever the
\* order of rotations, retries and revocations.
OneUsableToken ==
  \A k, l \in Tokens :
    Usable(k) /\ Usable(l) /\ token[k].session = token[l].session => k = l

\* A usable token belongs to a session that is not revoked: a rotation that races
\* a revocation leaves nothing behind that could be refreshed.
UsableTokenIsLive == \A k \in Tokens : Usable(k) => Live(token[k].session)

\* A guest merged into an account is signed out everywhere.
MergedGuestIsOut == \A s \in Sessions : session[s].merged => ~Live(s)

\* Revocation is final, and its first reason is kept.
RevocationIsFinal ==
  [][\A s \in Sessions :
       session[s].revoked # "no" => session'[s].revoked = session[s].revoked]_vars

\* docs/api-compatibility.md: "Every client must serialize refresh attempts per
\* device."  A device that does so never presents a token it has used, and is never
\* signed out for it, unless an answer was lost.
SerializedRefresh ==
  \A s \in Sessions : session[s].revoked = "reuse" => lost

\* When its calls have ended, a tab that speaks for a valid session has the cookie
\* that renews it, unless the answer of a refresh was lost or a call was split.
IdentityHasItsCookie ==
  \A t \in Tabs :
    /\ ~lost /\ ~split
    /\ ~InFlight(refresh[t]) /\ ~InFlight(sign[t])
    /\ Authenticates(identity[t])
    => cookie # NoToken /\ Usable(cookie) /\ token[cookie].session = identity[t]
=============================================================================
