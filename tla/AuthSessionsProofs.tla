-------------------------- MODULE AuthSessionsProofs --------------------------
(***************************************************************************)
(* Theorems of device sessions and refresh tokens, for every number of     *)
(* tabs, sessions and tokens.                                              *)
(***************************************************************************)
EXTENDS AuthSessions, TLAPS

-----------------------------------------------------------------------------
(* The steps of the server, whoever asked for them *)

Reasons == {"reuse", "expired", "logout"}

Rotates == \E k, new \in Tokens : Rotate(k, new)

Revokes == \E S \in SUBSET Sessions, reason \in Reasons : Revoke(S, reason)

Grants == \E s \in Sessions, k \in Tokens :
            Granted(session, token, s, "guest", k) \/ Granted(session, token, s, "user", k)

Merges == \E g, s \in Sessions, k \in Tokens :
            /\ Live(g)
            /\ Granted(MergedSessions(g), RevokedTokens({g}), s, "user", k)

Expires == /\ \E s \in Sessions : session' = [session EXCEPT ![s].expired = TRUE]
           /\ UNCHANGED token

\* What consumes no token.
QuietStep == Revokes \/ Grants \/ Merges \/ Expires \/ UNCHANGED server

ServerStep == Rotates \/ QuietStep

LEMMA RejectIsQuiet ==
  ASSUME TypeOK, NEW k \in Tokens \cup {NoToken}, Reject(k)
  PROVE  QuietStep
  <1>1. CASE Unknown(k)
    BY <1>1 DEF Reject, QuietStep
  <1>2. CASE ~Unknown(k)
    <2>1. k \in Tokens /\ token[k].session \in Sessions
      BY <1>2 DEF Unknown, TypeOK, Token
    <2>2. UNCHANGED server \/ Revoke({token[k].session}, "reuse")
                           \/ Revoke({token[k].session}, "expired")
      BY <1>2 DEF Reject
    <2>3. {token[k].session} \in SUBSET Sessions
      BY <2>1
    <2>4. QED
      BY <2>2, <2>3 DEF QuietStep, Revokes, Reasons
  <1>3. QED
    BY <1>1, <1>2

LEMMA RotateIsServerStep ==
  ASSUME NEW k \in Tokens \cup {NoToken}, NEW new \in Tokens, Rotate(k, new)
  PROVE  ServerStep
  <1>1. k \in Tokens
    BY DEF Rotate, Rotatable
  <1>2. QED
    BY <1>1 DEF ServerStep, Rotates

LEMMA SignInIsQuiet ==
  ASSUME NEW g \in Sessions \cup {NoSession}, NEW s \in Sessions, NEW k \in Tokens,
         SignIn(g, s, k)
  PROVE  QuietStep
  <1>1. CASE g = NoSession
    BY <1>1 DEF SignIn, QuietStep, Grants
  <1>2. CASE g # NoSession
    BY <1>2 DEF SignIn, Authenticates, QuietStep, Merges
  <1>3. QED
    BY <1>1, <1>2

LEMMA ServeSignIsQuiet ==
  ASSUME TypeOK, NEW t \in Tabs, ServeSign(t)
  PROVE  QuietStep
  <1>1. sign[t].session \in Sessions \cup {NoSession}
    BY DEF TypeOK, Call
  <1>2. ASSUME NEW s \in Sessions, NEW k \in Tokens,
               Granted(session, token, s, "guest", k) \/ SignIn(sign[t].session, s, k)
        PROVE  QuietStep
    BY <1>1, <1>2, SignInIsQuiet DEF QuietStep, Grants
  <1>3. ASSUME Authenticates(sign[t].session), Revoke({sign[t].session}, "logout")
        PROVE  QuietStep
    <2>1. {sign[t].session} \in SUBSET Sessions
      BY <1>1, <1>3 DEF Authenticates
    <2>2. QED
      BY <1>3, <2>1 DEF QuietStep, Revokes, Reasons
  <1>4. QED
    BY <1>2, <1>3 DEF ServeSign, QuietStep

LEMMA NextIsServerStep ==
  ASSUME TypeOK, [Next]_vars
  PROVE  ServerStep
  <1>1. ASSUME NEW t \in Tabs, ServeRefresh(t)
        PROVE  ServerStep
    <2>1. refresh[t].token \in Tokens \cup {NoToken}
      BY DEF TypeOK, Call
    <2>2. QED
      BY <1>1, <2>1, RotateIsServerStep, RejectIsQuiet DEF ServeRefresh, ServerStep
  <1>2. ASSUME NEW t \in Tabs, Tab(t)
        PROVE  ServeRefresh(t) \/ ServeSign(t) \/ UNCHANGED server
    BY <1>2 DEF Tab, server, SendRefresh, SendSign, RefreshError, RefreshArrives,
         RefreshSettles, LoseRefresh, SignArrives, SignSettles, LoseSign, BodyFails,
         Reload
  <1>3. ASSUME NEW k \in Tokens, ServeAdrift(k)
        PROVE  ServerStep
    BY <1>3, RotateIsServerStep, RejectIsQuiet DEF ServeAdrift, ServerStep
  <1>4. ASSUME NEW s \in Sessions, RevokeDevice(s)
        PROVE  ServerStep
    BY <1>4 DEF RevokeDevice, ServerStep, QuietStep, Revokes, Reasons
  <1>5. ASSUME RevokeAll
        PROVE  ServerStep
    <2>1. {s \in Sessions : session[s].kind = "user"} \in SUBSET Sessions
      OBVIOUS
    <2>2. QED
      BY <1>5, <2>1 DEF RevokeAll, ServerStep, QuietStep, Revokes, Reasons
  <1>6. ASSUME NEW s \in Sessions, Expire(s)
        PROVE  ServerStep
    BY <1>6 DEF Expire, ServerStep, QuietStep, Expires
  <1>7. UNCHANGED vars \/ CookieExpires => ServerStep
    BY DEF vars, server, CookieExpires, ServerStep, QuietStep
  <1>8. QED
    BY <1>1, <1>2, <1>3, <1>4, <1>5, <1>6, <1>7, ServeSignIsQuiet
       DEF Next, Elsewhere, ServerStep, QuietStep

-----------------------------------------------------------------------------
(* Type correctness *)

\* The two halves of TypeOK: what the server's steps can disturb, and the rest.
ServerTypeOK == session \in [Sessions -> Session] /\ token \in [Tokens -> Token]

LEMMA RevokedTokensType ==
  ASSUME ServerTypeOK, NEW S
  PROVE  RevokedTokens(S) \in [Tokens -> Token]
  BY DEF ServerTypeOK, RevokedTokens, Token

LEMMA RevokedSessionsType ==
  ASSUME ServerTypeOK, NEW S, NEW reason \in Reasons
  PROVE  RevokedSessions(S, reason) \in [Sessions -> Session]
  BY DEF ServerTypeOK, RevokedSessions, Session, Reasons

LEMMA MergedSessionsType ==
  ASSUME ServerTypeOK, NEW g \in Sessions
  PROVE  MergedSessions(g) \in [Sessions -> Session]
  BY DEF ServerTypeOK, MergedSessions, Session

LEMMA GrantedType ==
  ASSUME NEW sessions \in [Sessions -> Session], NEW tokens \in [Tokens -> Token],
         NEW s \in Sessions, NEW k \in Tokens, NEW kind \in {"guest", "user"},
         Granted(sessions, tokens, s, kind, k)
  PROVE  ServerTypeOK'
  BY DEF Granted, ServerTypeOK, Session, Token, Unborn, Unissued

LEMMA ServerType ==
  ASSUME ServerTypeOK, ServerStep
  PROVE  ServerTypeOK'
  <1>1. CASE Rotates
    <2>1. PICK k \in Tokens, new \in Tokens : Rotate(k, new)
      BY <1>1 DEF Rotates
    <2>2. Rotated(k, new) \in [Tokens -> Token]
      BY DEF ServerTypeOK, Rotated, Unissued, Token
    <2>3. QED
      BY <2>1, <2>2 DEF Rotate, ServerTypeOK
  <1>2. CASE Revokes
    BY <1>2, RevokedTokensType, RevokedSessionsType DEF Revokes, Revoke, ServerTypeOK
  <1>3. CASE Grants
    BY <1>3, GrantedType DEF Grants, ServerTypeOK
  <1>4. CASE Merges
    BY <1>4, GrantedType, MergedSessionsType, RevokedTokensType DEF Merges
  <1>5. CASE Expires
    BY <1>5 DEF Expires, ServerTypeOK, Session
  <1>6. CASE UNCHANGED server
    BY <1>6 DEF server, ServerTypeOK
  <1>7. QED
    BY <1>1, <1>2, <1>3, <1>4, <1>5, <1>6 DEF ServerStep, QuietStep

BrowserTypeOK ==
  /\ cookie \in Tokens \cup {NoToken}
  /\ identity \in [Tabs -> Sessions \cup {NoSession}]
  /\ refresh \in [Tabs -> Call]
  /\ sign \in [Tabs -> Call]
  /\ adrift \in SUBSET Tokens
  /\ lost \in BOOLEAN /\ split \in BOOLEAN

LEMMA TypeOKParts == TypeOK <=> ServerTypeOK /\ BrowserTypeOK
  BY DEF TypeOK, ServerTypeOK, BrowserTypeOK

LEMMA NoCallType ==
  ASSUME NEW kind \in {"refresh", "anonymous", "account", "logout"}
  PROVE  NoCall(kind) \in Call
  BY DEF NoCall, Call

LEMMA AnsweredType ==
  ASSUME NEW call \in Call,
         NEW phase \in {"sent", "granted", "refused", "failed", "accept", "reject"}
  PROVE  Answered(call, phase) \in Call
  BY NoCallType DEF Answered, Call

LEMMA AbandonedType ==
  ASSUME BrowserTypeOK, NEW t \in Tabs, NEW A \in Abandoned(t)
  PROVE  A \in SUBSET Tokens
  <1>1. refresh[t].token \in Tokens \cup {NoToken}
    BY DEF BrowserTypeOK, Call
  <1>2. QED
    BY <1>1 DEF Abandoned, BrowserTypeOK

LEMMA RefreshType ==
  ASSUME BrowserTypeOK, ServerTypeOK, NEW t \in Tabs
  PROVE  /\ SendRefresh(t) => BrowserTypeOK'
         /\ ServeRefresh(t) => BrowserTypeOK'
         /\ RefreshError(t) => BrowserTypeOK'
         /\ RefreshArrives(t) => BrowserTypeOK'
         /\ RefreshSettles(t) => BrowserTypeOK'
         /\ LoseRefresh(t) => BrowserTypeOK'
  <1>1. /\ refresh[t] \in Call /\ refresh[t].session \in Sessions \cup {NoSession}
        /\ refresh[t].token \in Tokens \cup {NoToken}
    BY DEF BrowserTypeOK, Call
  <1>2. ASSUME NEW phase \in {"sent", "granted", "refused", "failed", "accept", "reject"}
        PROVE  Answered(refresh[t], phase) \in Call
    BY <1>1, AnsweredType
  <1>3. SendRefresh(t) => BrowserTypeOK'
    <2>1. [refresh[t] EXCEPT !.phase = "sent", !.token = cookie] \in Call
      BY <1>1 DEF Call, BrowserTypeOK
    <2>2. QED
      BY <2>1 DEF SendRefresh, BrowserTypeOK, InFlight
  <1>4. ServeRefresh(t) => BrowserTypeOK'
    <2>1. RefreshRefusal(refresh[t].token) \in {"refused", "failed"}
      BY DEF RefreshRefusal
    <2>2. ASSUME NEW new \in Tokens, Rotate(refresh[t].token, new)
          PROVE  [refresh[t] EXCEPT !.phase = "granted", !.token = new,
                                    !.session = token[refresh[t].token].session] \in Call
      <3>1. refresh[t].token \in Tokens
        BY <1>1, <2>2 DEF Rotate, Rotatable
      <3>2. token[refresh[t].token].session \in Sessions \cup {NoSession}
        BY <3>1 DEF ServerTypeOK, Token
      <3>3. QED
        BY <1>1, <3>2 DEF Call
    <2>3. QED
      BY <1>2, <2>1, <2>2 DEF ServeRefresh, BrowserTypeOK
  <1>5. RefreshError(t) => BrowserTypeOK'
    <2>1. RefreshRefusal(refresh[t].token) \in {"refused", "failed"}
      BY DEF RefreshRefusal
    <2>2. QED
      BY <1>2, <2>1 DEF RefreshError, BrowserTypeOK
  <1>6. RefreshArrives(t) => BrowserTypeOK'
    <2>1. RefreshCookie(refresh[t]) \in Tokens \cup {NoToken}
      BY <1>1 DEF RefreshCookie, BrowserTypeOK
    <2>2. ASSUME RefreshArrives(t)
          PROVE  refresh' \in [Tabs -> Call]
      <3>1. ASSUME NEW phase \in {"accept", "reject"}
            PROVE  [refresh[t] EXCEPT !.phase = phase, !.token = NoToken] \in Call
        BY <1>1 DEF Call
      <3>2. \E phase \in {"accept", "reject"} :
              refresh' = [refresh EXCEPT ![t].phase = phase, ![t].token = NoToken]
        BY <2>2 DEF RefreshArrives
      <3>3. QED
        BY <3>1, <3>2 DEF BrowserTypeOK
    <2>3. QED
      BY <2>1, <2>2 DEF RefreshArrives, BrowserTypeOK
  <1>7. RefreshSettles(t) => BrowserTypeOK'
    <2>1. RefreshedIdentity(t) \in Sessions \cup {NoSession}
      BY <1>1 DEF RefreshedIdentity
    <2>2. QED
      BY <2>1, NoCallType DEF RefreshSettles, BrowserTypeOK
  <1>8. LoseRefresh(t) => BrowserTypeOK'
    BY NoCallType, AbandonedType DEF LoseRefresh, BrowserTypeOK
  <1>9. QED
    BY <1>3, <1>4, <1>5, <1>6, <1>7, <1>8

LEMMA SignType ==
  ASSUME BrowserTypeOK, NEW t \in Tabs
  PROVE  /\ SendSign(t) => BrowserTypeOK'
         /\ ServeSign(t) => BrowserTypeOK'
         /\ SignArrives(t) => BrowserTypeOK'
         /\ SignSettles(t) => BrowserTypeOK'
         /\ LoseSign(t) => BrowserTypeOK'
  <1>1. /\ sign[t] \in Call /\ sign[t].session \in Sessions \cup {NoSession}
        /\ sign[t].token \in Tokens \cup {NoToken}
    BY DEF BrowserTypeOK, Call
  <1>2. ASSUME NEW phase \in {"sent", "granted", "refused", "failed", "accept", "reject"}
        PROVE  Answered(sign[t], phase) \in Call
    BY <1>1, AnsweredType
  <1>3. SendSign(t) => BrowserTypeOK'
    <2>1. ASSUME NEW kind \in {"anonymous", "account", "logout"},
                 NEW s \in Sessions \cup {NoSession}
          PROVE  [NoCall(kind) EXCEPT !.phase = "sent", !.session = s] \in Call
      BY NoCallType DEF Call
    <2>2. {NoSession, identity[t]} \subseteq Sessions \cup {NoSession}
      BY DEF BrowserTypeOK
    <2>3. QED
      BY <2>1, <2>2, ZenonT(40) DEF SendSign, BrowserTypeOK, InFlight
  <1>4. ServeSign(t) => BrowserTypeOK'
    <2>1. ASSUME NEW s \in Sessions, NEW k \in Tokens
          PROVE  [sign[t] EXCEPT !.phase = "granted", !.session = s, !.token = k] \in Call
      BY <1>1 DEF Call
    <2>2. ASSUME ServeSign(t)
          PROVE  sign' \in [Tabs -> Call]
      <3>1. ASSUME NEW phase \in {"granted", "refused"},
                   sign' = [sign EXCEPT ![t] = Answered(@, phase)]
            PROVE  sign' \in [Tabs -> Call]
        BY <1>2, <3>1 DEF BrowserTypeOK
      <3>2. ASSUME NEW s \in Sessions, NEW k \in Tokens,
                   sign' = [sign EXCEPT ![t].phase = "granted", ![t].session = s,
                                        ![t].token = k]
            PROVE  sign' \in [Tabs -> Call]
        BY <2>1, <3>2 DEF BrowserTypeOK
      <3>3. QED
        BY <2>2, <3>1, <3>2 DEF ServeSign
    <2>3. QED
      BY <2>2 DEF ServeSign, BrowserTypeOK
  <1>5. SignArrives(t) => BrowserTypeOK'
    <2>1. ASSUME SignArrives(t)
          PROVE  sign' \in [Tabs -> Call]
      <3>1. ASSUME NEW phase \in {"accept", "reject"}
            PROVE  [sign[t] EXCEPT !.phase = phase, !.token = NoToken] \in Call
        BY <1>1 DEF Call
      <3>2. \E phase \in {"accept", "reject"} :
              sign' = [sign EXCEPT ![t].phase = phase, ![t].token = NoToken]
        BY <2>1 DEF SignArrives
      <3>3. QED
        BY <3>1, <3>2 DEF BrowserTypeOK
    <2>2. SignArrives(t) => cookie' \in Tokens \cup {NoToken}
      BY <1>1 DEF SignArrives, BrowserTypeOK
    <2>3. QED
      BY <2>1, <2>2 DEF SignArrives, BrowserTypeOK
  <1>6. SignSettles(t) => BrowserTypeOK'
    <2>1. SignSettles(t) => identity' \in [Tabs -> Sessions \cup {NoSession}]
      BY <1>1 DEF SignSettles, BrowserTypeOK
    <2>2. QED
      BY <2>1, NoCallType DEF SignSettles, BrowserTypeOK
  <1>7. LoseSign(t) => BrowserTypeOK'
    <2>1. LoseSign(t) => identity' \in [Tabs -> Sessions \cup {NoSession}]
      BY DEF LoseSign, BrowserTypeOK
    <2>2. QED
      BY <2>1, NoCallType DEF LoseSign, BrowserTypeOK
  <1>8. QED
    BY <1>3, <1>4, <1>5, <1>6, <1>7

LEMMA PageType ==
  ASSUME BrowserTypeOK, NEW t \in Tabs
  PROVE  BodyFails(t) \/ Reload(t) => BrowserTypeOK'
  <1>1. Answered(refresh[t], "reject") \in Call /\ Answered(sign[t], "reject") \in Call
    BY AnsweredType DEF BrowserTypeOK
  <1>2. BodyFails(t) => BrowserTypeOK'
    BY <1>1 DEF BodyFails, BrowserTypeOK
  <1>3. Reload(t) => BrowserTypeOK'
    BY NoCallType, AbandonedType DEF Reload, BrowserTypeOK
  <1>4. QED
    BY <1>2, <1>3

LEMMA InitType == Init => TypeOK
  <1>1. NoCall("refresh") \in Call /\ NoCall("anonymous") \in Call
    BY NoCallType
  <1>2. Unborn \in Session /\ Unissued \in Token
    BY DEF Unborn, Unissued, Session, Token
  <1>3. QED
    BY <1>1, <1>2 DEF Init, TypeOK

LEMMA NextType == TypeOK /\ [Next]_vars => TypeOK'
  <1> SUFFICES ASSUME TypeOK, [Next]_vars
               PROVE  TypeOK'
    OBVIOUS
  <1>1. ServerTypeOK /\ BrowserTypeOK
    BY TypeOKParts
  <1>2. ServerTypeOK'
    BY <1>1, NextIsServerStep, ServerType
  <1>3. BrowserTypeOK'
    <2>1. ASSUME NEW t \in Tabs, Tab(t)
          PROVE  BrowserTypeOK'
      BY <1>1, <2>1, RefreshType, SignType, PageType DEF Tab
    <2>2. CASE Elsewhere
      BY <1>1, <2>2 DEF Elsewhere, ServeAdrift, RevokeDevice, Expire, RevokeAll,
           CookieExpires, BrowserTypeOK
    <2>3. CASE UNCHANGED vars
      BY <1>1, <2>3 DEF vars, BrowserTypeOK
    <2>4. QED
      BY <2>1, <2>2, <2>3 DEF Next
  <1>4. QED
    BY <1>2, <1>3 DEF TypeOK, ServerTypeOK, BrowserTypeOK

(* Rows, cookie, identities and calls keep their shape, whatever the order  *)
(* of answers, losses and reloads (tables device_sessions, refresh_tokens). *)
THEOREM TypeCorrect == Spec => []TypeOK
  BY InitType, NextType, PTL DEF Spec

-----------------------------------------------------------------------------
(* The inductive invariant of the server.  It adds to the properties that a *)
(* session that was never created is not revoked.                           *)

UnbornIsUnrevoked == \A s \in Sessions : session[s].kind = "none" => session[s].revoked = "no"

SessionInv ==
  /\ ServerTypeOK
  /\ OneUsableToken
  /\ UsableTokenIsLive
  /\ MergedGuestIsOut
  /\ UnbornIsUnrevoked

\* What a step does to each row.

LEMMA RevokedToken ==
  ASSUME ServerTypeOK, NEW S, NEW k \in Tokens
  PROVE  /\ RevokedTokens(S)[k].session = token[k].session
         /\ RevokedTokens(S)[k].consumed = token[k].consumed
         /\ RevokedTokens(S)[k].revoked = (token[k].revoked \/ token[k].session \in S)
  BY DEF RevokedTokens, ServerTypeOK, Token

LEMMA RotateEffect ==
  ASSUME ServerTypeOK, NEW k \in Tokens, NEW new \in Tokens, Rotate(k, new)
  PROVE  /\ Usable(k) /\ Live(token[k].session) /\ token[k].session \in Sessions
         /\ new # k /\ ~Usable(new)
         /\ token'[new] = [session |-> token[k].session, consumed |-> FALSE,
                           revoked |-> FALSE]
         /\ ~Usable(k)'
         /\ \A l \in Tokens \ {k, new} : token'[l] = token[l]
         /\ session' = session
  <1>1. Usable(k) /\ Authenticates(token[k].session) /\ token[new].session = NoSession
    BY DEF Rotate, Rotatable
  <1>2. new # k /\ ~Usable(new)
    BY <1>1 DEF Usable
  <1>3. token' = Rotated(k, new) /\ session' = session
    BY DEF Rotate
  <1>4. /\ token'[new] = [session |-> token[k].session, consumed |-> FALSE,
                          revoked |-> FALSE]
        /\ token'[k].consumed = TRUE
        /\ \A l \in Tokens \ {k, new} : token'[l] = token[l]
    BY <1>2, <1>3 DEF Rotated, Unissued, ServerTypeOK, Token
  <1>5. Live(token[k].session) /\ token[k].session \in Sessions
    BY <1>1 DEF Authenticates, ServerTypeOK, Token
  <1>6. QED
    BY <1>1, <1>2, <1>3, <1>4, <1>5 DEF Usable

\* A grant adds one live session and one usable token to rows among which no token
\* is usable that was not so before, with a session that is as before.
LEMMA GrantPreserves ==
  ASSUME SessionInv,
         NEW sessions \in [Sessions -> Session], NEW tokens \in [Tokens -> Token],
         NEW s \in Sessions, NEW k \in Tokens, NEW kind \in {"guest", "user"},
         Granted(sessions, tokens, s, kind, k),
         \A r \in Sessions :
           /\ sessions[r].merged => ~(sessions[r].kind # "none" /\ sessions[r].revoked = "no")
           /\ sessions[r].kind = "none" => sessions[r].revoked = "no",
         \A l \in Tokens :
           tokens[l].session # NoSession /\ ~tokens[l].consumed /\ ~tokens[l].revoked =>
             /\ tokens[l] = token[l]
             /\ sessions[token[l].session] = session[token[l].session]
  PROVE  SessionInv'
  <1>1. ServerTypeOK'
    BY GrantedType
  <1>2. /\ session'[s] = [kind |-> kind, revoked |-> "no", merged |-> FALSE,
                          expired |-> FALSE]
        /\ \A r \in Sessions \ {s} : session'[r] = sessions[r]
        /\ token'[k] = [session |-> s, consumed |-> FALSE, revoked |-> FALSE]
        /\ \A l \in Tokens \ {k} : token'[l] = tokens[l]
    BY DEF Granted, Unborn, Unissued
  <1>3. ASSUME NEW l \in Tokens \ {k}, Usable(l)'
        PROVE  /\ Usable(l) /\ token'[l].session = token[l].session
               /\ token[l].session \in Sessions \ {s}
               /\ session'[token[l].session] = session[token[l].session]
    <2>1. tokens[l] = token[l] /\ Usable(l)
      BY <1>2, <1>3 DEF Usable
    <2>2. token[l].session \in Sessions /\ Live(token[l].session)
      BY <2>1 DEF SessionInv, UsableTokenIsLive, Usable, ServerTypeOK, Token
    <2>3. token[l].session # s
      BY <2>2 DEF Live, Granted
    <2>4. sessions[token[l].session] = session[token[l].session]
      BY <1>2, <1>3 DEF Usable
    <2>5. QED
      BY <1>2, <2>1, <2>2, <2>3, <2>4
  <1>4. UsableTokenIsLive'
    <2>1. Live(token[k].session)'
      BY <1>2 DEF Live
    <2>2. ASSUME NEW l \in Tokens \ {k}, Usable(l)'
          PROVE  Live(token[l].session)'
      BY <1>3, <2>2 DEF SessionInv, UsableTokenIsLive, Live
    <2>3. QED
      BY <2>1, <2>2 DEF UsableTokenIsLive
  <1>5. OneUsableToken'
    <2>1. ASSUME NEW l \in Tokens, NEW m \in Tokens, Usable(l)', Usable(m)',
                 token'[l].session = token'[m].session
          PROVE  l = m
      <3>1. CASE l # k /\ m # k
        BY <1>3, <2>1, <3>1 DEF SessionInv, OneUsableToken
      <3>2. CASE l = k \/ m = k
        BY <1>2, <1>3, <2>1, <3>2
      <3>3. QED
        BY <3>1, <3>2
    <2>2. QED
      BY <2>1 DEF OneUsableToken
  <1>6. MergedGuestIsOut'
    BY <1>2 DEF MergedGuestIsOut, Live
  <1>7. UnbornIsUnrevoked'
    BY <1>2 DEF UnbornIsUnrevoked
  <1>8. QED
    BY <1>1, <1>4, <1>5, <1>6, <1>7 DEF SessionInv

LEMMA MergesPreserve ==
  ASSUME SessionInv, Merges
  PROVE  SessionInv'
  <1>1. PICK g \in Sessions, s \in Sessions, k \in Tokens :
          /\ Live(g)
          /\ Granted(MergedSessions(g), RevokedTokens({g}), s, "user", k)
    BY DEF Merges
  <1>2. ServerTypeOK
    BY DEF SessionInv
  <1>3. /\ MergedSessions(g) \in [Sessions -> Session]
        /\ RevokedTokens({g}) \in [Tokens -> Token]
    BY <1>2, MergedSessionsType, RevokedTokensType
  <1>4. /\ MergedSessions(g)[g].kind = session[g].kind
        /\ MergedSessions(g)[g].revoked = "merged"
        /\ \A r \in Sessions \ {g} : MergedSessions(g)[r] = session[r]
    BY <1>2 DEF MergedSessions, ServerTypeOK, Session
  <1>5. ASSUME NEW r \in Sessions
        PROVE  /\ MergedSessions(g)[r].merged =>
                    ~(MergedSessions(g)[r].kind # "none"
                      /\ MergedSessions(g)[r].revoked = "no")
               /\ MergedSessions(g)[r].kind = "none" =>
                    MergedSessions(g)[r].revoked = "no"
    BY <1>1, <1>4 DEF SessionInv, MergedGuestIsOut, UnbornIsUnrevoked, Live
  <1>6. ASSUME NEW l \in Tokens, RevokedTokens({g})[l].session # NoSession,
               ~RevokedTokens({g})[l].revoked
        PROVE  /\ RevokedTokens({g})[l] = token[l]
               /\ MergedSessions(g)[token[l].session] = session[token[l].session]
    <2>1. token[l].session # g /\ token[l].session \in Sessions
      BY <1>2, <1>6 DEF RevokedTokens, ServerTypeOK, Token
    <2>2. QED
      BY <1>4, <2>1 DEF RevokedTokens
  <1>7. QED
    BY <1>1, <1>3, <1>5, <1>6, GrantPreserves

LEMMA GrantsPreserve ==
  ASSUME SessionInv, Grants
  PROVE  SessionInv'
  <1>1. PICK s \in Sessions, k \in Tokens :
          Granted(session, token, s, "guest", k) \/ Granted(session, token, s, "user", k)
    BY DEF Grants
  <1>2. session \in [Sessions -> Session] /\ token \in [Tokens -> Token]
    BY DEF SessionInv, ServerTypeOK
  <1>3. \A r \in Sessions :
          /\ session[r].merged => ~(session[r].kind # "none" /\ session[r].revoked = "no")
          /\ session[r].kind = "none" => session[r].revoked = "no"
    BY DEF SessionInv, MergedGuestIsOut, UnbornIsUnrevoked, Live
  <1>4. QED
    BY <1>1, <1>2, <1>3, GrantPreserves

LEMMA RotatesPreserve ==
  ASSUME SessionInv, Rotates
  PROVE  SessionInv'
  <1>1. ServerTypeOK /\ ServerTypeOK'
    BY ServerType DEF SessionInv, ServerStep, QuietStep
  <1>2. PICK k \in Tokens, new \in Tokens : Rotate(k, new)
    BY DEF Rotates
  <1>3. /\ Usable(k) /\ Live(token[k].session) /\ token[k].session \in Sessions
        /\ new # k /\ ~Usable(new)
        /\ token'[new] = [session |-> token[k].session, consumed |-> FALSE,
                          revoked |-> FALSE]
        /\ ~Usable(k)'
        /\ \A l \in Tokens \ {k, new} : token'[l] = token[l]
        /\ session' = session
    BY <1>1, <1>2, RotateEffect
  <1>4. ASSUME NEW l \in Tokens, Usable(l)'
        PROVE  \/ l = new
               \/ l # k /\ Usable(l) /\ token'[l] = token[l]
    BY <1>3, <1>4 DEF Usable
  <1>5. OneUsableToken'
    <2>1. ASSUME NEW l \in Tokens, NEW m \in Tokens, Usable(l)', Usable(m)',
                 token'[l].session = token'[m].session
          PROVE  l = m
      <3>1. token'[new].session = token[k].session
        BY <1>3
      <3>2. CASE l # new /\ m # new
        BY <1>4, <2>1, <3>2 DEF SessionInv, OneUsableToken
      <3>3. CASE l = new \/ m = new
        BY <1>3, <1>4, <2>1, <3>1, <3>3 DEF SessionInv, OneUsableToken
      <3>4. QED
        BY <3>2, <3>3
    <2>2. QED
      BY <2>1 DEF OneUsableToken
  <1>6. UsableTokenIsLive'
    BY <1>3, <1>4 DEF SessionInv, UsableTokenIsLive, Live
  <1>7. MergedGuestIsOut' /\ UnbornIsUnrevoked'
    BY <1>3 DEF SessionInv, MergedGuestIsOut, UnbornIsUnrevoked, Live
  <1>8. QED
    BY <1>1, <1>5, <1>6, <1>7 DEF SessionInv

LEMMA RevokesPreserve ==
  ASSUME SessionInv, Revokes
  PROVE  SessionInv'
  <1>1. ServerTypeOK /\ ServerTypeOK'
    BY ServerType DEF SessionInv, ServerStep, QuietStep
  <1>2. PICK S \in SUBSET Sessions, reason \in Reasons : Revoke(S, reason)
    BY DEF Revokes
  <1>3. session' = RevokedSessions(S, reason) /\ token' = RevokedTokens(S)
    BY <1>2 DEF Revoke
  <1>4. ASSUME NEW l \in Tokens, Usable(l)'
        PROVE  /\ Usable(l) /\ token'[l].session = token[l].session
               /\ token[l].session \in Sessions \ S
    BY <1>1, <1>3, <1>4, RevokedToken DEF Usable, ServerTypeOK, Token
  <1>5. OneUsableToken'
    BY <1>4 DEF SessionInv, OneUsableToken
  <1>6. UsableTokenIsLive'
    <2>1. ASSUME NEW l \in Tokens, Usable(l)'
          PROVE  Live(token[l].session)'
      <3>1. session'[token[l].session] = session[token[l].session]
        BY <1>3, <1>4, <2>1 DEF RevokedSessions
      <3>2. QED
        BY <1>4, <2>1, <3>1 DEF SessionInv, UsableTokenIsLive, Live
    <2>2. QED
      BY <2>1 DEF UsableTokenIsLive
  <1>7. ASSUME NEW s \in Sessions
        PROVE  /\ session'[s].merged = session[s].merged
               /\ session'[s].kind = session[s].kind
               /\ Live(s)' => Live(s)
               /\ ~Live(s) => session'[s].revoked = session[s].revoked
    BY <1>1, <1>3 DEF RevokedSessions, ServerTypeOK, Session, Live, Reasons
  <1>8. MergedGuestIsOut'
    BY <1>7 DEF SessionInv, MergedGuestIsOut
  <1>9. UnbornIsUnrevoked'
    BY <1>7 DEF SessionInv, UnbornIsUnrevoked, Live
  <1>10. QED
    BY <1>1, <1>5, <1>6, <1>8, <1>9 DEF SessionInv

LEMMA ExpiresPreserve ==
  ASSUME SessionInv, Expires
  PROVE  SessionInv'
  <1>1. ServerTypeOK /\ ServerTypeOK'
    BY ServerType DEF SessionInv, ServerStep, QuietStep
  <1>2. token' = token
    BY DEF Expires
  <1>3. ASSUME NEW s \in Sessions
        PROVE  /\ session'[s].merged = session[s].merged
               /\ session'[s].kind = session[s].kind
               /\ session'[s].revoked = session[s].revoked
    BY <1>1 DEF Expires, ServerTypeOK, Session
  <1>4. UsableTokenIsLive'
    <2>1. \A l \in Tokens : Usable(l) => token[l].session \in Sessions
      BY <1>1 DEF Usable, ServerTypeOK, Token
    <2>2. QED
      BY <1>2, <1>3, <2>1 DEF SessionInv, UsableTokenIsLive, Usable, Live
  <1>5. OneUsableToken'
    BY <1>2 DEF SessionInv, OneUsableToken, Usable
  <1>6. MergedGuestIsOut' /\ UnbornIsUnrevoked'
    BY <1>3 DEF SessionInv, MergedGuestIsOut, UnbornIsUnrevoked, Live
  <1>7. QED
    BY <1>1, <1>4, <1>5, <1>6 DEF SessionInv

LEMMA InitSessionInv == Init => SessionInv
  <1> SUFFICES ASSUME Init
               PROVE  SessionInv
    OBVIOUS
  <1>1. ServerTypeOK
    BY InitType DEF TypeOK, ServerTypeOK
  <1>2. \A k \in Tokens : ~Usable(k)
    BY DEF Init, Usable, Unissued
  <1>3. \A s \in Sessions : session[s] = Unborn
    BY DEF Init
  <1>4. OneUsableToken /\ UsableTokenIsLive
    BY <1>2 DEF OneUsableToken, UsableTokenIsLive
  <1>5. MergedGuestIsOut /\ UnbornIsUnrevoked
    BY <1>3 DEF MergedGuestIsOut, UnbornIsUnrevoked, Unborn
  <1>6. QED
    BY <1>1, <1>4, <1>5 DEF SessionInv

LEMMA NextSessionInv == TypeOK /\ SessionInv /\ [Next]_vars => SessionInv'
  <1> SUFFICES ASSUME TypeOK, SessionInv, [Next]_vars
               PROVE  SessionInv'
    OBVIOUS
  <1>1. CASE UNCHANGED server
    BY <1>1 DEF server, SessionInv, ServerTypeOK, OneUsableToken, UsableTokenIsLive,
         MergedGuestIsOut, UnbornIsUnrevoked, Usable, Live
  <1>2. QED
    BY <1>1, NextIsServerStep, RotatesPreserve, RevokesPreserve, GrantsPreserve,
       MergesPreserve, ExpiresPreserve DEF ServerStep, QuietStep

LEMMA SessionInvariant == Spec => []SessionInv
  BY InitSessionInv, NextSessionInv, TypeCorrect, PTL DEF Spec

(* However rotations, retries and revocations are ordered, RotateRefreshToken *)
(* would accept at most one token of a session.                               *)
THEOREM OneToken == Spec => []OneUsableToken
  <1>1. SessionInv => OneUsableToken
    BY DEF SessionInv
  <1>2. QED
    BY <1>1, SessionInvariant, PTL

(* A rotation that races a revocation leaves no token behind that could be *)
(* refreshed (revokeSessionTx, revokePrincipalSessionsTx).                 *)
THEOREM RevokedSessionHasNoToken == Spec => []UsableTokenIsLive
  <1>1. SessionInv => UsableTokenIsLive
    BY DEF SessionInv
  <1>2. QED
    BY <1>1, SessionInvariant, PTL

(* mergeGuestPrincipal signs the guest out in the transaction that merges it. *)
THEOREM MergedGuestSignedOut == Spec => []MergedGuestIsOut
  <1>1. SessionInv => MergedGuestIsOut
    BY DEF SessionInv
  <1>2. QED
    BY <1>1, SessionInvariant, PTL

LEMMA RevokedStays ==
  ASSUME TypeOK, SessionInv, [Next]_vars, NEW s \in Sessions, session[s].revoked # "no"
  PROVE  session'[s].revoked = session[s].revoked
  <1>1. session \in [Sessions -> Session] /\ ~Live(s) /\ session[s].kind # "none"
    BY DEF SessionInv, ServerTypeOK, UnbornIsUnrevoked, Live
  <1>2. CASE Rotates \/ UNCHANGED server
    BY <1>2 DEF Rotates, Rotate, server
  <1>3. CASE Revokes
    BY <1>1, <1>3 DEF Revokes, Revoke, RevokedSessions
  <1>4. CASE Grants
    BY <1>1, <1>4 DEF Grants, Granted
  <1>5. CASE Merges
    <2>1. PICK g \in Sessions, r \in Sessions, k \in Tokens :
            /\ Live(g)
            /\ Granted(MergedSessions(g), RevokedTokens({g}), r, "user", k)
      BY <1>5 DEF Merges
    <2>2. s # g /\ s # r
      BY <1>1, <2>1 DEF Granted
    <2>3. session'[s] = MergedSessions(g)[s]
      <3>1. MergedSessions(g) \in [Sessions -> Session]
        BY MergedSessionsType DEF SessionInv
      <3>2. QED
        BY <2>1, <2>2, <3>1 DEF Granted
    <2>4. QED
      BY <1>1, <2>2, <2>3 DEF MergedSessions
  <1>6. CASE Expires
    BY <1>1, <1>6 DEF Expires, Session
  <1>7. QED
    BY <1>2, <1>3, <1>4, <1>5, <1>6, NextIsServerStep DEF ServerStep, QuietStep

(* No later event replaces the first reason a session was revoked for, and *)
(* none revives the session (COALESCE in revokeSessionTx).                 *)
THEOREM RevocationFinal == Spec => RevocationIsFinal
  <1>1. TypeOK /\ SessionInv /\ [Next]_vars =>
          [\A s \in Sessions :
             session[s].revoked # "no" => session'[s].revoked = session[s].revoked]_vars
    BY RevokedStays
  <1>2. QED
    BY <1>1, TypeCorrect, SessionInvariant, PTL DEF Spec, RevocationIsFinal

-----------------------------------------------------------------------------
(* The browser, with one tab.  The inductive invariant says where the one   *)
(* token that a session can be renewed with is: in the cookie, in an answer *)
(* under way, or nowhere because the tab is about to forget the session.    *)

OneTab == \A t, u \in Tabs : t = u

\* What was issued belongs to a session, and dies with it.
IssuedTokens ==
  \A k \in Tokens : token[k].session # NoSession =>
    /\ session[token[k].session].kind # "none"
    /\ token[k].revoked => ~Live(token[k].session)

Fresh(k) == k \in Tokens /\ token[k].session # NoSession /\ ~token[k].consumed

\* No token is presented twice.  The cookie is one that was consumed only while the
\* answer which replaces it is under way; what an answer carries was never presented.
TokensAgree(t) ==
  /\ cookie # NoToken /\ token[cookie].consumed => refresh[t].phase \in {"granted", "refused"}
  /\ refresh[t].phase = "sent" => refresh[t].token = NoToken \/ Fresh(refresh[t].token)
  /\ refresh[t].phase = "granted" => Fresh(refresh[t].token)
  /\ sign[t].phase = "granted" /\ sign[t].kind # "logout" =>
       /\ Fresh(sign[t].token) /\ sign[t].token # cookie
       /\ refresh[t].phase \in {"sent", "granted"} => sign[t].token # refresh[t].token

TokenInv ==
  ~lost =>
    /\ adrift = {}
    /\ cookie # NoToken => token[cookie].session # NoSession
    /\ \A t \in Tabs : TokensAgree(t)

\* k renews s, if s can still be renewed.
Renews(k, s) ==
  \/ s = NoSession
  \/ /\ session[s].kind # "none"
     /\ Authenticates(s) => k # NoToken /\ Usable(k) /\ token[k].session = s

IdentityAgrees(t) ==
  /\ ~InFlight(refresh[t]) \/ ~InFlight(sign[t])
  /\ ~InFlight(refresh[t]) /\ sign[t].phase # "accept" => Renews(cookie, identity[t])
  /\ refresh[t].phase = "granted" => Renews(refresh[t].token, refresh[t].session)
  /\ refresh[t].phase = "accept" => Renews(cookie, refresh[t].session)
  /\ sign[t].phase = "granted" /\ sign[t].kind # "logout" =>
       Renews(sign[t].token, sign[t].session)
  /\ sign[t].phase = "accept" /\ sign[t].kind # "logout" => Renews(cookie, sign[t].session)

IdentityInv == ~lost /\ ~split => \A t \in Tabs : IdentityAgrees(t)

-----------------------------------------------------------------------------
(* What the server's steps do to issued tokens *)

LEMMA GrantKeepsIssued ==
  ASSUME IssuedTokens, ServerTypeOK,
         NEW sessions \in [Sessions -> Session], NEW tokens \in [Tokens -> Token],
         NEW s \in Sessions, NEW k \in Tokens, NEW kind \in {"guest", "user"},
         Granted(sessions, tokens, s, kind, k),
         \A r \in Sessions : sessions[r].kind = session[r].kind,
         \A l \in Tokens : token[l].session = tokens[l].session /\
           (tokens[l].session # NoSession /\ tokens[l].revoked =>
             ~(sessions[tokens[l].session].kind # "none"
               /\ sessions[tokens[l].session].revoked = "no"))
  PROVE  IssuedTokens'
  <1>1. /\ session'[s] = [kind |-> kind, revoked |-> "no", merged |-> FALSE,
                          expired |-> FALSE]
        /\ \A r \in Sessions \ {s} : session'[r] = sessions[r]
        /\ token'[k] = [session |-> s, consumed |-> FALSE, revoked |-> FALSE]
        /\ \A l \in Tokens \ {k} : token'[l] = tokens[l]
        /\ session[s].kind = "none"
    BY DEF Granted, Unborn, Unissued
  <1>2. ASSUME NEW l \in Tokens \ {k}, token'[l].session # NoSession
        PROVE  /\ session'[token'[l].session].kind # "none"
               /\ token'[l].revoked => ~Live(token[l].session)'
    <2>1. /\ tokens[l].session # NoSession /\ token'[l] = tokens[l]
          /\ tokens[l].session = token[l].session
          /\ tokens[l].session \in Sessions
      BY <1>1, <1>2 DEF Token
    <2>2. session[tokens[l].session].kind # "none" /\ tokens[l].session # s
      BY <1>1, <2>1 DEF IssuedTokens
    <2>3. session'[tokens[l].session] = sessions[tokens[l].session]
      BY <1>1, <2>1, <2>2
    <2>4. sessions[tokens[l].session].kind # "none"
      BY <2>1, <2>2
    <2>5. token'[l].revoked =>
            ~(sessions[tokens[l].session].kind # "none"
              /\ sessions[tokens[l].session].revoked = "no")
      BY <2>1
    <2>6. QED
      BY <2>1, <2>3, <2>4, <2>5 DEF Live
  <1>3. session'[token'[k].session].kind # "none" /\ ~token'[k].revoked
    BY <1>1
  <1>4. QED
    BY <1>2, <1>3 DEF IssuedTokens

LEMMA IssuedStep ==
  ASSUME IssuedTokens, ServerTypeOK, ServerStep
  PROVE  IssuedTokens'
  <1>0. /\ ServerTypeOK' /\ session \in [Sessions -> Session] /\ token \in [Tokens -> Token]
        /\ \A k \in Tokens : token[k].session # NoSession => token[k].session \in Sessions
    BY ServerType DEF ServerTypeOK, Token
  <1>1. CASE Rotates
    <2>1. PICK k \in Tokens, new \in Tokens : Rotate(k, new)
      BY <1>1 DEF Rotates
    <2>2. /\ session' = session /\ Live(token[k].session)
          /\ token'[new] = [session |-> token[k].session, consumed |-> FALSE,
                            revoked |-> FALSE]
          /\ \A l \in Tokens \ {k, new} : token'[l] = token[l]
      BY <1>0, <2>1, RotateEffect
    <2>3. k # new /\ token[k].session # NoSession /\ token[k] \in Token
      BY <1>0, <2>1, RotateEffect DEF Usable
    <2>4. token'[k] = [token[k] EXCEPT !.consumed = TRUE]
      BY <1>0, <2>1, <2>3 DEF Rotate, Rotated
    <2>5. token'[k].session = token[k].session /\ token'[k].revoked = token[k].revoked
      BY <2>3, <2>4 DEF Token
    <2>6. QED
      BY <2>2, <2>3, <2>5 DEF IssuedTokens, Live
  <1>2. CASE Revokes
    <2>1. PICK S \in SUBSET Sessions, reason \in Reasons : Revoke(S, reason)
      BY <1>2 DEF Revokes
    <2>2. session' = RevokedSessions(S, reason) /\ token' = RevokedTokens(S)
      BY <2>1 DEF Revoke
    <2>3. \A k \in Tokens :
            /\ token'[k].session = token[k].session
            /\ token'[k].revoked = (token[k].revoked \/ token[k].session \in S)
      BY <1>0, <2>2, RevokedToken
    <2>4. \A s \in Sessions :
            /\ session'[s].kind = session[s].kind
            /\ s \in S \/ ~Live(s) => ~Live(s)'
      BY <1>0, <2>2 DEF RevokedSessions, Session, Live, Reasons
    <2>5. QED
      BY <1>0, <2>3, <2>4 DEF IssuedTokens
  <1>3. CASE Grants
    BY <1>0, <1>3, GrantKeepsIssued DEF Grants, IssuedTokens, Live
  <1>4. CASE Merges
    <2>1. PICK g \in Sessions, s \in Sessions, k \in Tokens :
            /\ Live(g)
            /\ Granted(MergedSessions(g), RevokedTokens({g}), s, "user", k)
      BY <1>4 DEF Merges
    <2>2. /\ MergedSessions(g) \in [Sessions -> Session]
          /\ RevokedTokens({g}) \in [Tokens -> Token]
      BY <1>0, MergedSessionsType, RevokedTokensType
    <2>3. /\ MergedSessions(g)[g].revoked = "merged"
          /\ MergedSessions(g)[g].kind = session[g].kind
          /\ \A r \in Sessions \ {g} : MergedSessions(g)[r] = session[r]
      BY <1>0 DEF MergedSessions, Session
    <2>4. ASSUME NEW l \in Tokens
          PROVE  /\ token[l].session = RevokedTokens({g})[l].session
                 /\ RevokedTokens({g})[l].session # NoSession /\ RevokedTokens({g})[l].revoked =>
                      ~(MergedSessions(g)[RevokedTokens({g})[l].session].kind # "none"
                        /\ MergedSessions(g)[RevokedTokens({g})[l].session].revoked = "no")
      <3>1. /\ RevokedTokens({g})[l].session = token[l].session
            /\ RevokedTokens({g})[l].revoked = (token[l].revoked \/ token[l].session \in {g})
        BY <1>0, RevokedToken
      <3>2. CASE token[l].session = g
        BY <2>3, <3>1, <3>2
      <3>3. CASE token[l].session # g
        BY <1>0, <2>3, <3>1, <3>3 DEF IssuedTokens, Live
      <3>4. QED
        BY <3>2, <3>3
    <2>5. \A r \in Sessions : MergedSessions(g)[r].kind = session[r].kind
      BY <2>3
    <2>6. QED
      BY <1>0, <2>1, <2>2, <2>4, <2>5, GrantKeepsIssued
  <1>5. CASE Expires
    <2>1. \A s \in Sessions :
            session'[s].kind = session[s].kind /\ session'[s].revoked = session[s].revoked
      BY <1>0, <1>5 DEF Expires, Session
    <2>2. token' = token
      BY <1>5 DEF Expires
    <2>3. QED
      BY <1>0, <2>1, <2>2 DEF IssuedTokens, Live
  <1>6. CASE UNCHANGED server
    BY <1>6 DEF server, IssuedTokens, Live
  <1>7. QED
    BY <1>1, <1>2, <1>3, <1>4, <1>5, <1>6 DEF ServerStep, QuietStep

LEMMA IssuedIsInvariant == Spec => []IssuedTokens
  <1>1. Init => IssuedTokens
    BY DEF Init, IssuedTokens, Unissued
  <1>2. TypeOK /\ IssuedTokens /\ [Next]_vars => IssuedTokens'
    BY NextIsServerStep, IssuedStep, TypeOKParts
  <1>3. QED
    BY <1>1, <1>2, TypeCorrect, PTL DEF Spec

\* A quiet step consumes nothing, and takes a token only from a session that can no
\* longer be renewed.
LEMMA QuietKeeps ==
  ASSUME ServerTypeOK, QuietStep, NEW k \in Tokens, token[k].session # NoSession
  PROVE  token'[k].session = token[k].session /\ token'[k].consumed = token[k].consumed
  <1>1. CASE Revokes
    <2>1. PICK S \in SUBSET Sessions : token' = RevokedTokens(S)
      BY <1>1 DEF Revokes, Revoke
    <2>2. QED
      BY <2>1, RevokedToken
  <1>2. CASE Grants
    BY <1>2 DEF Grants, Granted, ServerTypeOK
  <1>3. CASE Merges
    <2>1. PICK g \in Sessions, s \in Sessions, l \in Tokens :
            Granted(MergedSessions(g), RevokedTokens({g}), s, "user", l)
      BY <1>3 DEF Merges
    <2>2. k # l /\ token'[k] = RevokedTokens({g})[k]
      BY <2>1, RevokedTokensType DEF Granted
    <2>3. QED
      BY <2>2, RevokedToken
  <1>4. CASE Expires \/ UNCHANGED server
    BY <1>4 DEF Expires, server
  <1>5. QED
    BY <1>1, <1>2, <1>3, <1>4 DEF QuietStep

LEMMA QuietFresh ==
  ASSUME ServerTypeOK, QuietStep, NEW k, Fresh(k)
  PROVE  Fresh(k)'
  BY QuietKeeps DEF Fresh

LEMMA QuietRenews ==
  ASSUME ServerTypeOK, QuietStep, NEW k \in Tokens \cup {NoToken},
         NEW s \in Sessions \cup {NoSession}, Renews(k, s)
  PROVE  Renews(k, s)'
  <1> SUFFICES ASSUME s \in Sessions, s # NoSession, session[s].kind # "none"
               PROVE  /\ session'[s].kind # "none"
                      /\ Authenticates(s)' =>
                           /\ Authenticates(s)
                           /\ k \in Tokens /\ Usable(k) /\ token[k].session = s =>
                                token'[k] = token[k]
    BY DEF Renews, Usable
  <1>0. session \in [Sessions -> Session] /\ token \in [Tokens -> Token]
    BY DEF ServerTypeOK
  <1>1. CASE Revokes
    <2>1. PICK S \in SUBSET Sessions, reason \in Reasons : Revoke(S, reason)
      BY <1>1 DEF Revokes
    <2>2. session' = RevokedSessions(S, reason) /\ token' = RevokedTokens(S)
      BY <2>1 DEF Revoke
    <2>3. CASE s \in S
      BY <1>0, <2>2, <2>3 DEF RevokedSessions, Authenticates, Live, Session, Reasons
    <2>4. CASE s \notin S
      BY <1>0, <2>2, <2>4 DEF RevokedSessions, RevokedTokens, Authenticates, Live
    <2>5. QED
      BY <2>3, <2>4
  <1>2. CASE Grants
    BY <1>0, <1>2, SessionAssumption DEF Grants, Granted, Authenticates, Live
  <1>3. CASE Merges
    <2>1. PICK g \in Sessions, r \in Sessions, l \in Tokens :
            Granted(MergedSessions(g), RevokedTokens({g}), r, "user", l)
      BY <1>3 DEF Merges
    <2>2. /\ s # r /\ session'[s] = MergedSessions(g)[s]
          /\ k \in Tokens /\ token[k].session = s =>
               k # l /\ token'[k] = RevokedTokens({g})[k]
      BY <1>0, <2>1, MergedSessionsType, RevokedTokensType DEF Granted
    <2>3. CASE s = g
      BY <1>0, <2>2, <2>3 DEF MergedSessions, Authenticates, Live, Session
    <2>4. CASE s # g
      BY <1>0, <2>2, <2>4 DEF MergedSessions, RevokedTokens, Authenticates, Live
    <2>5. QED
      BY <2>3, <2>4
  <1>4. CASE Expires
    BY <1>0, <1>4 DEF Expires, Authenticates, Live, Session
  <1>5. CASE UNCHANGED server
    BY <1>5 DEF server, Authenticates, Live
  <1>6. QED
    BY <1>1, <1>2, <1>3, <1>4, <1>5 DEF QuietStep

-----------------------------------------------------------------------------
(* No token is presented twice *)

TokensOK(t) ==
  /\ adrift = {}
  /\ cookie # NoToken => token[cookie].session # NoSession
  /\ TokensAgree(t)

LEMMA CallOf ==
  ASSUME TypeOK, NEW t \in Tabs
  PROVE  /\ refresh[t] \in Call /\ sign[t] \in Call
         /\ refresh \in [Tabs -> Call] /\ sign \in [Tabs -> Call]
         /\ refresh[t].token \in Tokens \cup {NoToken}
         /\ refresh[t].session \in Sessions \cup {NoSession}
         /\ sign[t].token \in Tokens \cup {NoToken}
         /\ sign[t].session \in Sessions \cup {NoSession}
         /\ cookie \in Tokens \cup {NoToken}
         /\ identity \in [Tabs -> Sessions \cup {NoSession}]
         /\ ServerTypeOK
  BY DEF TypeOK, Call, ServerTypeOK

\* Steps of the tab that do not reach the server.
LEMMA PageTokens ==
  ASSUME TypeOK, NEW t \in Tabs, TokensOK(t), ~lost',
         \/ SendRefresh(t) \/ SendSign(t) \/ RefreshError(t) \/ RefreshArrives(t)
         \/ RefreshSettles(t) \/ LoseRefresh(t) \/ SignArrives(t) \/ SignSettles(t)
         \/ LoseSign(t) \/ BodyFails(t) \/ Reload(t)
  PROVE  TokensOK(t)'
  <1>0. /\ refresh[t] \in Call /\ sign[t] \in Call
        /\ refresh \in [Tabs -> Call] /\ sign \in [Tabs -> Call]
        /\ cookie \in Tokens \cup {NoToken}
    BY CallOf
  <1>1. token' = token
    BY DEF SendRefresh, SendSign, RefreshError, RefreshArrives, RefreshSettles, LoseRefresh,
           SignArrives, SignSettles, LoseSign, BodyFails, Reload
  <1>2. CASE SendRefresh(t)
    <2>1. /\ refresh'[t].phase = "sent" /\ refresh'[t].token = cookie
          /\ UNCHANGED <<cookie, sign, adrift>> /\ refresh[t].phase = "none"
      BY <1>0, <1>2 DEF SendRefresh, InFlight, Call
    <2>2. QED
      BY <1>0, <1>1, <2>1 DEF TokensOK, TokensAgree, Fresh
  <1>3. CASE SendSign(t)
    <2>1. sign'[t].phase = "sent" /\ UNCHANGED <<cookie, refresh, adrift>>
      BY <1>0, <1>3 DEF SendSign, NoCall
    <2>2. QED
      BY <1>1, <2>1 DEF TokensOK, TokensAgree, Fresh
  <1>4. CASE RefreshError(t)
    <2>1. /\ refresh'[t].phase \in {"refused", "failed"} /\ refresh[t].phase = "sent"
          /\ UNCHANGED <<cookie, sign, adrift>>
      BY <1>0, <1>4 DEF RefreshError, RefreshRefusal, Answered, NoCall
    <2>2. QED
      BY <1>1, <2>1 DEF TokensOK, TokensAgree, Fresh
  <1>5. CASE RefreshArrives(t)
    <2>1. /\ refresh'[t].phase \in {"accept", "reject"} /\ UNCHANGED <<sign, adrift>>
          /\ refresh[t].phase \in {"granted", "refused", "failed"}
          /\ cookie' = RefreshCookie(refresh[t])
      BY <1>0, <1>5 DEF RefreshArrives, Call
    <2>2. CASE refresh[t].phase = "granted"
      BY <1>1, <2>1, <2>2, SessionAssumption DEF TokensOK, TokensAgree, Fresh, RefreshCookie
    <2>3. CASE refresh[t].phase = "refused"
      BY <1>1, <2>1, <2>3, SessionAssumption DEF TokensOK, TokensAgree, Fresh, RefreshCookie
    <2>4. CASE refresh[t].phase = "failed"
      BY <1>1, <2>1, <2>4 DEF TokensOK, TokensAgree, Fresh, RefreshCookie
    <2>5. QED
      BY <2>1, <2>2, <2>3, <2>4
  <1>6. CASE RefreshSettles(t)
    <2>1. /\ refresh'[t].phase = "none" /\ UNCHANGED <<cookie, sign, adrift>>
          /\ refresh[t].phase \in {"accept", "reject"}
      BY <1>0, <1>6 DEF RefreshSettles, NoCall
    <2>2. QED
      BY <1>1, <2>1 DEF TokensOK, TokensAgree, Fresh
  <1>7. CASE LoseRefresh(t)
    BY <1>7 DEF LoseRefresh
  <1>8. CASE SignArrives(t)
    <2>1. /\ sign'[t].phase \in {"accept", "reject"} /\ UNCHANGED <<refresh, adrift>>
          /\ \/ cookie' = cookie \/ cookie' = NoToken
             \/ /\ sign[t].phase = "granted" /\ sign[t].kind # "logout"
                /\ cookie' = sign[t].token
      BY <1>0, <1>8 DEF SignArrives, Call
    <2>2. QED
      BY <1>1, <2>1 DEF TokensOK, TokensAgree, Fresh
  <1>9. CASE SignSettles(t) \/ LoseSign(t)
    <2>1. sign'[t].phase = "none" /\ UNCHANGED <<cookie, refresh, adrift>>
      BY <1>0, <1>9 DEF SignSettles, LoseSign, NoCall
    <2>2. QED
      BY <1>1, <2>1 DEF TokensOK, TokensAgree, Fresh
  <1>10. CASE BodyFails(t)
    <2>1. /\ UNCHANGED <<cookie, adrift>>
          /\ \/ refresh[t].phase = "accept" /\ refresh'[t].phase = "reject" /\ sign' = sign
             \/ sign'[t].phase = "reject" /\ refresh' = refresh
      BY <1>0, <1>10 DEF BodyFails, Answered, NoCall
    <2>2. QED
      BY <1>1, <2>1 DEF TokensOK, TokensAgree, Fresh
  <1>11. CASE Reload(t)
    <2>1. /\ refresh[t].phase \in {"none", "accept", "reject"}
          /\ refresh'[t].phase = "none" /\ sign'[t].phase = "none"
          /\ UNCHANGED <<cookie, adrift>>
      BY <1>0, <1>11 DEF Reload, Abandoned, NoCall, Call
    <2>2. QED
      BY <1>1, <2>1 DEF TokensOK, TokensAgree, Fresh
  <1>12. QED
    BY <1>2, <1>3, <1>4, <1>5, <1>6, <1>7, <1>8, <1>9, <1>10, <1>11

\* A quiet step of the server, with what the tab's calls become.
LEMMA QuietTokens ==
  ASSUME TypeOK, QuietStep, NEW t \in Tabs, TokensOK(t), UNCHANGED <<cookie, adrift>>,
         \/ refresh'[t] = refresh[t]
         \/ refresh[t].phase = "sent" /\ refresh'[t].phase \in {"refused", "failed"},
         \/ sign'[t] = sign[t]
         \/ sign'[t].phase = "granted" /\ sign'[t].kind # "logout" =>
              /\ Fresh(sign[t].token)' /\ token[sign'[t].token].session = NoSession
  PROVE  TokensOK(t)'
  <1>0. ServerTypeOK /\ cookie \in Tokens \cup {NoToken}
    BY CallOf
  <1>1. cookie # NoToken =>
          /\ token'[cookie].session = token[cookie].session
          /\ token'[cookie].consumed = token[cookie].consumed
    BY <1>0, QuietKeeps DEF TokensOK
  <1>2. \A k : Fresh(k) => Fresh(k)'
    BY <1>0, QuietFresh
  <1>3. refresh'[t].phase \in {"sent", "granted"} =>
          /\ refresh'[t] = refresh[t]
          /\ refresh[t].token = NoToken \/ Fresh(refresh[t].token)
    BY DEF TokensOK, TokensAgree
  <1>4. QED
    BY <1>1, <1>2, <1>3, SessionAssumption DEF TokensOK, TokensAgree, Fresh

LEMMA ServeRefreshTokens ==
  ASSUME TypeOK, NEW t \in Tabs, TokensOK(t), ServeRefresh(t)
  PROVE  TokensOK(t)'
  <1>0. /\ refresh[t] \in Call /\ refresh \in [Tabs -> Call] /\ ServerTypeOK
        /\ refresh[t].token \in Tokens \cup {NoToken} /\ cookie \in Tokens \cup {NoToken}
        /\ refresh[t].phase = "sent" /\ UNCHANGED <<cookie, sign, adrift>>
    BY CallOf DEF ServeRefresh
  <1> SUFFICES ASSUME NEW k, k = refresh[t].token PROVE TokensOK(t)'
    OBVIOUS
  <1>1. ASSUME NEW new \in Tokens, Rotate(k, new),
               \/ refresh'[t].phase = "granted" /\ refresh'[t].token = new
               \/ refresh'[t].phase = "refused"
        PROVE  TokensOK(t)'
    <2>1. k \in Tokens
      BY <1>0, <1>1 DEF Rotate, Rotatable
    <2>2. /\ token[new].session = NoSession /\ new # k /\ token[k].session # NoSession
          /\ token'[new].session = token[k].session /\ ~token'[new].consumed
          /\ token'[k].session = token[k].session
          /\ \A l \in Tokens \ {k, new} : token'[l] = token[l]
      <3>1. token[k] \in Token /\ token[new].session = NoSession /\ token[k].session # NoSession
        BY <1>0, <1>1, <2>1 DEF Rotate, Rotatable, Usable, ServerTypeOK
      <3>2. token'[k] = [token[k] EXCEPT !.consumed = TRUE]
        BY <1>0, <1>1, <2>1, <3>1 DEF Rotate, Rotated, ServerTypeOK
      <3>3. token'[k].session = token[k].session
        BY <3>1, <3>2 DEF Token
      <3>4. /\ new # k
            /\ token'[new] = [session |-> token[k].session, consumed |-> FALSE,
                              revoked |-> FALSE]
            /\ \A l \in Tokens \ {k, new} : token'[l] = token[l]
        BY <1>0, <1>1, <2>1, RotateEffect
      <3>5. QED
        BY <3>1, <3>3, <3>4
    <2>3. \A l : Fresh(l) /\ l # k => Fresh(l)' /\ l # new
      BY <2>2 DEF Fresh
    <2>4. cookie # NoToken => cookie # new /\ token'[cookie].session # NoSession
      BY <1>0, <2>2 DEF TokensOK
    <2>5. cookie # NoToken /\ token'[cookie].consumed =>
            refresh'[t].phase \in {"granted", "refused"}
      BY <1>1
    <2>6. refresh'[t].phase = "granted" => refresh'[t].token = new /\ Fresh(new)'
      BY <1>1, <2>2 DEF Fresh
    <2>7. sign[t].phase = "granted" /\ sign[t].kind # "logout" =>
            Fresh(sign[t].token)' /\ sign[t].token # new
      BY <1>0, <2>3 DEF TokensOK, TokensAgree
    <2>8. QED
      BY <1>0, <1>1, <2>4, <2>5, <2>6, <2>7 DEF TokensOK, TokensAgree
  <1>2. ASSUME Reject(k), refresh'[t].phase \in {"refused", "failed"}
        PROVE  TokensOK(t)'
    BY <1>0, <1>2, RejectIsQuiet, QuietTokens
  <1>3. ASSUME NEW new \in Tokens,
               \/ refresh' = [refresh EXCEPT ![t].phase = "granted", ![t].token = new,
                                             ![t].session = token[k].session]
               \/ refresh' = [refresh EXCEPT ![t] = Answered(@, "refused")]
        PROVE  \/ refresh'[t].phase = "granted" /\ refresh'[t].token = new
               \/ refresh'[t].phase = "refused"
    BY <1>0, <1>3 DEF Answered, NoCall, Call
  <1>4. ASSUME refresh' = [refresh EXCEPT ![t] = Answered(@, RefreshRefusal(k))]
        PROVE  refresh'[t].phase \in {"refused", "failed"}
    BY <1>0, <1>4 DEF Answered, NoCall, RefreshRefusal
  <1>5. QED
    BY <1>1, <1>2, <1>3, <1>4 DEF ServeRefresh

LEMMA ServeSignTokens ==
  ASSUME TypeOK, NEW t \in Tabs, TokensOK(t), ServeSign(t)
  PROVE  TokensOK(t)'
  <1>0. /\ sign[t] \in Call /\ sign \in [Tabs -> Call] /\ ServerTypeOK
        /\ UNCHANGED <<cookie, refresh, adrift>> /\ QuietStep
    BY CallOf, ServeSignIsQuiet DEF ServeSign
  <1>1. ASSUME sign'[t].phase = "granted", sign'[t].kind # "logout"
        PROVE  Fresh(sign[t].token)' /\ token[sign'[t].token].session = NoSession
    <2>1. PICK s \in Sessions, k \in Tokens :
            /\ \/ Granted(session, token, s, "guest", k) \/ SignIn(sign[t].session, s, k)
            /\ sign' = [sign EXCEPT ![t].phase = "granted", ![t].session = s, ![t].token = k]
      BY <1>0, <1>1, ZenonT(40) DEF ServeSign, Answered, NoCall
    <2>2. token[k].session = NoSession /\ token'[k] = [Unissued EXCEPT !.session = s]
      BY <1>0, <2>1, RevokedTokensType DEF SignIn, Granted, ServerTypeOK
    <2>3. sign'[t].token = k
      BY <1>0, <2>1 DEF Call
    <2>4. QED
      BY <2>2, <2>3, SessionAssumption DEF Fresh, Unissued
  <1>2. QED
    BY <1>0, <1>1, QuietTokens

LEMMA ElsewhereIsQuiet ==
  ASSUME TypeOK,
         \/ \E s \in Sessions : RevokeDevice(s) \/ Expire(s)
         \/ RevokeAll \/ UNCHANGED server
  PROVE  QuietStep
  <1>1. ASSUME NEW s \in Sessions, RevokeDevice(s)
        PROVE  QuietStep
    BY <1>1 DEF RevokeDevice, QuietStep, Revokes, Reasons
  <1>2. ASSUME RevokeAll
        PROVE  QuietStep
    <2>1. {s \in Sessions : session[s].kind = "user"} \in SUBSET Sessions
      OBVIOUS
    <2>2. QED
      BY <1>2, <2>1 DEF RevokeAll, QuietStep, Revokes, Reasons
  <1>3. ASSUME NEW s \in Sessions, Expire(s)
        PROVE  QuietStep
    BY <1>3 DEF Expire, QuietStep, Expires
  <1>4. QED
    BY <1>1, <1>2, <1>3 DEF QuietStep

LEMMA LostStays ==
  ASSUME [Next]_vars, TypeOK
  PROVE  (lost => lost') /\ (split => split')
  BY ZenonT(40) DEF Next, vars, Tab, Elsewhere, SendRefresh, SendSign, ServeRefresh, RefreshError,
         ServeAdrift, ServeSign, RefreshArrives, RefreshSettles, SignArrives, SignSettles,
         BodyFails, LoseRefresh, LoseSign, Reload, RevokeDevice, RevokeAll, Expire,
         CookieExpires, TypeOK

LEMMA TokenStep ==
  ASSUME OneTab, TypeOK, TokenInv, [Next]_vars
  PROVE  TokenInv'
  <1> SUFFICES ASSUME ~lost'
               PROVE  /\ adrift' = {}
                      /\ cookie' # NoToken => token'[cookie'].session # NoSession
                      /\ \A t \in Tabs : TokensAgree(t)'
    BY DEF TokenInv
  <1>1. /\ adrift = {} /\ (cookie # NoToken => token[cookie].session # NoSession)
        /\ \A t \in Tabs : TokensOK(t)
    BY LostStays DEF TokenInv, TokensOK
  <1>2. ASSUME NEW t \in Tabs, Tab(t)
        PROVE  /\ TokensOK(t)' /\ \A u \in Tabs : u = t
    BY <1>1, <1>2, PageTokens, ServeRefreshTokens, ServeSignTokens DEF Tab, OneTab
  <1>3. ASSUME QuietStep, UNCHANGED <<cookie, adrift, refresh, sign>>
        PROVE  /\ adrift' = {}
               /\ cookie' # NoToken => token'[cookie'].session # NoSession
               /\ \A t \in Tabs : TokensAgree(t)'
    <2>1. cookie # NoToken => token'[cookie].session # NoSession
      BY <1>1, <1>3, QuietKeeps, TypeOKParts DEF BrowserTypeOK
    <2>2. \A t \in Tabs : TokensOK(t)'
      BY <1>1, <1>3, QuietTokens
    <2>3. QED
      BY <1>1, <1>3, <2>1, <2>2 DEF TokensOK
  <1>4. CASE CookieExpires
    BY <1>1, <1>4, SessionAssumption DEF CookieExpires, TokensOK, TokensAgree, Fresh
  <1>5. \A k \in Tokens : ~ServeAdrift(k)
    BY <1>1 DEF ServeAdrift
  <1>6. CASE \/ \E s \in Sessions : RevokeDevice(s) \/ Expire(s)
             \/ RevokeAll \/ UNCHANGED vars
    BY <1>3, <1>6, ElsewhereIsQuiet DEF RevokeDevice, Expire, RevokeAll, vars, server
  <1>7. CASE \E t \in Tabs : Tab(t)
    BY <1>2, <1>7 DEF TokensOK
  <1>8. QED
    BY <1>4, <1>5, <1>6, <1>7 DEF Next, Elsewhere

\* Revocation for reuse: only of a session that a consumed token was presented for.
LEMMA RejectsNoReuse ==
  ASSUME ServerTypeOK, IssuedTokens, NEW k, k = NoToken \/ Fresh(k), Reject(k),
         NEW s \in Sessions, session'[s].revoked = "reuse"
  PROVE  session[s].revoked = "reuse"
  <1>1. CASE Unknown(k)
    BY <1>1 DEF Reject, server
  <1>2. CASE ~Unknown(k) /\ ~token[k].revoked
    <2>1. session' = session \/ session' = RevokedSessions({token[k].session}, "expired")
      BY <1>2 DEF Reject, Fresh, Unknown, server, Revoke
    <2>2. QED
      BY <2>1 DEF RevokedSessions, ServerTypeOK, Session
  <1>3. CASE ~Unknown(k) /\ token[k].revoked
    <2>1. session' = RevokedSessions({token[k].session}, "reuse") /\ ~Live(token[k].session)
      BY <1>3 DEF Reject, Fresh, Unknown, Revoke, IssuedTokens
    <2>2. QED
      BY <2>1 DEF RevokedSessions
  <1>4. QED
    BY <1>1, <1>2, <1>3

LEMMA GrantsNoReuse ==
  ASSUME ServerTypeOK, NEW t \in Tabs, ServeSign(t), NEW s \in Sessions,
         session'[s].revoked = "reuse"
  PROVE  session[s].revoked = "reuse"
  <1>1. ASSUME NEW r \in Sessions, NEW k \in Tokens, NEW kind,
               Granted(session, token, r, kind, k)
        PROVE  session[s].revoked = "reuse"
    BY <1>1 DEF Granted, Unborn, ServerTypeOK
  <1>2. ASSUME NEW g, NEW r \in Sessions, NEW k \in Tokens,
               Granted(MergedSessions(g), RevokedTokens({g}), r, "user", k)
        PROVE  session[s].revoked = "reuse"
    <2>1. s # r /\ MergedSessions(g)[s].revoked = "reuse"
      BY <1>2 DEF Granted, Unborn, MergedSessions, ServerTypeOK
    <2>2. MergedSessions(g)[s].revoked \in {session[s].revoked, "merged"}
      BY DEF MergedSessions, ServerTypeOK, Session
    <2>3. QED
      BY <2>1, <2>2
  <1>3. ASSUME NEW S, Revoke(S, "logout")
        PROVE  session[s].revoked = "reuse"
    BY <1>3 DEF Revoke, RevokedSessions, ServerTypeOK, Session
  <1>4. QED
    BY <1>1, <1>2, <1>3 DEF ServeSign, SignIn, server

LEMMA SerializedStep ==
  ASSUME OneTab, TypeOK, IssuedTokens, TokenInv, SerializedRefresh, [Next]_vars
  PROVE  SerializedRefresh'
  <1> SUFFICES ASSUME ~lost', NEW s \in Sessions, session'[s].revoked = "reuse"
               PROVE  session[s].revoked = "reuse"
    BY LostStays DEF SerializedRefresh
  <1>0. ~lost /\ adrift = {} /\ ServerTypeOK
    BY LostStays, TypeOKParts DEF TokenInv
  <1>1. ASSUME NEW t \in Tabs, ServeRefresh(t)
        PROVE  session[s].revoked = "reuse"
    <2>1. refresh[t].token = NoToken \/ Fresh(refresh[t].token)
      BY <1>0, <1>1 DEF TokenInv, TokensAgree, ServeRefresh
    <2>2. session' = session \/ Reject(refresh[t].token)
      BY <1>1 DEF ServeRefresh, Rotate
    <2>3. QED
      BY <1>0, <2>1, <2>2, RejectsNoReuse
  <1>2. ASSUME NEW t \in Tabs, Tab(t), ~ServeRefresh(t), ~ServeSign(t)
        PROVE  session' = session
    BY <1>2 DEF Tab, SendRefresh, SendSign, RefreshError, RefreshArrives, RefreshSettles,
         LoseRefresh, SignArrives, SignSettles, LoseSign, BodyFails, Reload
  <1>3. CASE \E t \in Tabs : Tab(t)
    BY <1>0, <1>1, <1>2, <1>3, GrantsNoReuse
  <1>4. CASE Elsewhere
    <2>1. ASSUME NEW S, Revoke(S, "logout")
          PROVE  session[s].revoked = "reuse"
      BY <1>0, <2>1 DEF Revoke, RevokedSessions, ServerTypeOK, Session
    <2>2. ASSUME NEW r \in Sessions, Expire(r)
          PROVE  session[s].revoked = "reuse"
      BY <1>0, <2>2 DEF Expire, ServerTypeOK, Session
    <2>3. QED
      BY <1>0, <1>4, <2>1, <2>2
         DEF Elsewhere, ServeAdrift, RevokeDevice, RevokeAll, CookieExpires
  <1>5. CASE UNCHANGED vars
    BY <1>5 DEF vars
  <1>6. QED
    BY <1>3, <1>4, <1>5 DEF Next

LEMMA TokensAreInvariant == OneTab /\ Spec => []TokenInv
  <1>1. OneTab /\ Init => OneTab /\ TokenInv
    BY SessionAssumption DEF Init, TokenInv, TokensAgree, NoCall
  <1>2. TypeOK /\ OneTab /\ TokenInv /\ [Next]_vars => (OneTab /\ TokenInv)'
    BY TokenStep DEF OneTab
  <1>3. QED
    BY <1>1, <1>2, TypeCorrect, PTL DEF Spec

(* docs/api-compatibility.md: with one tab, whose refreshOnce lets one refresh *)
(* run at a time, RotateRefreshToken never revokes a session for the reuse of  *)
(* a token, unless the answer of a refresh was lost.                           *)
THEOREM OneTabIsSerialized == OneTab /\ Spec => []SerializedRefresh
  <1>1. OneTab /\ Init => OneTab /\ SerializedRefresh
    BY DEF Init, SerializedRefresh, Unborn
  <1>2. TypeOK /\ IssuedTokens /\ TokenInv /\ OneTab /\ SerializedRefresh /\ [Next]_vars =>
          (OneTab /\ SerializedRefresh)'
    BY SerializedStep DEF OneTab
  <1>3. QED
    BY <1>1, <1>2, TypeCorrect, IssuedIsInvariant, TokensAreInvariant, PTL DEF Spec

-----------------------------------------------------------------------------
(* A tab that speaks for a session has the cookie that renews it *)

LEMMA PageIdentity ==
  ASSUME TypeOK, NEW t \in Tabs, IdentityAgrees(t), ~lost', ~split',
         \/ SendRefresh(t) \/ SendSign(t) \/ RefreshError(t) \/ RefreshArrives(t)
         \/ RefreshSettles(t) \/ LoseRefresh(t) \/ SignArrives(t) \/ SignSettles(t)
         \/ LoseSign(t) \/ BodyFails(t) \/ Reload(t)
  PROVE  IdentityAgrees(t)'
  <1>0. /\ refresh[t] \in Call /\ sign[t] \in Call
        /\ refresh \in [Tabs -> Call] /\ sign \in [Tabs -> Call]
        /\ identity \in [Tabs -> Sessions \cup {NoSession}]
    BY CallOf
  <1>1. UNCHANGED <<session, token>>
    BY DEF SendRefresh, SendSign, RefreshError, RefreshArrives, RefreshSettles, LoseRefresh,
           SignArrives, SignSettles, LoseSign, BodyFails, Reload
  <1>2. \A k, s : Renews(k, s)' <=> Renews(k, s)
    BY <1>1 DEF Renews, Usable, Authenticates, Live
  <1>3. \A k : Renews(k, NoSession)
    BY DEF Renews
  <1>4. CASE SendRefresh(t)
    <2>1. /\ refresh'[t].phase = "sent" /\ sign[t].phase = "none"
          /\ UNCHANGED <<cookie, sign, identity>>
      BY <1>0, <1>4 DEF SendRefresh, InFlight, Call
    <2>2. QED
      BY <1>2, <2>1 DEF IdentityAgrees, InFlight
  <1>5. CASE SendSign(t)
    <2>1. /\ sign'[t].phase = "sent" /\ refresh[t].phase = "none" /\ sign[t].phase = "none"
          /\ UNCHANGED <<cookie, refresh, identity>>
      BY <1>0, <1>5 DEF SendSign, InFlight, NoCall
    <2>2. QED
      BY <1>2, <2>1 DEF IdentityAgrees, InFlight
  <1>6. CASE RefreshError(t)
    <2>1. /\ refresh'[t].phase \in {"refused", "failed"} /\ refresh[t].phase = "sent"
          /\ UNCHANGED <<cookie, sign, identity>>
      BY <1>0, <1>6 DEF RefreshError, RefreshRefusal, Answered, NoCall
    <2>2. QED
      BY <1>2, <2>1 DEF IdentityAgrees, InFlight
  <1>7. CASE RefreshArrives(t)
    <2>1. /\ refresh'[t].phase = IF refresh[t].phase = "granted" THEN "accept" ELSE "reject"
          /\ refresh'[t].session = refresh[t].session /\ UNCHANGED <<sign, identity>>
          /\ refresh[t].phase \in {"granted", "refused", "failed"}
          /\ cookie' = RefreshCookie(refresh[t])
      BY <1>0, <1>7 DEF RefreshArrives, Call
    <2>2. QED
      BY <1>2, <2>1 DEF IdentityAgrees, InFlight, RefreshCookie
  <1>8. CASE RefreshSettles(t)
    <2>1. /\ refresh'[t].phase = "none" /\ UNCHANGED <<cookie, sign>>
          /\ refresh[t].phase \in {"accept", "reject"}
          /\ identity'[t] = RefreshedIdentity(t)
      BY <1>0, <1>8 DEF RefreshSettles, NoCall
    <2>2. QED
      BY <1>2, <1>3, <2>1 DEF IdentityAgrees, InFlight, RefreshedIdentity
  <1>9. CASE LoseRefresh(t)
    BY <1>9 DEF LoseRefresh
  <1>10. CASE SignArrives(t)
    <2>1. /\ sign' = [sign EXCEPT ![t].phase = IF @ = "granted" THEN "accept" ELSE "reject",
                                  ![t].token = NoToken]
          /\ sign[t].phase \in {"granted", "refused"} /\ UNCHANGED <<refresh, identity>>
          /\ sign[t].phase = "refused" => cookie' = cookie
          /\ sign[t].phase = "granted" /\ sign[t].kind # "logout" => cookie' = sign[t].token
      BY <1>10 DEF SignArrives
    <2>2. /\ sign[t].phase = "granted" => sign'[t].phase = "accept"
          /\ sign[t].phase = "refused" => sign'[t].phase = "reject"
          /\ sign'[t].kind = sign[t].kind /\ sign'[t].session = sign[t].session
      BY <1>0, <2>1 DEF Call
    <2>3. QED
      BY <1>2, <2>1, <2>2 DEF IdentityAgrees, InFlight
  <1>11. CASE SignSettles(t)
    <2>1. /\ sign'[t].phase = "none" /\ UNCHANGED <<cookie, refresh>>
          /\ sign[t].phase \in {"accept", "reject"}
          /\ sign[t].kind = "logout" => identity'[t] = NoSession
          /\ sign[t].kind # "logout" /\ sign[t].phase = "accept" =>
               identity'[t] = sign[t].session
          /\ sign[t].kind # "logout" /\ sign[t].phase = "reject" => identity'[t] = identity[t]
      BY <1>0, <1>11 DEF SignSettles, NoCall
    <2>2. QED
      BY <1>2, <1>3, <2>1 DEF IdentityAgrees, InFlight
  <1>12. CASE LoseSign(t)
    <2>1. /\ sign'[t].phase = "none" /\ UNCHANGED <<cookie, refresh>>
          /\ sign[t].phase \in {"sent", "granted", "refused"}
          /\ identity'[t] \in {identity[t], NoSession}
      BY <1>0, <1>12 DEF LoseSign, NoCall
    <2>2. QED
      BY <1>2, <1>3, <2>1 DEF IdentityAgrees, InFlight
  <1>13. CASE BodyFails(t)
    <2>1. /\ UNCHANGED <<cookie, identity, sign>>
          /\ refresh[t].phase = "accept" /\ refresh'[t].phase = "reject"
      BY <1>0, <1>13 DEF BodyFails, Answered, NoCall
    <2>2. QED
      BY <1>2, <2>1 DEF IdentityAgrees, InFlight
  <1>14. CASE Reload(t)
    <2>1. /\ refresh'[t].phase = "none" /\ sign'[t].phase = "none"
          /\ identity'[t] = NoSession
      BY <1>0, <1>14 DEF Reload, NoCall
    <2>2. QED
      BY <1>2, <1>3, <2>1 DEF IdentityAgrees, InFlight
  <1>15. QED
    BY <1>4, <1>5, <1>6, <1>7, <1>8, <1>9, <1>10, <1>11, <1>12, <1>13, <1>14

\* A quiet step of the server, with what the tab's calls become.
LEMMA QuietIdentity ==
  ASSUME TypeOK, QuietStep, NEW t \in Tabs, IdentityAgrees(t), UNCHANGED <<cookie, identity>>,
         \/ refresh'[t] = refresh[t]
         \/ refresh[t].phase = "sent" /\ refresh'[t].phase \in {"refused", "failed"},
         \/ sign'[t] = sign[t]
         \/ /\ sign[t].phase = "sent" /\ sign'[t].phase \in {"granted", "refused"}
            /\ sign'[t].phase = "granted" /\ sign'[t].kind # "logout" =>
                 Renews(sign[t].token, sign[t].session)'
  PROVE  IdentityAgrees(t)'
  <1>0. /\ ServerTypeOK /\ cookie \in Tokens \cup {NoToken}
        /\ refresh[t].token \in Tokens \cup {NoToken}
        /\ refresh[t].session \in Sessions \cup {NoSession}
        /\ sign[t].token \in Tokens \cup {NoToken}
        /\ sign[t].session \in Sessions \cup {NoSession}
        /\ identity[t] \in Sessions \cup {NoSession}
    BY CallOf
  <1>1. \A k \in Tokens \cup {NoToken}, s \in Sessions \cup {NoSession} :
          Renews(k, s) => Renews(k, s)'
    BY <1>0, QuietRenews
  <1>2. QED
    BY <1>0, <1>1 DEF IdentityAgrees, InFlight

LEMMA ServeRefreshIdentity ==
  ASSUME TypeOK, NEW t \in Tabs, IdentityAgrees(t), ServeRefresh(t)
  PROVE  IdentityAgrees(t)'
  <1>0. /\ refresh[t] \in Call /\ refresh \in [Tabs -> Call] /\ ServerTypeOK
        /\ refresh[t].token \in Tokens \cup {NoToken}
        /\ refresh[t].phase = "sent" /\ UNCHANGED <<cookie, identity, sign>>
    BY CallOf DEF ServeRefresh
  <1> SUFFICES ASSUME NEW k, k = refresh[t].token PROVE IdentityAgrees(t)'
    OBVIOUS
  <1>1. ASSUME NEW new \in Tokens, Rotate(k, new),
               \/ /\ refresh'[t].phase = "granted" /\ refresh'[t].token = new
                  /\ refresh'[t].session = token[k].session
               \/ refresh'[t].phase = "refused"
        PROVE  IdentityAgrees(t)'
    <2>1. k \in Tokens /\ Authenticates(token[k].session)
      BY <1>0, <1>1 DEF Rotate, Rotatable
    <2>2. /\ token'[new] = [session |-> token[k].session, consumed |-> FALSE,
                            revoked |-> FALSE]
          /\ session' = session
      BY <1>0, <1>1, <2>1, RotateEffect
    <2>3. ASSUME NEW s, s = token[k].session
          PROVE  Renews(new, s)'
      BY <2>1, <2>2, <2>3, SessionAssumption DEF Renews, Usable, Authenticates, Live
    <2>4. sign[t].phase = "none"
      BY <1>0 DEF IdentityAgrees, InFlight
    <2>5. QED
      BY <1>0, <1>1, <2>3, <2>4 DEF IdentityAgrees, InFlight
  <1>2. ASSUME Reject(k), refresh'[t].phase \in {"refused", "failed"}
        PROVE  IdentityAgrees(t)'
    BY <1>0, <1>2, RejectIsQuiet, QuietIdentity
  <1>3. ASSUME NEW new \in Tokens,
               \/ refresh' = [refresh EXCEPT ![t].phase = "granted", ![t].token = new,
                                             ![t].session = token[k].session]
               \/ refresh' = [refresh EXCEPT ![t] = Answered(@, "refused")]
        PROVE  \/ /\ refresh'[t].phase = "granted" /\ refresh'[t].token = new
                  /\ refresh'[t].session = token[k].session
               \/ refresh'[t].phase = "refused"
    BY <1>0, <1>3 DEF Answered, NoCall, Call
  <1>4. ASSUME refresh' = [refresh EXCEPT ![t] = Answered(@, RefreshRefusal(k))]
        PROVE  refresh'[t].phase \in {"refused", "failed"}
    BY <1>0, <1>4 DEF Answered, NoCall, RefreshRefusal
  <1>5. QED
    BY <1>1, <1>2, <1>3, <1>4 DEF ServeRefresh

LEMMA ServeSignIdentity ==
  ASSUME TypeOK, NEW t \in Tabs, IdentityAgrees(t), ServeSign(t)
  PROVE  IdentityAgrees(t)'
  <1>0. /\ sign[t] \in Call /\ sign \in [Tabs -> Call] /\ ServerTypeOK
        /\ sign[t].phase = "sent"
        /\ UNCHANGED <<cookie, identity, refresh>> /\ QuietStep
    BY CallOf, ServeSignIsQuiet DEF ServeSign
  <1>1. ASSUME sign'[t].phase = "granted", sign'[t].kind # "logout"
        PROVE  Renews(sign[t].token, sign[t].session)'
    <2>1. PICK s \in Sessions, k \in Tokens :
            /\ \/ Granted(session, token, s, "guest", k) \/ SignIn(sign[t].session, s, k)
            /\ sign' = [sign EXCEPT ![t].phase = "granted", ![t].session = s, ![t].token = k]
      BY <1>0, <1>1 DEF ServeSign, Answered, NoCall
    <2>2. PICK kind \in {"guest", "user"} :
            \/ Granted(session, token, s, kind, k)
            \/ \E g \in Sessions : Granted(MergedSessions(g), RevokedTokens({g}), s, kind, k)
      BY <1>0, <2>1, CallOf DEF SignIn, Authenticates
    <2>3. /\ token'[k] = [Unissued EXCEPT !.session = s]
          /\ session'[s] = [Unborn EXCEPT !.kind = kind]
      BY <1>0, <2>2, RevokedTokensType, MergedSessionsType DEF Granted, ServerTypeOK
    <2>4. sign'[t].token = k /\ sign'[t].session = s
      BY <1>0, <2>1 DEF Call
    <2>5. Renews(k, s)'
      BY <2>3, SessionAssumption DEF Renews, Usable, Unissued, Unborn
    <2>6. QED
      BY <2>4, <2>5
  <1>2. sign'[t].phase \in {"granted", "refused"}
    <2>1. ASSUME NEW phase, sign' = [sign EXCEPT ![t] = Answered(@, phase)]
          PROVE  sign'[t].phase = phase
      BY <1>0, <2>1 DEF Answered, NoCall
    <2>2. ASSUME NEW s, NEW k,
                 sign' = [sign EXCEPT ![t].phase = "granted", ![t].session = s, ![t].token = k]
          PROVE  sign'[t].phase = "granted"
      BY <1>0, <2>2 DEF Call
    <2>3. QED
      BY <2>1, <2>2 DEF ServeSign
  <1>3. QED
    BY <1>0, <1>1, <1>2, QuietIdentity

LEMMA IdentityStep ==
  ASSUME OneTab, TypeOK, TokenInv, IdentityInv, [Next]_vars
  PROVE  IdentityInv'
  <1> SUFFICES ASSUME ~lost', ~split', NEW u \in Tabs
               PROVE  IdentityAgrees(u)'
    BY DEF IdentityInv
  <1>1. adrift = {} /\ IdentityAgrees(u)
    BY LostStays DEF TokenInv, IdentityInv
  <1>2. ASSUME NEW t \in Tabs, Tab(t)
        PROVE  IdentityAgrees(u)'
    <2>1. t = u
      BY DEF OneTab
    <2>2. QED
      BY <1>1, <1>2, <2>1, PageIdentity, ServeRefreshIdentity, ServeSignIdentity DEF Tab
  <1>3. CASE CookieExpires
    <2>1. /\ UNCHANGED <<session, token, identity, refresh, sign>> /\ cookie' = NoToken
          /\ session[token[cookie].session].expired
      BY <1>3 DEF CookieExpires
    <2>2. \A s : Renews(cookie, s) => Renews(NoToken, s)'
      BY <2>1 DEF Renews, Authenticates, Live
    <2>3. \A k, s : Renews(k, s)' <=> Renews(k, s)
      BY <2>1 DEF Renews, Usable, Authenticates, Live
    <2>4. QED
      BY <1>1, <2>1, <2>2, <2>3 DEF IdentityAgrees, InFlight
  <1>4. \A k \in Tokens : ~ServeAdrift(k)
    BY <1>1 DEF ServeAdrift
  <1>5. CASE \/ \E s \in Sessions : RevokeDevice(s) \/ Expire(s)
             \/ RevokeAll \/ UNCHANGED vars
    BY <1>1, <1>5, ElsewhereIsQuiet, QuietIdentity
       DEF RevokeDevice, Expire, RevokeAll, vars, server
  <1>6. QED
    BY <1>2, <1>3, <1>4, <1>5 DEF Next, Elsewhere

(* identity.ts: with one tab, an identity that no call is about to replace is *)
(* renewed by the cookie, through every rotation, refusal, revocation, expiry *)
(* and reload, unless an answer was lost or two calls overlapped.             *)
THEOREM IdentityRenews == OneTab /\ Spec => []IdentityHasItsCookie
  <1>1. OneTab /\ Init => OneTab /\ IdentityInv
    BY DEF Init, IdentityInv, IdentityAgrees, Renews, NoCall, InFlight
  <1>2. TypeOK /\ TokenInv /\ OneTab /\ IdentityInv /\ [Next]_vars => (OneTab /\ IdentityInv)'
    BY IdentityStep DEF OneTab
  <1>3. OneTab /\ IdentityInv => IdentityHasItsCookie
    BY DEF IdentityInv, IdentityAgrees, IdentityHasItsCookie, Renews, InFlight, Authenticates
  <1>4. QED
    BY <1>1, <1>2, <1>3, TypeCorrect, TokensAreInvariant, PTL DEF Spec
=============================================================================
