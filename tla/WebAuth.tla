------------------------------ MODULE WebAuth ------------------------------
(***************************************************************************)
(* The login sessions of the web console: the tabs of one browser profile, *)
(* each with its in-memory credentials (stores/auth-store.ts,              *)
(* lib/auth-session.ts, lib/http-client.ts, features/auth/api.ts), the     *)
(* cookie, the Web Lock and the broadcast channel they share, and the      *)
(* server's session rows that a refresh rotates                            *)
(* (controller/auth_session.go, service/auth_session.go,                   *)
(* model/user_session.go).                                                 *)
(*                                                                         *)
(* A request is answered by the server in the step that sends it, with the *)
(* cookie and the headers of that moment; its answer is then in flight and *)
(* may arrive late, after other answers, or never.  Its Set-Cookie takes   *)
(* effect when it arrives.  Left out: a request that the server only       *)
(* serves after the tab that sent it was reloaded, and a status other than *)
(* 200, 401, 409, 429 and 5xx.  SessionCookieOriginGuard's 403 is one, the *)
(* same for every refresh of a deployment that refuses its own origin.     *)
(* All sessions belong to one account.                                     *)
(***************************************************************************)
EXTENDS Naturals, Sequences, FiniteSets

CONSTANTS
    Tabs,         \* tabs of the browser profile
    NoTab,        \* nobody holds the Web Lock
    MaxSessions,  \* bound: logins
    MaxGen,       \* bound: rotations of one session's refresh secret
    MaxVer,       \* bound: security changes (password, 2FA, passkey)
    MaxOps        \* bound: sign-ins, sign-outs, revocations, security changes,
                  \* token expiries and page reloads

ASSUME WebAuthAssumption ==
    /\ MaxSessions \in Nat \ {0}
    /\ MaxGen \in Nat
    /\ MaxVer \in Nat
    /\ MaxOps \in Nat
    /\ NoTab \notin Tabs

NoSid == 0
Sids == 1 .. MaxSessions
NoCookie == [sid |-> NoSid, gen |-> 0]

VARIABLES
    \* server: user_sessions rows
    issued,     \* number of sessions created so far
    alive,      \* rows with status active
    gen,        \* generation of the row's refresh_hash; the secret before it
                \* is previous_refresh_hash
    grace,      \* rows whose previous_valid_until is not over
    ver,        \* session and user auth version access tokens must carry
    reused,     \* rows revoked with reason "refresh_reuse"
    \* browser
    webLocks,   \* navigator.locks exists (never changes)
    cookie,     \* refresh cookie: session and generation of its secret
    holder,     \* tab that holds the lock "new-api:auth-refresh"
    inbox,      \* session events on their way to each tab
    \* the memory of each tab
    session,    \* auth.session.sid; user and access token come and go with it
    token,      \* version carried by the access token
    expired,    \* tabs whose access token is past access_expires_at
    boot,       \* auth.bootstrapState
    refresh,    \* the refresh behind refreshPromise
    mayRetry,   \* its allowMismatchRetry
    superseded, \* tabs whose authEpoch moved since their refresh started
    reply,      \* answer on its way to the refresh
    outcome,    \* the RefreshOutcome the operation waited for
    op,         \* what the user or the page is doing
    opSid,      \* the session it concerns
    opVer,      \* the version it was given, for a security change
    opClears,   \* tabs whose operation's answer deletes the cookie
    \* history
    ops,        \* operations counted against MaxOps
    lost,       \* sessions of which a rotation answer was lost
    left        \* revoked sessions each tab has signed out of

serverVars == <<issued, alive, gen, grace, ver, reused>>
refreshVars == <<refresh, mayRetry, superseded, reply>>
storeVars == <<session, token, expired, boot>>
opVars == <<op, opSid, opVer, opClears, outcome>>
vars == <<serverVars, webLocks, cookie, holder, inbox, storeVars, refreshVars,
          opVars, ops, lost, left>>

Cookies == [sid : Sids, gen : 0 .. MaxGen] \cup {NoCookie}
Replies == [code : {"none", "ok", "mismatch", "unauthorized"},
            cookie : Cookies, ver : 0 .. MaxVer]
NoReply == [code |-> "none", cookie |-> NoCookie, ver |-> 0]
Events == [kind : {"authenticated", "signed_out"}, sid : Sids]

TypeOK ==
    /\ issued \in 0 .. MaxSessions
    /\ alive \in SUBSET Sids
    /\ gen \in [Sids -> 0 .. MaxGen]
    /\ grace \in SUBSET Sids
    /\ ver \in 0 .. MaxVer
    /\ reused \in SUBSET Sids
    /\ webLocks \in BOOLEAN
    /\ cookie \in Cookies
    /\ holder \in Tabs \cup {NoTab}
    /\ inbox \in [Tabs -> Seq(Events)]
    /\ session \in [Tabs -> Sids \cup {NoSid}]
    /\ token \in [Tabs -> 0 .. MaxVer]
    /\ expired \in SUBSET Tabs
    /\ boot \in [Tabs -> {"idle", "checking", "complete"}]
    /\ refresh \in [Tabs -> {"none", "waiting", "flight"}]
    /\ mayRetry \in SUBSET Tabs
    /\ superseded \in SUBSET Tabs
    /\ reply \in [Tabs -> Replies]
    /\ outcome \in [Tabs -> {"none", "authenticated", "anonymous", "transient"}]
    /\ op \in [Tabs -> {"idle", "login", "logout", "logoutRefresh",
                        "logoutAgain", "security", "revoke", "callRefresh",
                        "callAgain401"}]
    /\ opSid \in [Tabs -> Sids \cup {NoSid}]
    /\ opVer \in [Tabs -> 0 .. MaxVer]
    /\ opClears \in SUBSET Tabs
    /\ ops \in 0 .. MaxOps
    /\ lost \in SUBSET Sids
    /\ left \in [Tabs -> SUBSET Sids]

\* Cold tabs, with or without the cookie of an earlier visit.
Init ==
    /\ issued \in {0, 1}
    /\ alive = 1 .. issued
    /\ gen = [s \in Sids |-> 0]
    /\ grace = {}
    /\ ver = 0
    /\ reused = {}
    /\ webLocks \in BOOLEAN
    /\ cookie = [sid |-> issued, gen |-> 0]
    /\ holder = NoTab
    /\ inbox = [t \in Tabs |-> <<>>]
    /\ session = [t \in Tabs |-> NoSid]
    /\ token = [t \in Tabs |-> 0]
    /\ expired = {}
    /\ boot = [t \in Tabs |-> "idle"]
    /\ refresh = [t \in Tabs |-> "none"]
    /\ mayRetry = {}
    /\ superseded = {}
    /\ reply = [t \in Tabs |-> NoReply]
    /\ outcome = [t \in Tabs |-> "none"]
    /\ op = [t \in Tabs |-> "idle"]
    /\ opSid = [t \in Tabs |-> NoSid]
    /\ opVer = [t \in Tabs |-> 0]
    /\ opClears = {}
    /\ ops = 0
    /\ lost = {}
    /\ left = [t \in Tabs |-> {}]

-----------------------------------------------------------------------------
(* The tab's store and what it tells other tabs.                           *)

\* ValidateLoginSession: what the server accepts as access token.
TokenValid(t) ==
    /\ session[t] \in alive
    /\ t \notin expired
    /\ token[t] = ver

\* Mutant: the epoch is forgotten.
BumpEpochForgotten(t) == UNCHANGED superseded

\* authEpoch += 1, as a running refresh will notice it.
BumpEpoch(t) ==
    superseded' = IF refresh[t] = "none" THEN superseded ELSE superseded \cup {t}

\* auth.setBundle
SetBundle(t, s, v) ==
    /\ session' = [session EXCEPT ![t] = s]
    /\ token' = [token EXCEPT ![t] = v]
    /\ expired' = expired \ {t}
    /\ boot' = [boot EXCEPT ![t] = "complete"]

\* auth.reset
Reset(t, state) ==
    /\ session' = [session EXCEPT ![t] = NoSid]
    /\ token' = [token EXCEPT ![t] = 0]
    /\ expired' = expired \ {t}
    /\ boot' = [boot EXCEPT ![t] = state]

\* publishAuthSessionEvent: a message to every other tab.
Publish(t, kind, s) ==
    inbox' = [u \in Tabs |->
                 IF u = t THEN inbox[u]
                 ELSE Append(inbox[u], [kind |-> kind, sid |-> s])]

\* Mutant: published without a session to name.
PublishAlways(told, t, kind, s) ==
    IF told THEN Publish(t, kind, s) ELSE UNCHANGED inbox

\* The same, unless there is no session to name or nobody is to be told.
PublishIf(told, t, kind, s) ==
    IF told /\ s # NoSid THEN Publish(t, kind, s) ELSE UNCHANGED inbox

\* applyAuthBundle
ApplyAuthBundle(t, s, v, synchronizeTabs) ==
    /\ BumpEpoch(t)
    /\ SetBundle(t, s, v)
    /\ PublishIf(synchronizeTabs /\ session[t] # s, t, "authenticated", s)

\* History: the tab gives up a session the server has revoked.
SignsOut(t) ==
    left' = [left EXCEPT ![t] = @ \cup ({session[t]} \cap (Sids \ alive))]

\* clearAuthentication
ClearAuthentication(t, synchronizeTabs) ==
    /\ BumpEpoch(t)
    /\ Reset(t, "complete")
    /\ PublishIf(synchronizeTabs, t, "signed_out", session[t])
    /\ SignsOut(t)

EndOp(t) ==
    /\ op' = [op EXCEPT ![t] = "idle"]
    /\ opSid' = [opSid EXCEPT ![t] = NoSid]
    /\ opVer' = [opVer EXCEPT ![t] = 0]
    /\ opClears' = opClears \ {t}
    /\ outcome' = [outcome EXCEPT ![t] = "none"]

StartOp(t, what, s, v) ==
    /\ op' = [op EXCEPT ![t] = what]
    /\ opSid' = [opSid EXCEPT ![t] = s]
    /\ opVer' = [opVer EXCEPT ![t] = v]
    /\ outcome' = [outcome EXCEPT ![t] = "none"]
    /\ UNCHANGED opClears

\* It awaits refreshAuthentication.
Waiting(t) == op[t] \in {"callRefresh", "logoutRefresh"} /\ outcome[t] = "none"

-----------------------------------------------------------------------------
(* The refresh behind refreshPromise.                                      *)

\* refreshAuthentication: one refresh per tab, joined by later callers.
RefreshAuthentication(t) ==
    IF refresh[t] # "none"
    THEN UNCHANGED refreshVars
    ELSE /\ refresh' = [refresh EXCEPT ![t] = "waiting"]
         /\ mayRetry' = mayRetry \cup {t}
         /\ superseded' = superseded \ {t}
         /\ UNCHANGED reply

\* Mutant: the lock is not released.
StopRefreshLocked(t) ==
    /\ refresh' = [refresh EXCEPT ![t] = "none"]
    /\ mayRetry' = mayRetry \ {t}
    /\ superseded' = superseded \ {t}
    /\ reply' = [reply EXCEPT ![t] = NoReply]
    /\ UNCHANGED holder

\* The lock callback returns and refreshPromise is null again.
StopRefresh(t) ==
    /\ refresh' = [refresh EXCEPT ![t] = "none"]
    /\ mayRetry' = mayRetry \ {t}
    /\ superseded' = superseded \ {t}
    /\ reply' = [reply EXCEPT ![t] = NoReply]
    /\ holder' = IF holder = t THEN NoTab ELSE holder

\* The promise settles, for an operation that waits for it.
EndRefresh(t, kind) ==
    /\ StopRefresh(t)
    /\ outcome' = IF Waiting(t) THEN [outcome EXCEPT ![t] = kind] ELSE outcome
    /\ UNCHANGED <<op, opSid, opVer, opClears>>

\* Mutant: refreshes of different tabs overlap.
LockIgnored(t) == TRUE

\* performRefreshWithBrowserLock: the lock is free or already this tab's.
LockGranted(t) == ~webLocks \/ holder \in {NoTab, t}

TakeLock(t) == holder' = IF webLocks THEN t ELSE holder

\* The request leaves and the server answers.
Answer(t, code, c, v) ==
    /\ refresh' = [refresh EXCEPT ![t] = "flight"]
    /\ reply' = [reply EXCEPT ![t] = [code |-> code, cookie |-> c, ver |-> v]]
    /\ TakeLock(t)
    /\ UNCHANGED <<mayRetry, superseded>>

\* RefreshLoginSession / RotateUserSessionRefresh for the cookie and the
\* X-Auth-Session header of the tab.
RefreshSent(t) ==
    /\ refresh[t] = "waiting"
    /\ LockGranted(t)
    /\ t \notin superseded

ServerMismatch(t) ==
    /\ RefreshSent(t)
    /\ cookie.sid # NoSid
    /\ session[t] # NoSid /\ session[t] # cookie.sid
    /\ Answer(t, "mismatch", NoCookie, 0)
    /\ UNCHANGED serverVars

\* No mismatch: the cookie's row is looked at.
CookieMatches(t) ==
    /\ RefreshSent(t)
    /\ cookie.sid # NoSid
    /\ session[t] \in {NoSid, cookie.sid}

ServerRotate(t) ==
    LET s == cookie.sid IN
    /\ CookieMatches(t)
    /\ s \in alive
    /\ cookie.gen = gen[s] /\ gen[s] < MaxGen
    /\ gen' = [gen EXCEPT ![s] = @ + 1]
    /\ grace' = grace \cup {s}
    /\ Answer(t, "ok", [sid |-> s, gen |-> gen[s] + 1], ver)
    /\ UNCHANGED <<issued, alive, ver, reused>>

\* The previous secret inside its window: the same successor is returned.
ServerReplay(t) ==
    LET s == cookie.sid IN
    /\ CookieMatches(t)
    /\ s \in alive
    /\ cookie.gen + 1 = gen[s] /\ s \in grace
    /\ Answer(t, "ok", [sid |-> s, gen |-> gen[s]], ver)
    /\ UNCHANGED serverVars

\* The previous secret after its window: the session is revoked.
ServerReuse(t) ==
    LET s == cookie.sid IN
    /\ CookieMatches(t)
    /\ s \in alive
    /\ cookie.gen + 1 = gen[s] /\ s \notin grace
    /\ alive' = alive \ {s}
    /\ reused' = reused \cup {s}
    /\ Answer(t, "unauthorized", NoCookie, 0)
    /\ UNCHANGED <<issued, gen, grace, ver>>

\* No cookie, a session that is not active, or an unknown secret.
ServerReject(t) ==
    /\ \/ RefreshSent(t) /\ cookie.sid = NoSid
       \/ /\ CookieMatches(t)
          /\ cookie.sid \notin alive \/ cookie.gen + 1 < gen[cookie.sid]
    /\ Answer(t, "unauthorized", NoCookie, 0)
    /\ UNCHANGED serverVars

ServerAnswers(t) ==
    /\ \/ ServerMismatch(t) \/ ServerRotate(t) \/ ServerReplay(t)
       \/ ServerReuse(t) \/ ServerReject(t)
    /\ UNCHANGED <<cookie, inbox, storeVars, opVars, lost, left>>

\* isCurrent is false before the request, once the lock was granted.
RefreshSuperseded(t) ==
    /\ refresh[t] = "waiting"
    /\ LockGranted(t)
    /\ t \in superseded
    /\ EndRefresh(t, "transient")
    /\ UNCHANGED <<serverVars, cookie, inbox, storeVars, lost, left>>

\* The answer arrives: the browser stores its cookie (401 clears it), then
\* createRefreshRunner goes on, unless the refresh was superseded.
CookieAfter(r) == IF r.code = "mismatch" THEN cookie ELSE r.cookie

ReplySuperseded(t) ==
    /\ t \in superseded
    /\ EndRefresh(t, "transient")
    /\ UNCHANGED <<storeVars, inbox, left>>

ReplyOk(t) ==
    /\ t \notin superseded
    /\ reply[t].code = "ok"
    /\ SetBundle(t, reply[t].cookie.sid, reply[t].ver)
    /\ EndRefresh(t, "authenticated")
    /\ UNCHANGED <<inbox, left>>

\* AUTH_SESSION_MISMATCH: forget the stale session, ask once more without it.
\* The epoch does not move.
ReplyMismatch(t) ==
    /\ t \notin superseded
    /\ reply[t].code = "mismatch"
    /\ t \in mayRetry
    /\ Reset(t, "idle")
    /\ refresh' = [refresh EXCEPT ![t] = "waiting"]
    /\ mayRetry' = mayRetry \ {t}
    /\ reply' = [reply EXCEPT ![t] = NoReply]
    /\ UNCHANGED <<superseded, holder, opVars, inbox, left>>

\* Mutant: a refused refresh is taken for a temporary failure.
ReplyUnauthorizedKept(t) ==
    /\ t \notin superseded
    /\ reply[t].code = "unauthorized"
    /\ EndRefresh(t, "transient")
    /\ UNCHANGED <<storeVars, inbox, left>>

ReplyUnauthorized(t) ==
    /\ t \notin superseded
    /\ reply[t].code = "unauthorized"
    /\ Reset(t, "complete")
    /\ PublishIf(TRUE, t, "signed_out", session[t])
    /\ SignsOut(t)
    /\ EndRefresh(t, "anonymous")

RefreshReply(t) ==
    /\ refresh[t] = "flight"
    /\ cookie' = CookieAfter(reply[t])
    /\ \/ ReplySuperseded(t) \/ ReplyOk(t) \/ ReplyMismatch(t)
       \/ ReplyUnauthorized(t)
    /\ UNCHANGED <<serverVars, lost>>

\* Sessions whose rotation the browser does not hear of.
LostRotation(t) ==
    IF reply[t].code = "ok" THEN lost \cup {reply[t].cookie.sid} ELSE lost

\* The request or its answer is lost, or the server fails (status 0, 429 or
\* 5xx): markTransient, unless superseded.
RefreshFails(t) ==
    /\ \/ refresh[t] = "waiting" /\ LockGranted(t) /\ t \notin superseded
       \/ refresh[t] = "flight"
    /\ boot' = IF t \in superseded THEN boot ELSE [boot EXCEPT ![t] = "idle"]
    /\ EndRefresh(t, "transient")
    /\ lost' = LostRotation(t)
    /\ UNCHANGED <<serverVars, cookie, inbox, session, token, expired, left>>

-----------------------------------------------------------------------------
(* Who asks for a refresh.                                                 *)

\* The cookie the tab's operation leaves when its answer arrives.
OpCookie(t) ==
    IF op[t] = "login" THEN [sid |-> opSid[t], gen |-> 0]
    ELSE IF t \in opClears THEN NoCookie ELSE cookie

\* A full page load: the tab's memory starts from nothing and a lock it held
\* is released; an answer in flight may still leave its cookie.
LoadPage(t) ==
    /\ Reset(t, "idle")
    /\ StopRefresh(t)
    /\ EndOp(t)
    /\ inbox' = [inbox EXCEPT ![t] = <<>>]
    /\ \/ /\ cookie' \in {cookie, OpCookie(t)}
          /\ lost' = LostRotation(t)
       \/ /\ refresh[t] = "flight"
          /\ cookie' = CookieAfter(reply[t])
          /\ lost' = lost

Reload(t) ==
    /\ LoadPage(t)
    /\ UNCHANGED <<serverVars, left>>

\* bootstrapAuthentication, in the root route's beforeLoad of a navigation.
Navigate(t) ==
    /\ \/ /\ session[t] # NoSid /\ t \notin expired
          /\ boot[t] # "complete"
          /\ boot' = [boot EXCEPT ![t] = "complete"]
          /\ UNCHANGED refreshVars
       \/ /\ session[t] = NoSid \/ t \in expired
          /\ ~(boot[t] = "complete" /\ session[t] = NoSid)
          /\ boot' = [boot EXCEPT ![t] = "checking"]
          /\ RefreshAuthentication(t)
    /\ UNCHANGED <<serverVars, cookie, holder, inbox, session, token, expired,
                   opVars, lost, left>>

\* getFreshAuthHeaders, for a token that is absent, expired or about to expire.
GetFreshAuthHeaders(t) ==
    /\ refresh[t] = "none"
    /\ RefreshAuthentication(t)
    /\ UNCHANGED <<serverVars, cookie, holder, inbox, storeVars, opVars, lost,
                   left>>

-----------------------------------------------------------------------------
(* Requests of the page, and the 401 interceptor.                          *)

\* A request whose token the server no longer accepts waits for a refresh; the
\* request, its 401 and the start of the refresh are one step.
Call(t) ==
    /\ op[t] = "idle"
    /\ session[t] # NoSid
    /\ ~TokenValid(t)
    /\ op' = [op EXCEPT ![t] = "callRefresh"]
    /\ RefreshAuthentication(t)
    /\ UNCHANGED <<serverVars, cookie, holder, inbox, storeVars, opSid, opVer,
                   opClears, outcome, lost, left>>

\* redirectToSignIn: a page load, unless the tab is on that page already.
RedirectToSignIn(t) ==
    \/ LoadPage(t)
    \/ EndOp(t) /\ UNCHANGED <<storeVars, refreshVars, holder, inbox, cookie, lost>>

\* The refresh the request waits for has settled.
CallResumes(t) ==
    /\ op[t] = "callRefresh"
    /\ \/ /\ outcome[t] = "authenticated"
          /\ IF TokenValid(t)
             THEN EndOp(t)
             ELSE StartOp(t, "callAgain401", NoSid, 0)
          /\ UNCHANGED <<storeVars, refreshVars, holder, inbox, cookie, lost>>
       \/ outcome[t] = "anonymous" /\ RedirectToSignIn(t)
       \/ /\ outcome[t] = "transient"
          /\ EndOp(t)
          /\ UNCHANGED <<storeVars, refreshVars, holder, inbox, cookie, lost>>
    /\ UNCHANGED <<serverVars, left>>

\* The repeated request is refused too.
CallAgainRefused(t) ==
    /\ op[t] = "callAgain401"
    /\ \/ /\ ClearAuthentication(t, FALSE)
          /\ EndOp(t)
          /\ UNCHANGED <<refresh, mayRetry, reply, holder, cookie, lost>>
       \/ /\ LoadPage(t)
          /\ SignsOut(t)
    /\ UNCHANGED serverVars

-----------------------------------------------------------------------------
(* Signing in and out.                                                     *)

\* login, login2fa and the OAuth callbacks, from a page without a session.
Login(t) ==
    /\ op[t] = "idle"
    /\ session[t] = NoSid
    /\ issued < MaxSessions
    /\ issued' = issued + 1
    /\ alive' = alive \cup {issued + 1}
    /\ StartOp(t, "login", issued + 1, ver)
    /\ UNCHANGED <<gen, grace, ver, reused, cookie, holder, inbox, storeVars,
                   refreshVars, lost, left>>

\* handleLoginSuccess
LoginReply(t) ==
    /\ op[t] = "login"
    /\ cookie' = OpCookie(t)
    /\ ApplyAuthBundle(t, opSid[t], opVer[t], TRUE)
    /\ EndOp(t)
    /\ UNCHANGED <<serverVars, holder, refresh, mayRetry, reply, lost, left>>

\* The request carries an access token that ParseAccessToken accepts.
Bearer(t) == session[t] # NoSid /\ t \notin expired

\* AuthLogout: its answer, and the row it revokes, if any.
LogoutMismatch(t) ==
    /\ session[t] # NoSid /\ cookie.sid # NoSid
    /\ session[t] # cookie.sid

LogoutRevokes(t) ==
    IF Bearer(t)
    THEN {session[t]}
    ELSE {s \in {cookie.sid} \cap Sids :
             \/ cookie.gen = gen[s]
             \/ cookie.gen + 1 = gen[s] /\ s \in grace}

\* executeLogout's request when the server accepts it.
LogoutAccepted(t, done) ==
    /\ ~LogoutMismatch(t)
    /\ op' = [op EXCEPT ![t] = done]
    /\ opSid' = [opSid EXCEPT ![t] = NoSid]
    /\ alive' = alive \ LogoutRevokes(t)
    /\ opClears' = IF Bearer(t) /\ cookie.sid = NoSid
                   THEN opClears ELSE opClears \cup {t}
    /\ outcome' = [outcome EXCEPT ![t] = "none"]
    /\ UNCHANGED <<issued, gen, grace, ver, reused, opVer, refreshVars>>

\* The sign-out dialog, and resetSession before an OAuth login: accepted, or
\* refused as a mismatch that a refresh is to repair.
Logout(t) ==
    /\ op[t] = "idle"
    /\ \/ LogoutAccepted(t, "logout")
       \/ /\ LogoutMismatch(t)
          /\ StartOp(t, "logoutRefresh", session[t], 0)
          /\ RefreshAuthentication(t)
          /\ UNCHANGED serverVars
    /\ UNCHANGED <<cookie, holder, inbox, storeVars, lost, left>>

LogoutReply(t) ==
    /\ op[t] \in {"logout", "logoutAgain"}
    /\ cookie' = OpCookie(t)
    /\ ClearAuthentication(t, TRUE)
    /\ EndOp(t)
    /\ UNCHANGED <<serverVars, holder, refresh, mayRetry, reply, lost>>

\* The mismatch recovery has settled: try once more, succeed or give up.
LogoutRecovered(t) ==
    /\ op[t] = "logoutRefresh"
    /\ outcome[t] = "authenticated"
    /\ \/ LogoutAccepted(t, "logoutAgain")
       \/ LogoutMismatch(t) /\ EndOp(t) /\ UNCHANGED <<serverVars, refreshVars>>
    /\ UNCHANGED <<cookie, holder, inbox, storeVars, lost, left>>

LogoutConfirmed(t) ==
    /\ op[t] = "logoutRefresh"
    /\ outcome[t] = "anonymous"
    /\ ClearAuthentication(t, TRUE)
    /\ EndOp(t)
    /\ UNCHANGED <<serverVars, cookie, holder, refresh, mayRetry, reply, lost>>

LogoutGivesUp(t) ==
    /\ op[t] = "logoutRefresh"
    /\ outcome[t] = "transient"
    /\ EndOp(t)
    /\ UNCHANGED <<serverVars, cookie, holder, inbox, storeVars, refreshVars,
                   lost, left>>

\* DeleteLoginSession from the login sessions card.
RevokeLoginSession(t, s) ==
    /\ op[t] = "idle"
    /\ TokenValid(t)
    /\ s \in alive
    /\ alive' = alive \ {s}
    /\ op' = [op EXCEPT ![t] = "revoke"]
    /\ opSid' = [opSid EXCEPT ![t] = s]
    /\ opClears' = IF cookie.sid = s THEN opClears \cup {t} ELSE opClears
    /\ UNCHANGED <<opVer, outcome>>
    /\ UNCHANGED <<issued, gen, grace, ver, reused, cookie, holder, inbox,
                   storeVars, refreshVars, lost, left>>

RevokeReply(t) ==
    /\ op[t] = "revoke"
    /\ cookie' = OpCookie(t)
    /\ IF session[t] = opSid[t]
       THEN ClearAuthentication(t, TRUE)
       ELSE UNCHANGED <<storeVars, superseded, inbox, left>>
    /\ EndOp(t)
    /\ UNCHANGED <<serverVars, holder, refresh, mayRetry, reply, lost>>

\* A security change: AdvanceCurrentSessionSecurity moves the versions and
\* revokes the other sessions, two statements of the server in one step.
ChangeSecurity(t) ==
    /\ op[t] = "idle"
    /\ TokenValid(t)
    /\ ver < MaxVer
    /\ ver' = ver + 1
    /\ alive' = {session[t]}
    /\ StartOp(t, "security", session[t], ver + 1)
    /\ UNCHANGED <<issued, gen, grace, reused, cookie, holder, inbox,
                   storeVars, refreshVars, lost, left>>

\* applyAuthRotation: refused for another session than the tab's.
SecurityReply(t) ==
    /\ op[t] = "security"
    /\ IF session[t] = opSid[t]
       THEN ApplyAuthBundle(t, opSid[t], opVer[t], FALSE)
       ELSE UNCHANGED <<storeVars, superseded, inbox>>
    /\ EndOp(t)
    /\ UNCHANGED <<serverVars, cookie, holder, refresh, mayRetry, reply, lost,
                   left>>

\* The request fails on its way back: a toast, nothing else.
OpFails(t) ==
    /\ op[t] \in {"login", "logout", "logoutAgain", "revoke", "security"}
    /\ EndOp(t)
    /\ UNCHANGED <<serverVars, cookie, holder, inbox, storeVars, refreshVars,
                   lost, left>>

-----------------------------------------------------------------------------
(* Events of other tabs, and the passage of time.                          *)

\* The listener of RootComponent.
PeerAuthenticated(t) ==
    LET e == Head(inbox[t]) IN
    /\ inbox[t] # <<>> /\ e.kind = "authenticated"
    /\ IF e.sid = session[t]
       THEN /\ inbox' = [inbox EXCEPT ![t] = Tail(@)]
            /\ UNCHANGED <<storeVars, refreshVars, holder, opVars, cookie,
                           lost>>
       ELSE LoadPage(t)
    /\ UNCHANGED <<serverVars, left>>

PeerSignedOut(t) ==
    LET e == Head(inbox[t]) IN
    /\ inbox[t] # <<>> /\ e.kind = "signed_out"
    /\ inbox' = [inbox EXCEPT ![t] = Tail(@)]
    /\ IF e.sid = session[t]
       THEN /\ BumpEpoch(t)
            /\ Reset(t, "complete")
            /\ SignsOut(t)
       ELSE UNCHANGED <<storeVars, superseded, left>>
    /\ UNCHANGED <<serverVars, cookie, holder, refresh, mayRetry, reply,
                   opVars, lost>>

\* An event more than 60 s old is ignored.
PeerEventDropped(t) ==
    /\ inbox[t] # <<>>
    /\ inbox' = [inbox EXCEPT ![t] = Tail(@)]
    /\ UNCHANGED <<serverVars, cookie, holder, storeVars, refreshVars, opVars,
                   lost, left>>

TokenExpires(t) ==
    /\ session[t] # NoSid
    /\ expired' = expired \cup {t}
    /\ UNCHANGED <<serverVars, cookie, holder, inbox, session, token, boot,
                   refreshVars, opVars, lost, left>>

\* previous_valid_until passes.
GraceEnds(s) ==
    /\ s \in grace
    /\ grace' = grace \ {s}
    /\ UNCHANGED <<issued, alive, gen, ver, reused, cookie, holder, inbox,
                   storeVars, refreshVars, opVars, lost, left>>

\* Another device or an administrator revokes the session.
RevokedElsewhere(s) ==
    /\ s \in alive
    /\ alive' = alive \ {s}
    /\ UNCHANGED <<issued, gen, grace, ver, reused, cookie, holder, inbox,
                   storeVars, refreshVars, opVars, lost, left>>

-----------------------------------------------------------------------------
RefreshStep(t) ==
    \/ ServerAnswers(t) \/ RefreshSuperseded(t) \/ RefreshReply(t)
    \/ RefreshFails(t)

OpStep(t) ==
    \/ CallResumes(t) \/ CallAgainRefused(t) \/ LoginReply(t) \/ LogoutReply(t)
    \/ LogoutRecovered(t) \/ LogoutConfirmed(t) \/ LogoutGivesUp(t)
    \/ RevokeReply(t) \/ SecurityReply(t) \/ OpFails(t)

PageStep(t) == Navigate(t) \/ Call(t)

UserStep(t) ==
    \/ Reload(t) \/ Login(t) \/ Logout(t) \/ ChangeSecurity(t)
    \/ TokenExpires(t) \/ GetFreshAuthHeaders(t)
    \/ \E s \in Sids : RevokeLoginSession(t, s)

PeerStep(t) == PeerAuthenticated(t) \/ PeerSignedOut(t) \/ PeerEventDropped(t)

Counted ==
    /\ UNCHANGED webLocks
    /\ ops < MaxOps
    /\ ops' = ops + 1
    /\ \/ \E t \in Tabs : UserStep(t)
       \/ \E s \in Sids : RevokedElsewhere(s)

Uncounted ==
    /\ UNCHANGED <<ops, webLocks>>
    /\ \/ \E t \in Tabs : RefreshStep(t) \/ OpStep(t) \/ PageStep(t) \/ PeerStep(t)
       \/ \E s \in Sids : GraceEnds(s)

Next == Counted \/ Uncounted

Spec == Init /\ [][Next]_vars

\* Web Locks are granted in the order they were asked for, a refresh that is
\* tried again and again is answered at last, continuations run, and a page in
\* use goes on sending requests.  authClient sets no timeout (auth-session.ts:51):
\* that a refresh in flight ends, by an answer or by a broken connection, is
\* assumed of the server and the network.
Fairness ==
    \A t \in Tabs :
        /\ SF_vars(UNCHANGED <<ops, webLocks>> /\ RefreshStep(t))
        /\ SF_vars(UNCHANGED <<ops, webLocks>> /\ ServerAnswers(t))
        /\ SF_vars(UNCHANGED <<ops, webLocks>> /\ RefreshReply(t))
        /\ WF_vars(UNCHANGED <<ops, webLocks>> /\ OpStep(t))
        /\ SF_vars(UNCHANGED <<ops, webLocks>> /\ Call(t))

FairSpec == Spec /\ Fairness

-----------------------------------------------------------------------------
\* With Web Locks, a session is revoked as reused only if the answer to one
\* of its rotations never reached the browser: tabs that refresh at the same
\* time never sign each other out (docs/authentication.md:67), whatever
\* logins, sign-outs, reloads and event deliveries happen around them.
ReuseNeedsLoss == webLocks => reused \subseteq lost

\* A tab that signed out of a session the server has revoked, by itself or on
\* another tab's word, never shows that session again: no answer that was in
\* flight restores it (the epoch test of createRefreshRunner).
SignedOutStaysOut == \A t \in Tabs : session[t] \notin left[t]

\* A refresh never replaces a tab's access token by one of an older security
\* version of the same session: an answer given before a password change loses
\* against the change, in whatever order the two arrive.
TokenNeverOlder ==
    [][\A t \in Tabs :
          RefreshReply(t) /\ session[t] # NoSid /\ session'[t] = session[t]
          => token'[t] >= token[t]]_vars

\* Every refresh settles, also when tabs wait for each other's lock and none of
\* the requests hangs: the root route of a page load waits for it before it
\* shows anything.
RefreshSettles == \A t \in Tabs : refresh[t] # "none" ~> refresh[t] = "none"

\* A tab that shows a revoked session leaves it: its next request is refused,
\* and neither a failed refresh nor another tab's lock can keep it there for
\* ever.
DeadSessionLeft ==
    \A t \in Tabs : (session[t] # NoSid /\ session[t] \notin alive)
                    ~> (session[t] = NoSid \/ session[t] \in alive)
=============================================================================
