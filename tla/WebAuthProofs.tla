--------------------------- MODULE WebAuthProofs ---------------------------
(***************************************************************************)
(* Proofs about WebAuth for any number of tabs, logins, rotations and      *)
(* operations.                                                             *)
(*                                                                         *)
(* The argument for ReuseNeedsLoss: under Web Locks one refresh at a time  *)
(* is in flight (LockHeld), so the cookie is the newest secret of its      *)
(* session unless the answer that carries the newest one is still on its   *)
(* way or was lost (Fresh).  For SignedOutStaysOut: a session a tab has    *)
(* signed out of stays revoked (LeftDead), and neither an answer in flight *)
(* (ReplyNotLeft) nor a login (Unseen) can name it.  For TokenNeverOlder:  *)
(* an answer that will be applied is at least as new as the token it       *)
(* replaces (Versions).                                                    *)
(***************************************************************************)
EXTENDS WebAuth, TLAPS

InFlight(t) == refresh[t] = "flight"
Accepted(t) == InFlight(t) /\ reply[t].code = "ok"

\* The tab whose refresh is in flight holds the lock.
LockHeld == webLocks => \A t \in Tabs : InFlight(t) => holder = t

\* The cookie carries its session's newest secret, unless that secret is in an
\* answer on its way, or was lost.
CookieFresh ==
    webLocks /\ cookie.sid # NoSid /\ cookie.sid \notin lost
    => \/ cookie.gen = gen[cookie.sid]
       \/ \E t \in Tabs : Accepted(t) /\ reply[t].cookie.sid = cookie.sid

\* An answer on its way carries the newest secret; a refusal carries none.
ReplyFresh ==
    \A t \in Tabs :
        /\ reply[t].code # "ok" => reply[t].cookie.sid = NoSid
        /\ Accepted(t) /\ webLocks /\ reply[t].cookie.sid \notin lost
           => reply[t].cookie.gen = gen[reply[t].cookie.sid]

Fresh == CookieFresh /\ ReplyFresh

\* Only sessions the server has issued are named anywhere.
KnownSids ==
    /\ cookie.sid <= issued
    /\ \A t \in Tabs : /\ session[t] <= issued
                       /\ reply[t].cookie.sid <= issued
                       /\ left[t] \subseteq 1 .. issued
    /\ \A s \in Sids : s > issued => gen[s] = 0

\* Until its answer arrives, nobody in the browser knows a login's session.
Unseen ==
    \A t \in Tabs : op[t] = "login" =>
        /\ opSid[t] \in 1 .. issued
        /\ gen[opSid[t]] = 0
        /\ cookie.sid # opSid[t]
        /\ opSid[t] \notin left[t]
        /\ \A u \in Tabs : /\ session[u] # opSid[t]
                           /\ reply[u].cookie.sid # opSid[t]
                           /\ u # t /\ op[u] = "login" => opSid[u] # opSid[t]

\* A revoked session never becomes active again.
LeftDead == \A t \in Tabs : left[t] \cap alive = {}

\* An answer that will be applied does not name a session its tab has left.
ReplyNotLeft ==
    \A t \in Tabs : Accepted(t) /\ t \notin superseded
                    => reply[t].cookie.sid \notin left[t]

\* No token is newer than the server, and an answer that will be applied is not
\* older than the token it replaces.
Versions ==
    \A t \in Tabs : /\ token[t] <= ver
                    /\ opVer[t] <= ver
                    /\ reply[t].ver <= ver
                    /\ Accepted(t) /\ t \notin superseded => token[t] <= reply[t].ver

Inv ==
    /\ LockHeld /\ Fresh /\ ReuseNeedsLoss /\ KnownSids /\ Unseen
    /\ LeftDead /\ ReplyNotLeft /\ SignedOutStaysOut /\ Versions

-----------------------------------------------------------------------------
(* TypeOK in six parts, each about the variables of one actor, with two    *)
(* facts more: an accepted refresh and a login name a session.             *)

ServerTypes ==
    /\ issued \in 0 .. MaxSessions
    /\ alive \in SUBSET Sids
    /\ gen \in [Sids -> 0 .. MaxGen]
    /\ grace \in SUBSET Sids
    /\ ver \in 0 .. MaxVer
    /\ reused \in SUBSET Sids

InboxType == inbox \in [Tabs -> Seq(Events)]

BrowserTypes ==
    /\ webLocks \in BOOLEAN
    /\ cookie \in Cookies
    /\ holder \in Tabs \cup {NoTab}
    /\ InboxType

StoreTypes ==
    /\ session \in [Tabs -> Sids \cup {NoSid}]
    /\ token \in [Tabs -> 0 .. MaxVer]
    /\ expired \in SUBSET Tabs
    /\ boot \in [Tabs -> {"idle", "checking", "complete"}]

RefreshTypes ==
    /\ refresh \in [Tabs -> {"none", "waiting", "flight"}]
    /\ mayRetry \in SUBSET Tabs
    /\ superseded \in SUBSET Tabs
    /\ reply \in [Tabs -> Replies]
    /\ \A t \in Tabs : reply[t].code = "ok" => reply[t].cookie.sid # NoSid

OpKinds == {"idle", "login", "logout", "logoutRefresh", "logoutAgain",
            "security", "revoke", "callRefresh", "callAgain401"}
Outcomes == {"none", "authenticated", "anonymous", "transient"}

OpTypes ==
    /\ outcome \in [Tabs -> Outcomes]
    /\ op \in [Tabs -> OpKinds]
    /\ opSid \in [Tabs -> Sids \cup {NoSid}]
    /\ opVer \in [Tabs -> 0 .. MaxVer]
    /\ opClears \in SUBSET Tabs
    /\ \A t \in Tabs : op[t] = "login" => opSid[t] # NoSid

HistoryTypes ==
    /\ ops \in 0 .. MaxOps
    /\ lost \in SUBSET Sids
    /\ left \in [Tabs -> SUBSET Sids]

Types ==
    /\ ServerTypes /\ BrowserTypes /\ StoreTypes
    /\ RefreshTypes /\ OpTypes /\ HistoryTypes

\* The six parts are the type invariant.
LEMMA TypesSuffice == Types => TypeOK
BY DEF Types, TypeOK, ServerTypes, BrowserTypes, InboxType, StoreTypes, RefreshTypes,
       OpTypes, OpKinds, Outcomes, HistoryTypes

LEMMA InitTypes == Init => Types
<1> SUFFICES ASSUME Init PROVE Types
    OBVIOUS
<1>1. ServerTypes
    BY WebAuthAssumption DEF Init, ServerTypes, Sids
<1>2. cookie \in Cookies
    BY WebAuthAssumption DEF Init, Cookies, NoCookie, NoSid, Sids
<1>3. InboxType
    BY DEF Init, InboxType
<1>4. BrowserTypes
    BY <1>2, <1>3 DEF Init, BrowserTypes
<1>5. StoreTypes
    BY WebAuthAssumption DEF Init, StoreTypes
<1>6. NoReply \in Replies
    BY WebAuthAssumption DEF NoReply, Replies, Cookies
<1>7. RefreshTypes
    BY <1>6 DEF Init, RefreshTypes, NoReply
<1>8. OpTypes
    BY WebAuthAssumption DEF Init, OpTypes, OpKinds, Outcomes
<1>9. HistoryTypes
    BY WebAuthAssumption DEF Init, HistoryTypes
<1>10. QED
    BY <1>1, <1>4, <1>5, <1>7, <1>8, <1>9 DEF Types

-----------------------------------------------------------------------------
\* What the operators that the actions are built from do to the types.
LEMMA NoReplyType == NoReply \in Replies /\ NoCookie \in Cookies
BY WebAuthAssumption DEF NoReply, Replies, Cookies

LEMMA ResetTypes ==
    ASSUME StoreTypes, NEW t \in Tabs, NEW b \in {"idle", "checking", "complete"},
           Reset(t, b)
    PROVE  StoreTypes'
BY WebAuthAssumption DEF StoreTypes, Reset

LEMMA SetBundleTypes ==
    ASSUME StoreTypes, NEW t \in Tabs, NEW s \in Sids \cup {NoSid},
           NEW v \in 0 .. MaxVer,
           SetBundle(t, s, v)
    PROVE  StoreTypes'
BY DEF StoreTypes, SetBundle

LEMMA PublishIfTypes ==
    ASSUME InboxType, NEW t \in Tabs, NEW told,
           NEW kind \in {"authenticated", "signed_out"}, NEW s \in Sids \cup {NoSid},
           PublishIf(told, t, kind, s)
    PROVE  InboxType'
<1>1. CASE told /\ s # NoSid
    <2>1. [kind |-> kind, sid |-> s] \in Events
        BY <1>1 DEF Events
    <2>2. inbox' = [u \in Tabs |-> IF u = t THEN inbox[u]
                                   ELSE Append(inbox[u], [kind |-> kind, sid |-> s])]
        BY <1>1 DEF PublishIf, Publish
    <2>3. QED
        BY <2>1, <2>2 DEF InboxType
<1>2. CASE ~(told /\ s # NoSid)
    BY <1>2 DEF PublishIf, InboxType
<1>3. QED
    BY <1>1, <1>2

LEMMA TailTypes ==
    ASSUME InboxType, NEW t \in Tabs, inbox[t] # <<>>,
           inbox' = [inbox EXCEPT ![t] = Tail(@)]
    PROVE  InboxType' /\ Head(inbox[t]) \in Events
<1>1. inbox[t] \in Seq(Events)
    BY DEF InboxType
<1>2. Tail(inbox[t]) \in Seq(Events) /\ Head(inbox[t]) \in Events
    BY <1>1
<1>3. QED
    BY <1>2 DEF InboxType

LEMMA BumpEpochTypes ==
    ASSUME RefreshTypes, NEW t \in Tabs, BumpEpoch(t),
           UNCHANGED <<refresh, mayRetry, reply>>
    PROVE  RefreshTypes'
BY DEF RefreshTypes, BumpEpoch

LEMMA RefreshAuthenticationTypes ==
    ASSUME RefreshTypes, NEW t \in Tabs, RefreshAuthentication(t)
    PROVE  RefreshTypes'
BY DEF RefreshTypes, RefreshAuthentication, refreshVars

LEMMA StopRefreshTypes ==
    ASSUME RefreshTypes, holder \in Tabs \cup {NoTab}, NEW t \in Tabs,
           StopRefresh(t)
    PROVE  RefreshTypes' /\ holder' \in Tabs \cup {NoTab}
<1>1. reply' \in [Tabs -> Replies]
    BY NoReplyType DEF RefreshTypes, StopRefresh
<1>2. \A u \in Tabs : reply'[u].code = "ok" => reply'[u].cookie.sid # NoSid
    BY DEF RefreshTypes, StopRefresh, NoReply
<1>3. QED
    BY <1>1, <1>2 DEF RefreshTypes, StopRefresh

LEMMA EndOpTypes ==
    ASSUME OpTypes, NEW t \in Tabs, EndOp(t)
    PROVE  OpTypes'
BY WebAuthAssumption DEF OpTypes, EndOp, OpKinds, Outcomes

LEMMA StartOpTypes ==
    ASSUME OpTypes, NEW t \in Tabs, NEW what \in OpKinds,
           NEW s \in Sids \cup {NoSid},
           NEW v \in 0 .. MaxVer, StartOp(t, what, s, v), what = "login" => s # NoSid
    PROVE  OpTypes'
BY DEF OpTypes, StartOp, Outcomes

LEMMA EndRefreshTypes ==
    ASSUME RefreshTypes, OpTypes, holder \in Tabs \cup {NoTab}, NEW t \in Tabs,
           NEW kind \in Outcomes, EndRefresh(t, kind)
    PROVE  RefreshTypes' /\ OpTypes' /\ holder' \in Tabs \cup {NoTab}
<1>1. StopRefresh(t)
    BY DEF EndRefresh
<1>2. OpTypes'
    BY DEF EndRefresh, OpTypes
<1>3. QED
    BY <1>1, <1>2, StopRefreshTypes

LEMMA SignsOutTypes ==
    ASSUME HistoryTypes, NEW t \in Tabs, SignsOut(t), UNCHANGED lost,
           ops' \in 0 .. MaxOps
    PROVE  HistoryTypes'
BY DEF HistoryTypes, SignsOut

\* The cookies that operations and answers leave.
LEMMA OpCookieType ==
    ASSUME OpTypes, cookie \in Cookies, NEW t \in Tabs
    PROVE  OpCookie(t) \in Cookies
<1>1. CASE op[t] = "login"
    <2>1. opSid[t] \in Sids
        BY <1>1 DEF OpTypes
    <2>2. 0 \in 0 .. MaxGen
        BY WebAuthAssumption
    <2>3. QED
        BY <1>1, <2>1, <2>2 DEF OpCookie, Cookies
<1>2. CASE op[t] # "login"
    BY <1>2, NoReplyType DEF OpCookie
<1>3. QED
    BY <1>1, <1>2

LEMMA ReplyType ==
    ASSUME RefreshTypes, NEW t \in Tabs
    PROVE  /\ reply[t].code \in {"none", "ok", "mismatch", "unauthorized"}
           /\ reply[t].cookie \in Cookies
           /\ reply[t].cookie.sid \in Sids \cup {NoSid}
           /\ reply[t].cookie.gen \in 0 .. MaxGen
           /\ reply[t].ver \in 0 .. MaxVer
<1>1. reply[t] \in Replies
    BY DEF RefreshTypes
<1>2. reply[t].cookie \in Cookies
    BY <1>1 DEF Replies
<1>3. QED
    BY <1>1, <1>2, WebAuthAssumption DEF Replies, Cookies, NoCookie

LEMMA CookieType ==
    ASSUME cookie \in Cookies
    PROVE  cookie.sid \in Sids \cup {NoSid} /\ cookie.gen \in 0 .. MaxGen
BY WebAuthAssumption DEF Cookies, NoCookie

LEMMA CookieAfterType ==
    ASSUME RefreshTypes, cookie \in Cookies, NEW t \in Tabs
    PROVE  CookieAfter(reply[t]) \in Cookies
BY ReplyType DEF CookieAfter

LEMMA LostRotationType ==
    ASSUME RefreshTypes, lost \in SUBSET Sids, NEW t \in Tabs
    PROVE  LostRotation(t) \in SUBSET Sids
BY ReplyType DEF LostRotation, RefreshTypes

\* The server's answer, and the start of a page.
LEMMA AnswerTypes ==
    ASSUME RefreshTypes, holder \in Tabs \cup {NoTab}, NEW t \in Tabs,
           NEW code \in {"ok", "mismatch", "unauthorized"}, NEW c \in Cookies,
           NEW v \in 0 .. MaxVer, code = "ok" => c.sid # NoSid, Answer(t, code, c, v)
    PROVE  RefreshTypes' /\ holder' \in Tabs \cup {NoTab}
<1>1. [code |-> code, cookie |-> c, ver |-> v] \in Replies
    BY DEF Replies
<1>2. reply' \in [Tabs -> Replies]
    BY <1>1 DEF Answer, RefreshTypes
<1>3. \A u \in Tabs : reply'[u].code = "ok" => reply'[u].cookie.sid # NoSid
    BY DEF Answer, RefreshTypes
<1>4. QED
    BY <1>2, <1>3 DEF Answer, TakeLock, RefreshTypes

LEMMA LoadPageTypes ==
    ASSUME Types, NEW t \in Tabs, LoadPage(t), UNCHANGED webLocks
    PROVE  /\ BrowserTypes' /\ StoreTypes' /\ RefreshTypes' /\ OpTypes'
           /\ lost' \in SUBSET Sids
<1>1. StoreTypes'
    BY ResetTypes DEF Types, LoadPage
<1>2. RefreshTypes' /\ holder' \in Tabs \cup {NoTab}
    BY StopRefreshTypes DEF Types, BrowserTypes, LoadPage
<1>3. OpTypes'
    BY EndOpTypes DEF Types, LoadPage
<1>4. InboxType'
    BY DEF Types, BrowserTypes, InboxType, LoadPage
<1>5. cookie' \in Cookies
    BY OpCookieType, CookieAfterType DEF Types, BrowserTypes, LoadPage
<1>6. lost' \in SUBSET Sids
    BY LostRotationType DEF Types, HistoryTypes, LoadPage
<1>7. QED
    BY <1>1, <1>2, <1>3, <1>4, <1>5, <1>6 DEF Types, BrowserTypes

\* Types are preserved by each action; the parts it leaves alone come first.
LEMMA ReloadTypes ==
    ASSUME Types, NEW t \in Tabs, Reload(t),
           UNCHANGED webLocks, ops' \in 0 .. MaxOps
    PROVE  Types'
<1>1. ServerTypes'
    BY DEF Reload, Types, ServerTypes, serverVars
<1>2. BrowserTypes'
    BY LoadPageTypes DEF Reload
<1>3. StoreTypes'
    BY LoadPageTypes DEF Reload
<1>4. RefreshTypes'
    BY LoadPageTypes DEF Reload
<1>5. OpTypes'
    BY LoadPageTypes DEF Reload
<1>6. HistoryTypes'
    BY LoadPageTypes DEF Reload, Types, HistoryTypes
<1>7. QED
    BY <1>1, <1>2, <1>3, <1>4, <1>5, <1>6 DEF Types

LEMMA LoginTypes ==
    ASSUME Types, NEW t \in Tabs, Login(t),
           UNCHANGED webLocks, ops' \in 0 .. MaxOps
    PROVE  Types'
<1>1. BrowserTypes' /\ StoreTypes' /\ RefreshTypes' /\ HistoryTypes'
    BY DEF Login, Types, BrowserTypes, InboxType, StoreTypes, storeVars,
       RefreshTypes, refreshVars, HistoryTypes
<1>2. ServerTypes'
    <2>1. issued + 1 \in 0 .. MaxSessions /\ issued + 1 \in Sids
        BY WebAuthAssumption DEF Login, Types, ServerTypes, Sids
    <2>2. QED
        BY <2>1 DEF Login, Types, ServerTypes
<1>3. OpTypes'
    <2>1. issued + 1 \in Sids /\ issued + 1 # NoSid /\ ver \in 0 .. MaxVer
        BY WebAuthAssumption DEF Login, Types, ServerTypes, Sids, NoSid
    <2>2. QED
        BY <2>1, StartOpTypes DEF Login, Types, OpKinds
<1>4. QED
    BY <1>1, <1>2, <1>3 DEF Types

LEMMA LogoutTypes ==
    ASSUME Types, NEW t \in Tabs, Logout(t),
           UNCHANGED webLocks, ops' \in 0 .. MaxOps
    PROVE  Types'
<1>1. BrowserTypes' /\ StoreTypes' /\ HistoryTypes'
    BY DEF Logout, Types, BrowserTypes, InboxType, StoreTypes, storeVars,
       HistoryTypes
<1>2. ServerTypes'
    BY DEF Logout, LogoutAccepted, serverVars, Types, ServerTypes
<1>3. RefreshTypes'
    BY RefreshAuthenticationTypes DEF Logout, LogoutAccepted, refreshVars,
       Types, RefreshTypes
<1>4. OpTypes'
    <2>1. CASE LogoutAccepted(t, "logout")
        BY <2>1, WebAuthAssumption DEF LogoutAccepted, Types, OpTypes,
           OpKinds, Outcomes
    <2>2. CASE ~LogoutAccepted(t, "logout")
        <3>1. session[t] \in Sids \cup {NoSid} /\ 0 \in 0 .. MaxVer
            BY WebAuthAssumption DEF Types, StoreTypes
        <3>2. StartOp(t, "logoutRefresh", session[t], 0)
            BY <2>2 DEF Logout
        <3>3. QED
            BY <3>1, <3>2, StartOpTypes DEF Types, OpKinds
    <2>3. QED
        BY <2>1, <2>2
<1>5. QED
    BY <1>1, <1>2, <1>3, <1>4 DEF Types

LEMMA ChangeSecurityTypes ==
    ASSUME Types, NEW t \in Tabs, ChangeSecurity(t),
           UNCHANGED webLocks, ops' \in 0 .. MaxOps
    PROVE  Types'
<1>1. BrowserTypes' /\ StoreTypes' /\ RefreshTypes' /\ HistoryTypes'
    BY DEF ChangeSecurity, Types, BrowserTypes, InboxType, StoreTypes,
       storeVars, RefreshTypes, refreshVars, HistoryTypes
<1>2. ServerTypes'
    BY WebAuthAssumption DEF ChangeSecurity, TokenValid, Types, ServerTypes
<1>3. OpTypes'
    <2>1. session[t] \in Sids \cup {NoSid} /\ ver + 1 \in 0 .. MaxVer
        BY WebAuthAssumption DEF ChangeSecurity, Types, ServerTypes, StoreTypes
    <2>2. QED
        BY <2>1, StartOpTypes DEF ChangeSecurity, Types, OpKinds
<1>4. QED
    BY <1>1, <1>2, <1>3 DEF Types

LEMMA TokenExpiresTypes ==
    ASSUME Types, NEW t \in Tabs, TokenExpires(t),
           UNCHANGED webLocks, ops' \in 0 .. MaxOps
    PROVE  Types'
<1>1. ServerTypes' /\ BrowserTypes' /\ RefreshTypes' /\ OpTypes' /\
         HistoryTypes'
    BY DEF TokenExpires, Types, ServerTypes, serverVars, BrowserTypes,
       InboxType, RefreshTypes, refreshVars, OpTypes, opVars, HistoryTypes
<1>2. StoreTypes'
    BY DEF TokenExpires, Types, StoreTypes
<1>3. QED
    BY <1>1, <1>2 DEF Types

LEMMA GetFreshAuthHeadersTypes ==
    ASSUME Types, NEW t \in Tabs, GetFreshAuthHeaders(t),
           UNCHANGED webLocks, ops' \in 0 .. MaxOps
    PROVE  Types'
<1>1. ServerTypes' /\ BrowserTypes' /\ StoreTypes' /\ OpTypes' /\
         HistoryTypes'
    BY DEF GetFreshAuthHeaders, Types, ServerTypes, serverVars, BrowserTypes,
       InboxType, StoreTypes, storeVars, OpTypes, opVars, HistoryTypes
<1>2. RefreshTypes'
    BY RefreshAuthenticationTypes DEF GetFreshAuthHeaders, Types
<1>3. QED
    BY <1>1, <1>2 DEF Types

LEMMA RevokeLoginSessionTypes ==
    ASSUME Types, NEW t \in Tabs, NEW s \in Sids, RevokeLoginSession(t, s),
           UNCHANGED webLocks, ops' \in 0 .. MaxOps
    PROVE  Types'
<1>1. BrowserTypes' /\ StoreTypes' /\ RefreshTypes' /\ HistoryTypes'
    BY DEF RevokeLoginSession, Types, BrowserTypes, InboxType, StoreTypes,
       storeVars, RefreshTypes, refreshVars, HistoryTypes
<1>2. ServerTypes'
    BY DEF RevokeLoginSession, Types, ServerTypes
<1>3. OpTypes'
    BY DEF RevokeLoginSession, Types, OpTypes, OpKinds
<1>4. QED
    BY <1>1, <1>2, <1>3 DEF Types

LEMMA RevokedElsewhereTypes ==
    ASSUME Types, NEW s \in Sids, RevokedElsewhere(s),
           UNCHANGED webLocks, ops' \in 0 .. MaxOps
    PROVE  Types'
<1>1. BrowserTypes' /\ StoreTypes' /\ RefreshTypes' /\ OpTypes' /\
         HistoryTypes'
    BY DEF RevokedElsewhere, Types, BrowserTypes, InboxType, StoreTypes,
       storeVars, RefreshTypes, refreshVars, OpTypes, opVars, HistoryTypes
<1>2. ServerTypes'
    BY DEF RevokedElsewhere, Types, ServerTypes
<1>3. QED
    BY <1>1, <1>2 DEF Types

LEMMA ServerMismatchTypes ==
    ASSUME Types, NEW t \in Tabs, ServerMismatch(t),
           UNCHANGED <<cookie, inbox, storeVars, opVars, lost, left>>,
           UNCHANGED webLocks, ops' \in 0 .. MaxOps
    PROVE  Types'
<1>1. StoreTypes' /\ OpTypes' /\ HistoryTypes'
    BY DEF ServerMismatch, Types, StoreTypes, storeVars, OpTypes, opVars,
       HistoryTypes
<1>2. ServerTypes'
    BY DEF ServerMismatch, Types, ServerTypes, serverVars
<1>3. BrowserTypes'
    <2>1. /\ NoCookie \in Cookies
          /\ 0 \in 0 .. MaxVer
        BY NoReplyType, CookieType, WebAuthAssumption DEF ServerMismatch,
           CookieMatches, RefreshSent, Types, ServerTypes, BrowserTypes,
           Cookies
    <2>2. holder' \in Tabs \cup {NoTab}
        BY <2>1, AnswerTypes DEF ServerMismatch, Types, BrowserTypes
    <2>3. QED
        BY <2>2 DEF Types, BrowserTypes, InboxType
<1>4. RefreshTypes'
    <2>1. /\ NoCookie \in Cookies
          /\ 0 \in 0 .. MaxVer
        BY NoReplyType, CookieType, WebAuthAssumption DEF ServerMismatch,
           CookieMatches, RefreshSent, Types, ServerTypes, BrowserTypes,
           Cookies
    <2>2. QED
        BY <2>1, AnswerTypes DEF ServerMismatch, Types, BrowserTypes
<1>5. QED
    BY <1>1, <1>2, <1>3, <1>4 DEF Types

LEMMA ServerRotateTypes ==
    ASSUME Types, NEW t \in Tabs, ServerRotate(t),
           UNCHANGED <<cookie, inbox, storeVars, opVars, lost, left>>,
           UNCHANGED webLocks, ops' \in 0 .. MaxOps
    PROVE  Types'
<1>1. StoreTypes' /\ OpTypes' /\ HistoryTypes'
    BY DEF ServerRotate, Types, StoreTypes, storeVars, OpTypes, opVars,
       HistoryTypes
<1>2. ServerTypes'
    <2>1. cookie.sid \in Sids
        BY CookieType DEF ServerRotate, CookieMatches, Types, BrowserTypes
    <2>2. QED
        BY <2>1, WebAuthAssumption DEF ServerRotate, Types, ServerTypes
<1>3. BrowserTypes'
    <2>1. /\ [sid |-> cookie.sid, gen |-> gen[cookie.sid] + 1] \in Cookies
          /\ ver \in 0 .. MaxVer
        BY NoReplyType, CookieType, WebAuthAssumption DEF ServerRotate,
           CookieMatches, RefreshSent, Types, ServerTypes, BrowserTypes,
           Cookies
    <2>2. ([sid |-> cookie.sid, gen |-> gen[cookie.sid] + 1]).sid # NoSid
        BY CookieType DEF ServerRotate, CookieMatches, Types, BrowserTypes
    <2>3. holder' \in Tabs \cup {NoTab}
        BY <2>1, <2>2, AnswerTypes DEF ServerRotate, Types, BrowserTypes
    <2>4. QED
        BY <2>3 DEF Types, BrowserTypes, InboxType
<1>4. RefreshTypes'
    <2>1. /\ [sid |-> cookie.sid, gen |-> gen[cookie.sid] + 1] \in Cookies
          /\ ver \in 0 .. MaxVer
        BY NoReplyType, CookieType, WebAuthAssumption DEF ServerRotate,
           CookieMatches, RefreshSent, Types, ServerTypes, BrowserTypes,
           Cookies
    <2>2. ([sid |-> cookie.sid, gen |-> gen[cookie.sid] + 1]).sid # NoSid
        BY CookieType DEF ServerRotate, CookieMatches, Types, BrowserTypes
    <2>3. QED
        BY <2>1, <2>2, AnswerTypes DEF ServerRotate, Types, BrowserTypes
<1>5. QED
    BY <1>1, <1>2, <1>3, <1>4 DEF Types

LEMMA ServerReplayTypes ==
    ASSUME Types, NEW t \in Tabs, ServerReplay(t),
           UNCHANGED <<cookie, inbox, storeVars, opVars, lost, left>>,
           UNCHANGED webLocks, ops' \in 0 .. MaxOps
    PROVE  Types'
<1>1. StoreTypes' /\ OpTypes' /\ HistoryTypes'
    BY DEF ServerReplay, Types, StoreTypes, storeVars, OpTypes, opVars,
       HistoryTypes
<1>2. ServerTypes'
    BY DEF ServerReplay, Types, ServerTypes, serverVars
<1>3. BrowserTypes'
    <2>1. /\ [sid |-> cookie.sid, gen |-> gen[cookie.sid]] \in Cookies
          /\ ver \in 0 .. MaxVer
        BY NoReplyType, CookieType, WebAuthAssumption DEF ServerReplay,
           CookieMatches, RefreshSent, Types, ServerTypes, BrowserTypes,
           Cookies
    <2>2. ([sid |-> cookie.sid, gen |-> gen[cookie.sid]]).sid # NoSid
        BY CookieType DEF ServerReplay, CookieMatches, Types, BrowserTypes
    <2>3. holder' \in Tabs \cup {NoTab}
        BY <2>1, <2>2, AnswerTypes DEF ServerReplay, Types, BrowserTypes
    <2>4. QED
        BY <2>3 DEF Types, BrowserTypes, InboxType
<1>4. RefreshTypes'
    <2>1. /\ [sid |-> cookie.sid, gen |-> gen[cookie.sid]] \in Cookies
          /\ ver \in 0 .. MaxVer
        BY NoReplyType, CookieType, WebAuthAssumption DEF ServerReplay,
           CookieMatches, RefreshSent, Types, ServerTypes, BrowserTypes,
           Cookies
    <2>2. ([sid |-> cookie.sid, gen |-> gen[cookie.sid]]).sid # NoSid
        BY CookieType DEF ServerReplay, CookieMatches, Types, BrowserTypes
    <2>3. QED
        BY <2>1, <2>2, AnswerTypes DEF ServerReplay, Types, BrowserTypes
<1>5. QED
    BY <1>1, <1>2, <1>3, <1>4 DEF Types

LEMMA ServerReuseTypes ==
    ASSUME Types, NEW t \in Tabs, ServerReuse(t),
           UNCHANGED <<cookie, inbox, storeVars, opVars, lost, left>>,
           UNCHANGED webLocks, ops' \in 0 .. MaxOps
    PROVE  Types'
<1>1. StoreTypes' /\ OpTypes' /\ HistoryTypes'
    BY DEF ServerReuse, Types, StoreTypes, storeVars, OpTypes, opVars,
       HistoryTypes
<1>2. ServerTypes'
    BY CookieType DEF ServerReuse, CookieMatches, Types, ServerTypes,
       BrowserTypes
<1>3. BrowserTypes'
    <2>1. /\ NoCookie \in Cookies
          /\ 0 \in 0 .. MaxVer
        BY NoReplyType, CookieType, WebAuthAssumption DEF ServerReuse,
           CookieMatches, RefreshSent, Types, ServerTypes, BrowserTypes,
           Cookies
    <2>2. holder' \in Tabs \cup {NoTab}
        BY <2>1, AnswerTypes DEF ServerReuse, Types, BrowserTypes
    <2>3. QED
        BY <2>2 DEF Types, BrowserTypes, InboxType
<1>4. RefreshTypes'
    <2>1. /\ NoCookie \in Cookies
          /\ 0 \in 0 .. MaxVer
        BY NoReplyType, CookieType, WebAuthAssumption DEF ServerReuse,
           CookieMatches, RefreshSent, Types, ServerTypes, BrowserTypes,
           Cookies
    <2>2. QED
        BY <2>1, AnswerTypes DEF ServerReuse, Types, BrowserTypes
<1>5. QED
    BY <1>1, <1>2, <1>3, <1>4 DEF Types

LEMMA ServerRejectTypes ==
    ASSUME Types, NEW t \in Tabs, ServerReject(t),
           UNCHANGED <<cookie, inbox, storeVars, opVars, lost, left>>,
           UNCHANGED webLocks, ops' \in 0 .. MaxOps
    PROVE  Types'
<1>1. StoreTypes' /\ OpTypes' /\ HistoryTypes'
    BY DEF ServerReject, Types, StoreTypes, storeVars, OpTypes, opVars,
       HistoryTypes
<1>2. ServerTypes'
    BY DEF ServerReject, Types, ServerTypes, serverVars
<1>3. BrowserTypes'
    <2>1. /\ NoCookie \in Cookies
          /\ 0 \in 0 .. MaxVer
        BY NoReplyType, CookieType, WebAuthAssumption DEF ServerReject,
           CookieMatches, RefreshSent, Types, ServerTypes, BrowserTypes,
           Cookies
    <2>2. holder' \in Tabs \cup {NoTab}
        BY <2>1, AnswerTypes DEF ServerReject, Types, BrowserTypes
    <2>3. QED
        BY <2>2 DEF Types, BrowserTypes, InboxType
<1>4. RefreshTypes'
    <2>1. /\ NoCookie \in Cookies
          /\ 0 \in 0 .. MaxVer
        BY NoReplyType, CookieType, WebAuthAssumption DEF ServerReject,
           CookieMatches, RefreshSent, Types, ServerTypes, BrowserTypes,
           Cookies
    <2>2. QED
        BY <2>1, AnswerTypes DEF ServerReject, Types, BrowserTypes
<1>5. QED
    BY <1>1, <1>2, <1>3, <1>4 DEF Types

LEMMA RefreshSupersededTypes ==
    ASSUME Types, NEW t \in Tabs, RefreshSuperseded(t),
           UNCHANGED webLocks, ops' \in 0 .. MaxOps
    PROVE  Types'
<1>1. ServerTypes' /\ StoreTypes' /\ HistoryTypes'
    BY DEF RefreshSuperseded, Types, ServerTypes, serverVars, StoreTypes,
       storeVars, HistoryTypes
<1>2. BrowserTypes'
    <2>1. cookie' \in Cookies
        BY DEF RefreshSuperseded, Types, BrowserTypes
    <2>2. holder' \in Tabs \cup {NoTab}
        BY EndRefreshTypes DEF RefreshSuperseded, Types, BrowserTypes, Outcomes
    <2>3. InboxType'
        BY DEF RefreshSuperseded, Types, BrowserTypes, InboxType
    <2>4. QED
        BY <2>1, <2>2, <2>3 DEF Types, BrowserTypes
<1>3. RefreshTypes'
    BY EndRefreshTypes DEF RefreshSuperseded, Types, BrowserTypes, Outcomes
<1>4. OpTypes'
    BY EndRefreshTypes DEF RefreshSuperseded, Types, BrowserTypes, Outcomes
<1>5. QED
    BY <1>1, <1>2, <1>3, <1>4 DEF Types

LEMMA ReplySupersededTypes ==
    ASSUME Types, NEW t \in Tabs, ReplySuperseded(t), refresh[t] = "flight",
           cookie' = CookieAfter(reply[t]), UNCHANGED <<serverVars, lost>>,
           UNCHANGED webLocks, ops' \in 0 .. MaxOps
    PROVE  Types'
<1>1. ServerTypes' /\ StoreTypes' /\ HistoryTypes'
    BY DEF ReplySuperseded, Types, ServerTypes, serverVars, StoreTypes,
       storeVars, HistoryTypes
<1>2. BrowserTypes'
    <2>1. cookie' \in Cookies
        BY CookieAfterType DEF Types, BrowserTypes
    <2>2. holder' \in Tabs \cup {NoTab}
        BY EndRefreshTypes DEF ReplySuperseded, Types, BrowserTypes, Outcomes
    <2>3. InboxType'
        BY DEF ReplySuperseded, Types, BrowserTypes, InboxType
    <2>4. QED
        BY <2>1, <2>2, <2>3 DEF Types, BrowserTypes
<1>3. RefreshTypes'
    BY EndRefreshTypes DEF ReplySuperseded, Types, BrowserTypes, Outcomes
<1>4. OpTypes'
    BY EndRefreshTypes DEF ReplySuperseded, Types, BrowserTypes, Outcomes
<1>5. QED
    BY <1>1, <1>2, <1>3, <1>4 DEF Types

LEMMA ReplyOkTypes ==
    ASSUME Types, NEW t \in Tabs, ReplyOk(t), refresh[t] = "flight",
           cookie' = CookieAfter(reply[t]), UNCHANGED <<serverVars, lost>>,
           UNCHANGED webLocks, ops' \in 0 .. MaxOps
    PROVE  Types'
<1>1. ServerTypes' /\ HistoryTypes'
    BY DEF ReplyOk, Types, ServerTypes, serverVars, HistoryTypes
<1>2. BrowserTypes'
    <2>1. cookie' \in Cookies
        BY CookieAfterType DEF Types, BrowserTypes
    <2>2. holder' \in Tabs \cup {NoTab}
        BY EndRefreshTypes DEF ReplyOk, Types, BrowserTypes, Outcomes
    <2>3. InboxType'
        BY DEF ReplyOk, Types, BrowserTypes, InboxType
    <2>4. QED
        BY <2>1, <2>2, <2>3 DEF Types, BrowserTypes
<1>3. StoreTypes'
    BY ReplyType, SetBundleTypes DEF ReplyOk, Types
<1>4. RefreshTypes'
    BY EndRefreshTypes DEF ReplyOk, Types, BrowserTypes, Outcomes
<1>5. OpTypes'
    BY EndRefreshTypes DEF ReplyOk, Types, BrowserTypes, Outcomes
<1>6. QED
    BY <1>1, <1>2, <1>3, <1>4, <1>5 DEF Types

LEMMA ReplyMismatchTypes ==
    ASSUME Types, NEW t \in Tabs, ReplyMismatch(t), refresh[t] = "flight",
           cookie' = CookieAfter(reply[t]), UNCHANGED <<serverVars, lost>>,
           UNCHANGED webLocks, ops' \in 0 .. MaxOps
    PROVE  Types'
<1>1. ServerTypes' /\ OpTypes' /\ HistoryTypes'
    BY DEF ReplyMismatch, Types, ServerTypes, serverVars, OpTypes, opVars,
       HistoryTypes
<1>2. BrowserTypes'
    <2>1. cookie' \in Cookies
        BY CookieAfterType DEF Types, BrowserTypes
    <2>2. holder' \in Tabs \cup {NoTab}
        BY DEF ReplyMismatch, Types, BrowserTypes
    <2>3. InboxType'
        BY DEF ReplyMismatch, Types, BrowserTypes, InboxType
    <2>4. QED
        BY <2>1, <2>2, <2>3 DEF Types, BrowserTypes
<1>3. StoreTypes'
    BY ResetTypes DEF ReplyMismatch, Types
<1>4. RefreshTypes'
    <2>1. reply' \in [Tabs -> Replies]
        BY NoReplyType DEF ReplyMismatch, Types, RefreshTypes
    <2>2. \A u \in Tabs : reply'[u].code = "ok" => reply'[u].cookie.sid # NoSid
        BY DEF ReplyMismatch, Types, RefreshTypes, NoReply
    <2>3. QED
        BY <2>1, <2>2 DEF ReplyMismatch, Types, RefreshTypes
<1>5. QED
    BY <1>1, <1>2, <1>3, <1>4 DEF Types

LEMMA ReplyUnauthorizedTypes ==
    ASSUME Types, NEW t \in Tabs, ReplyUnauthorized(t), refresh[t] = "flight",
           cookie' = CookieAfter(reply[t]), UNCHANGED <<serverVars, lost>>,
           UNCHANGED webLocks, ops' \in 0 .. MaxOps
    PROVE  Types'
<1>1. ServerTypes'
    BY DEF ReplyUnauthorized, Types, ServerTypes, serverVars
<1>2. BrowserTypes'
    <2>1. cookie' \in Cookies
        BY CookieAfterType DEF Types, BrowserTypes
    <2>2. holder' \in Tabs \cup {NoTab}
        BY EndRefreshTypes DEF ReplyUnauthorized, Types, BrowserTypes, Outcomes
    <2>3. InboxType'

        <3>1. session[t] \in Sids \cup {NoSid}
            BY DEF Types, StoreTypes
        <3>2. QED
            BY <3>1, PublishIfTypes DEF ReplyUnauthorized, Types, BrowserTypes
    <2>4. QED
        BY <2>1, <2>2, <2>3 DEF Types, BrowserTypes
<1>3. StoreTypes'
    BY ResetTypes DEF ReplyUnauthorized, Types
<1>4. RefreshTypes'
    BY EndRefreshTypes DEF ReplyUnauthorized, Types, BrowserTypes, Outcomes
<1>5. OpTypes'
    BY EndRefreshTypes DEF ReplyUnauthorized, Types, BrowserTypes, Outcomes
<1>6. HistoryTypes'
    BY SignsOutTypes DEF ReplyUnauthorized, Types
<1>7. QED
    BY <1>1, <1>2, <1>3, <1>4, <1>5, <1>6 DEF Types

LEMMA RefreshFailsTypes ==
    ASSUME Types, NEW t \in Tabs, RefreshFails(t),
           UNCHANGED webLocks, ops' \in 0 .. MaxOps
    PROVE  Types'
<1>1. ServerTypes'
    BY DEF RefreshFails, Types, ServerTypes, serverVars
<1>2. BrowserTypes'
    <2>1. cookie' \in Cookies
        BY DEF RefreshFails, Types, BrowserTypes
    <2>2. holder' \in Tabs \cup {NoTab}
        BY EndRefreshTypes DEF RefreshFails, Types, BrowserTypes, Outcomes
    <2>3. InboxType'
        BY DEF RefreshFails, Types, BrowserTypes, InboxType
    <2>4. QED
        BY <2>1, <2>2, <2>3 DEF Types, BrowserTypes
<1>3. StoreTypes'
    BY DEF RefreshFails, Types, StoreTypes
<1>4. RefreshTypes'
    BY EndRefreshTypes DEF RefreshFails, Types, BrowserTypes, Outcomes
<1>5. OpTypes'
    BY EndRefreshTypes DEF RefreshFails, Types, BrowserTypes, Outcomes
<1>6. HistoryTypes'
    BY LostRotationType DEF RefreshFails, Types, HistoryTypes
<1>7. QED
    BY <1>1, <1>2, <1>3, <1>4, <1>5, <1>6 DEF Types

LEMMA CallResumesTypes ==
    ASSUME Types, NEW t \in Tabs, CallResumes(t),
           UNCHANGED webLocks, ops' \in 0 .. MaxOps
    PROVE  Types'
<1>1. ServerTypes'
    BY DEF CallResumes, Types, ServerTypes, serverVars
<1>2. BrowserTypes'
    <2>1. CASE LoadPage(t)
        BY <2>1, LoadPageTypes
    <2>2. CASE ~(LoadPage(t))
        BY <2>2 DEF CallResumes, RedirectToSignIn, Types, BrowserTypes,
           InboxType, storeVars
    <2>3. QED
        BY <2>1, <2>2
<1>3. StoreTypes'
    <2>1. CASE LoadPage(t)
        BY <2>1, LoadPageTypes
    <2>2. CASE ~(LoadPage(t))
        BY <2>2 DEF CallResumes, RedirectToSignIn, Types, StoreTypes, storeVars
    <2>3. QED
        BY <2>1, <2>2
<1>4. RefreshTypes'
    <2>1. CASE LoadPage(t)
        BY <2>1, LoadPageTypes
    <2>2. CASE ~(LoadPage(t))
        BY <2>2 DEF CallResumes, RedirectToSignIn, Types, RefreshTypes,
           refreshVars
    <2>3. QED
        BY <2>1, <2>2
<1>5. OpTypes'
    <2>1. CASE LoadPage(t)
        BY <2>1, LoadPageTypes
    <2>2. CASE EndOp(t)
        BY <2>2, EndOpTypes DEF Types
    <2>3. CASE StartOp(t, "callAgain401", NoSid, 0)
        BY <2>3, StartOpTypes, WebAuthAssumption DEF Types, OpKinds
    <2>4. QED
        BY <2>1, <2>2, <2>3 DEF CallResumes, RedirectToSignIn
<1>6. HistoryTypes'
    <2>1. CASE LoadPage(t)
        BY <2>1, LoadPageTypes DEF CallResumes, Types, HistoryTypes
    <2>2. CASE ~LoadPage(t)
        BY <2>2 DEF CallResumes, RedirectToSignIn, Types, HistoryTypes
    <2>3. QED
        BY <2>1, <2>2
<1>7. QED
    BY <1>1, <1>2, <1>3, <1>4, <1>5, <1>6 DEF Types

LEMMA CallAgainRefusedTypes ==
    ASSUME Types, NEW t \in Tabs, CallAgainRefused(t),
           UNCHANGED webLocks, ops' \in 0 .. MaxOps
    PROVE  Types'
<1>1. ServerTypes'
    BY DEF CallAgainRefused, Types, ServerTypes, serverVars
<1>2. BrowserTypes'
    <2>1. CASE LoadPage(t)
        BY <2>1, LoadPageTypes
    <2>2. CASE ~(LoadPage(t))
        <3>1. session[t] \in Sids \cup {NoSid}
            BY DEF Types, StoreTypes
        <3>2. ClearAuthentication(t, FALSE) /\ UNCHANGED <<holder, cookie>>
            BY <2>2 DEF CallAgainRefused
        <3>3. InboxType'
            BY <3>1, <3>2, PublishIfTypes DEF ClearAuthentication, Types,
               BrowserTypes
        <3>4. QED
            BY <3>2, <3>3 DEF Types, BrowserTypes
    <2>3. QED
        BY <2>1, <2>2
<1>3. StoreTypes'
    <2>1. CASE LoadPage(t)
        BY <2>1, LoadPageTypes
    <2>2. CASE ~(LoadPage(t))
        BY <2>2, ResetTypes DEF CallAgainRefused, ClearAuthentication, Types
    <2>3. QED
        BY <2>1, <2>2
<1>4. RefreshTypes'
    <2>1. CASE LoadPage(t)
        BY <2>1, LoadPageTypes
    <2>2. CASE ~(LoadPage(t))
        BY <2>2, BumpEpochTypes DEF CallAgainRefused, ClearAuthentication, Types
    <2>3. QED
        BY <2>1, <2>2
<1>5. OpTypes'
    <2>1. CASE LoadPage(t)
        BY <2>1, LoadPageTypes
    <2>2. CASE ~(LoadPage(t))
        BY <2>2, EndOpTypes DEF CallAgainRefused, Types
    <2>3. QED
        BY <2>1, <2>2
<1>6. HistoryTypes'
    <2>1. SignsOut(t) /\ lost' \in SUBSET Sids
        BY LoadPageTypes DEF CallAgainRefused, ClearAuthentication, Types,
           HistoryTypes
    <2>2. QED
        BY <2>1 DEF SignsOut, Types, HistoryTypes
<1>7. QED
    BY <1>1, <1>2, <1>3, <1>4, <1>5, <1>6 DEF Types

LEMMA LoginReplyTypes ==
    ASSUME Types, NEW t \in Tabs, LoginReply(t),
           UNCHANGED webLocks, ops' \in 0 .. MaxOps
    PROVE  Types'
<1>1. ServerTypes' /\ HistoryTypes'
    BY DEF LoginReply, Types, ServerTypes, serverVars, HistoryTypes
<1>2. BrowserTypes'
    <2>1. cookie' \in Cookies
        BY OpCookieType DEF LoginReply, Types, BrowserTypes
    <2>2. holder' \in Tabs \cup {NoTab}
        BY DEF LoginReply, Types, BrowserTypes
    <2>3. InboxType'

        <3>1. opSid[t] \in Sids \cup {NoSid}
            BY DEF Types, OpTypes
        <3>2. QED
            BY <3>1, PublishIfTypes DEF LoginReply, ApplyAuthBundle, Types,
               BrowserTypes
    <2>4. QED
        BY <2>1, <2>2, <2>3 DEF Types, BrowserTypes
<1>3. StoreTypes'
    <2>1. opSid[t] \in Sids \cup {NoSid} /\ opVer[t] \in 0 .. MaxVer
        BY DEF Types, OpTypes
    <2>2. QED
        BY <2>1, SetBundleTypes DEF LoginReply, ApplyAuthBundle, Types
<1>4. RefreshTypes'
    BY BumpEpochTypes DEF LoginReply, ApplyAuthBundle, Types
<1>5. OpTypes'
    BY EndOpTypes DEF LoginReply, Types
<1>6. QED
    BY <1>1, <1>2, <1>3, <1>4, <1>5 DEF Types

LEMMA LogoutReplyTypes ==
    ASSUME Types, NEW t \in Tabs, LogoutReply(t),
           UNCHANGED webLocks, ops' \in 0 .. MaxOps
    PROVE  Types'
<1>1. ServerTypes'
    BY DEF LogoutReply, Types, ServerTypes, serverVars
<1>2. BrowserTypes'
    <2>1. cookie' \in Cookies
        BY OpCookieType DEF LogoutReply, Types, BrowserTypes
    <2>2. holder' \in Tabs \cup {NoTab}
        BY DEF LogoutReply, Types, BrowserTypes
    <2>3. InboxType'

        <3>1. session[t] \in Sids \cup {NoSid}
            BY DEF Types, StoreTypes
        <3>2. QED
            BY <3>1, PublishIfTypes DEF LogoutReply, ClearAuthentication,
               Types, BrowserTypes
    <2>4. QED
        BY <2>1, <2>2, <2>3 DEF Types, BrowserTypes
<1>3. StoreTypes'
    BY ResetTypes DEF LogoutReply, ClearAuthentication, Types
<1>4. RefreshTypes'
    BY BumpEpochTypes DEF LogoutReply, ClearAuthentication, Types
<1>5. OpTypes'
    BY EndOpTypes DEF LogoutReply, Types
<1>6. HistoryTypes'
    BY SignsOutTypes DEF LogoutReply, ClearAuthentication, Types
<1>7. QED
    BY <1>1, <1>2, <1>3, <1>4, <1>5, <1>6 DEF Types

LEMMA LogoutConfirmedTypes ==
    ASSUME Types, NEW t \in Tabs, LogoutConfirmed(t),
           UNCHANGED webLocks, ops' \in 0 .. MaxOps
    PROVE  Types'
<1>1. ServerTypes'
    BY DEF LogoutConfirmed, Types, ServerTypes, serverVars
<1>2. BrowserTypes'
    <2>1. cookie' \in Cookies
        BY DEF LogoutConfirmed, Types, BrowserTypes
    <2>2. holder' \in Tabs \cup {NoTab}
        BY DEF LogoutConfirmed, Types, BrowserTypes
    <2>3. InboxType'

        <3>1. session[t] \in Sids \cup {NoSid}
            BY DEF Types, StoreTypes
        <3>2. QED
            BY <3>1, PublishIfTypes DEF LogoutConfirmed, ClearAuthentication,
               Types, BrowserTypes
    <2>4. QED
        BY <2>1, <2>2, <2>3 DEF Types, BrowserTypes
<1>3. StoreTypes'
    BY ResetTypes DEF LogoutConfirmed, ClearAuthentication, Types
<1>4. RefreshTypes'
    BY BumpEpochTypes DEF LogoutConfirmed, ClearAuthentication, Types
<1>5. OpTypes'
    BY EndOpTypes DEF LogoutConfirmed, Types
<1>6. HistoryTypes'
    BY SignsOutTypes DEF LogoutConfirmed, ClearAuthentication, Types
<1>7. QED
    BY <1>1, <1>2, <1>3, <1>4, <1>5, <1>6 DEF Types

LEMMA LogoutRecoveredTypes ==
    ASSUME Types, NEW t \in Tabs, LogoutRecovered(t),
           UNCHANGED webLocks, ops' \in 0 .. MaxOps
    PROVE  Types'
<1>1. BrowserTypes' /\ StoreTypes' /\ HistoryTypes'
    BY DEF LogoutRecovered, Types, BrowserTypes, InboxType, StoreTypes,
       storeVars, HistoryTypes
<1>2. ServerTypes'
    BY DEF LogoutRecovered, LogoutAccepted, serverVars, Types, ServerTypes
<1>3. RefreshTypes'
    BY DEF LogoutRecovered, LogoutAccepted, refreshVars, Types, RefreshTypes
<1>4. OpTypes'
    <2>1. CASE LogoutAccepted(t, "logoutAgain")
        BY <2>1, WebAuthAssumption DEF LogoutAccepted, Types, OpTypes,
           OpKinds, Outcomes
    <2>2. CASE ~LogoutAccepted(t, "logoutAgain")
        BY <2>2, EndOpTypes DEF LogoutRecovered, Types
    <2>3. QED
        BY <2>1, <2>2
<1>5. QED
    BY <1>1, <1>2, <1>3, <1>4 DEF Types

LEMMA LogoutGivesUpTypes ==
    ASSUME Types, NEW t \in Tabs, LogoutGivesUp(t),
           UNCHANGED webLocks, ops' \in 0 .. MaxOps
    PROVE  Types'
<1>1. ServerTypes' /\ BrowserTypes' /\ StoreTypes' /\ RefreshTypes' /\
         HistoryTypes'
    BY DEF LogoutGivesUp, Types, ServerTypes, serverVars, BrowserTypes,
       InboxType, StoreTypes, storeVars, RefreshTypes, refreshVars,
       HistoryTypes
<1>2. OpTypes'
    BY EndOpTypes DEF LogoutGivesUp, Types
<1>3. QED
    BY <1>1, <1>2 DEF Types

LEMMA RevokeReplyTypes ==
    ASSUME Types, NEW t \in Tabs, RevokeReply(t),
           UNCHANGED webLocks, ops' \in 0 .. MaxOps
    PROVE  Types'
<1>1. ServerTypes'
    BY DEF RevokeReply, Types, ServerTypes, serverVars
<1>2. BrowserTypes'
    <2>1. cookie' \in Cookies
        BY OpCookieType DEF RevokeReply, Types, BrowserTypes
    <2>2. holder' \in Tabs \cup {NoTab}
        BY DEF RevokeReply, Types, BrowserTypes
    <2>3. InboxType'

        <3>1. CASE session[t] = opSid[t]
            <4>1. session[t] \in Sids \cup {NoSid}
                BY DEF Types, StoreTypes
            <4>2. QED
                BY <3>1, <4>1, PublishIfTypes DEF RevokeReply,
                   ClearAuthentication, Types, BrowserTypes
        <3>2. CASE session[t] # opSid[t]
            BY <3>2 DEF RevokeReply, Types, BrowserTypes, InboxType
        <3>3. QED
            BY <3>1, <3>2
    <2>4. QED
        BY <2>1, <2>2, <2>3 DEF Types, BrowserTypes
<1>3. StoreTypes'
    <2>1. CASE session[t] = opSid[t]
        BY <2>1, ResetTypes DEF RevokeReply, ClearAuthentication, Types
    <2>2. CASE ~(session[t] = opSid[t])
        BY <2>2 DEF RevokeReply, Types, StoreTypes, storeVars
    <2>3. QED
        BY <2>1, <2>2
<1>4. RefreshTypes'
    <2>1. CASE session[t] = opSid[t]
        BY <2>1, BumpEpochTypes DEF RevokeReply, ClearAuthentication, Types
    <2>2. CASE ~(session[t] = opSid[t])
        BY <2>2 DEF RevokeReply, Types, RefreshTypes, refreshVars
    <2>3. QED
        BY <2>1, <2>2
<1>5. OpTypes'
    BY EndOpTypes DEF RevokeReply, Types
<1>6. HistoryTypes'
    <2>1. CASE session[t] = opSid[t]
        BY <2>1, SignsOutTypes DEF RevokeReply, ClearAuthentication, Types
    <2>2. CASE ~(session[t] = opSid[t])
        BY <2>2 DEF RevokeReply, Types, HistoryTypes, storeVars
    <2>3. QED
        BY <2>1, <2>2
<1>7. QED
    BY <1>1, <1>2, <1>3, <1>4, <1>5, <1>6 DEF Types

LEMMA SecurityReplyTypes ==
    ASSUME Types, NEW t \in Tabs, SecurityReply(t),
           UNCHANGED webLocks, ops' \in 0 .. MaxOps
    PROVE  Types'
<1>1. ServerTypes' /\ HistoryTypes'
    BY DEF SecurityReply, Types, ServerTypes, serverVars, HistoryTypes
<1>2. BrowserTypes'
    <2>1. cookie' \in Cookies
        BY DEF SecurityReply, Types, BrowserTypes
    <2>2. holder' \in Tabs \cup {NoTab}
        BY DEF SecurityReply, Types, BrowserTypes
    <2>3. InboxType'
        BY DEF SecurityReply, ApplyAuthBundle, PublishIf, Types, BrowserTypes,
           InboxType
    <2>4. QED
        BY <2>1, <2>2, <2>3 DEF Types, BrowserTypes
<1>3. StoreTypes'
    <2>1. CASE session[t] = opSid[t]
        <3>1. opSid[t] \in Sids \cup {NoSid} /\ opVer[t] \in 0 .. MaxVer
            BY DEF Types, OpTypes
        <3>2. QED
            BY <2>1, <3>1, SetBundleTypes DEF SecurityReply, ApplyAuthBundle,
               Types
    <2>2. CASE session[t] # opSid[t]
        BY <2>2 DEF SecurityReply, Types, StoreTypes, storeVars
    <2>3. QED
        BY <2>1, <2>2
<1>4. RefreshTypes'
    <2>1. CASE session[t] = opSid[t]
        BY <2>1, BumpEpochTypes DEF SecurityReply, ApplyAuthBundle, Types
    <2>2. CASE ~(session[t] = opSid[t])
        BY <2>2 DEF SecurityReply, Types, RefreshTypes, refreshVars
    <2>3. QED
        BY <2>1, <2>2
<1>5. OpTypes'
    BY EndOpTypes DEF SecurityReply, Types
<1>6. QED
    BY <1>1, <1>2, <1>3, <1>4, <1>5 DEF Types

LEMMA OpFailsTypes ==
    ASSUME Types, NEW t \in Tabs, OpFails(t),
           UNCHANGED webLocks, ops' \in 0 .. MaxOps
    PROVE  Types'
<1>1. ServerTypes' /\ BrowserTypes' /\ StoreTypes' /\ RefreshTypes' /\
         HistoryTypes'
    BY DEF OpFails, Types, ServerTypes, serverVars, BrowserTypes, InboxType,
       StoreTypes, storeVars, RefreshTypes, refreshVars, HistoryTypes
<1>2. OpTypes'
    BY EndOpTypes DEF OpFails, Types
<1>3. QED
    BY <1>1, <1>2 DEF Types

LEMMA NavigateTypes ==
    ASSUME Types, NEW t \in Tabs, Navigate(t),
           UNCHANGED webLocks, ops' \in 0 .. MaxOps
    PROVE  Types'
<1>1. ServerTypes' /\ BrowserTypes' /\ OpTypes' /\ HistoryTypes'
    BY DEF Navigate, Types, ServerTypes, serverVars, BrowserTypes, InboxType,
       OpTypes, opVars, HistoryTypes
<1>2. StoreTypes'
    BY DEF Navigate, Types, StoreTypes
<1>3. RefreshTypes'
    BY RefreshAuthenticationTypes DEF Navigate, refreshVars, Types,
       RefreshTypes
<1>4. QED
    BY <1>1, <1>2, <1>3 DEF Types

LEMMA CallTypes ==
    ASSUME Types, NEW t \in Tabs, Call(t),
           UNCHANGED webLocks, ops' \in 0 .. MaxOps
    PROVE  Types'
<1>1. ServerTypes' /\ BrowserTypes' /\ StoreTypes' /\ HistoryTypes'
    BY DEF Call, Types, ServerTypes, serverVars, BrowserTypes, InboxType,
       StoreTypes, storeVars, HistoryTypes
<1>2. RefreshTypes'
    BY RefreshAuthenticationTypes DEF Call, Types
<1>3. OpTypes'
    BY DEF Call, Types, OpTypes, OpKinds
<1>4. QED
    BY <1>1, <1>2, <1>3 DEF Types

LEMMA PeerAuthenticatedTypes ==
    ASSUME Types, NEW t \in Tabs, PeerAuthenticated(t),
           UNCHANGED webLocks, ops' \in 0 .. MaxOps
    PROVE  Types'
<1>1. ServerTypes'
    BY DEF PeerAuthenticated, Types, ServerTypes, serverVars
<1>2. BrowserTypes'
    <2>1. CASE LoadPage(t)
        BY <2>1, LoadPageTypes
    <2>2. CASE ~(LoadPage(t))
        <3>1. InboxType'
            BY <2>2, TailTypes DEF PeerAuthenticated, Types, BrowserTypes
        <3>2. QED
            BY <2>2, <3>1 DEF PeerAuthenticated, Types, BrowserTypes
    <2>3. QED
        BY <2>1, <2>2
<1>3. StoreTypes'
    <2>1. CASE LoadPage(t)
        BY <2>1, LoadPageTypes
    <2>2. CASE ~(LoadPage(t))
        BY <2>2 DEF PeerAuthenticated, Types, StoreTypes, storeVars
    <2>3. QED
        BY <2>1, <2>2
<1>4. RefreshTypes'
    <2>1. CASE LoadPage(t)
        BY <2>1, LoadPageTypes
    <2>2. CASE ~(LoadPage(t))
        BY <2>2 DEF PeerAuthenticated, Types, RefreshTypes, refreshVars
    <2>3. QED
        BY <2>1, <2>2
<1>5. OpTypes'
    <2>1. CASE LoadPage(t)
        BY <2>1, LoadPageTypes
    <2>2. CASE ~(LoadPage(t))
        BY <2>2 DEF PeerAuthenticated, Types, OpTypes, opVars
    <2>3. QED
        BY <2>1, <2>2
<1>6. HistoryTypes'
    <2>1. CASE LoadPage(t)
        BY <2>1, LoadPageTypes DEF PeerAuthenticated, Types, HistoryTypes
    <2>2. CASE ~(LoadPage(t))
        BY <2>2 DEF PeerAuthenticated, Types, HistoryTypes
    <2>3. QED
        BY <2>1, <2>2
<1>7. QED
    BY <1>1, <1>2, <1>3, <1>4, <1>5, <1>6 DEF Types

LEMMA PeerSignedOutTypes ==
    ASSUME Types, NEW t \in Tabs, PeerSignedOut(t),
           UNCHANGED webLocks, ops' \in 0 .. MaxOps
    PROVE  Types'
<1>1. ServerTypes' /\ OpTypes'
    BY DEF PeerSignedOut, Types, ServerTypes, serverVars, OpTypes, opVars
<1>2. BrowserTypes'
    <2>1. cookie' \in Cookies
        BY DEF PeerSignedOut, Types, BrowserTypes
    <2>2. holder' \in Tabs \cup {NoTab}
        BY DEF PeerSignedOut, Types, BrowserTypes
    <2>3. InboxType'
        BY TailTypes DEF PeerSignedOut, Types, BrowserTypes
    <2>4. QED
        BY <2>1, <2>2, <2>3 DEF Types, BrowserTypes
<1>3. StoreTypes'
    <2>1. CASE Reset(t, "complete")
        BY <2>1, ResetTypes DEF Types
    <2>2. CASE UNCHANGED storeVars
        BY <2>2 DEF Types, StoreTypes, storeVars
    <2>3. QED
        BY <2>1, <2>2 DEF PeerSignedOut
<1>4. RefreshTypes'
    BY BumpEpochTypes DEF PeerSignedOut, Types, RefreshTypes
<1>5. HistoryTypes'
    BY SignsOutTypes DEF PeerSignedOut, Types, HistoryTypes
<1>6. QED
    BY <1>1, <1>2, <1>3, <1>4, <1>5 DEF Types

LEMMA PeerEventDroppedTypes ==
    ASSUME Types, NEW t \in Tabs, PeerEventDropped(t),
           UNCHANGED webLocks, ops' \in 0 .. MaxOps
    PROVE  Types'
<1>1. ServerTypes' /\ StoreTypes' /\ RefreshTypes' /\ OpTypes' /\
         HistoryTypes'
    BY DEF PeerEventDropped, Types, ServerTypes, serverVars, StoreTypes,
       storeVars, RefreshTypes, refreshVars, OpTypes, opVars, HistoryTypes
<1>2. BrowserTypes'
    <2>1. cookie' \in Cookies
        BY DEF PeerEventDropped, Types, BrowserTypes
    <2>2. holder' \in Tabs \cup {NoTab}
        BY DEF PeerEventDropped, Types, BrowserTypes
    <2>3. InboxType'
        BY TailTypes DEF PeerEventDropped, Types, BrowserTypes
    <2>4. QED
        BY <2>1, <2>2, <2>3 DEF Types, BrowserTypes
<1>3. QED
    BY <1>1, <1>2 DEF Types

LEMMA GraceEndsTypes ==
    ASSUME Types, NEW s \in Sids, GraceEnds(s),
           UNCHANGED webLocks, ops' \in 0 .. MaxOps
    PROVE  Types'
<1>1. BrowserTypes' /\ StoreTypes' /\ RefreshTypes' /\ OpTypes' /\
         HistoryTypes'
    BY DEF GraceEnds, Types, BrowserTypes, InboxType, StoreTypes, storeVars,
       RefreshTypes, refreshVars, OpTypes, opVars, HistoryTypes
<1>2. ServerTypes'
    BY DEF GraceEnds, Types, ServerTypes
<1>3. QED
    BY <1>1, <1>2 DEF Types

-----------------------------------------------------------------------------
\* The arithmetic facts the parts of Inv are about.
LEMMA Numbers ==
    ASSUME Types
    PROVE  /\ issued \in Nat /\ ver \in Nat /\ issued <= MaxSessions /\ MaxSessions \in Nat
           /\ cookie.sid \in Nat /\ cookie.gen \in Nat
           /\ NoSid = 0 /\ NoCookie.sid = 0 /\ NoCookie.gen = 0
           /\ NoReply.code = "none" /\ NoReply.cookie.sid = 0 /\ NoReply.ver = 0
           /\ \A s \in Sids : gen[s] \in Nat /\ s \in Nat /\ s # 0
           /\ \A t \in Tabs : /\ session[t] \in Nat /\ token[t] \in Nat
                              /\ opSid[t] \in Nat /\ opVer[t] \in Nat
                              /\ reply[t].cookie.sid \in Nat /\ reply[t].ver \in Nat
                              /\ left[t] \subseteq Sids
<1>1. issued \in Nat /\ ver \in Nat /\ issued <= MaxSessions /\ MaxSessions \in Nat
    BY WebAuthAssumption DEF Types, ServerTypes
<1>2. cookie.sid \in Nat /\ cookie.gen \in Nat
    BY CookieType, WebAuthAssumption DEF Types, BrowserTypes, Sids, NoSid
<1>3. /\ NoSid = 0 /\ NoCookie.sid = 0 /\ NoCookie.gen = 0
      /\ NoReply.code = "none" /\ NoReply.cookie.sid = 0 /\ NoReply.ver = 0
    BY DEF NoSid, NoCookie, NoReply
<1>4. \A s \in Sids : gen[s] \in Nat /\ s \in Nat /\ s # 0
    BY WebAuthAssumption DEF Types, ServerTypes, Sids
<1>5. ASSUME NEW t \in Tabs
      PROVE  /\ session[t] \in Nat /\ token[t] \in Nat
             /\ opSid[t] \in Nat /\ opVer[t] \in Nat
             /\ left[t] \subseteq Sids
    BY WebAuthAssumption DEF Types, StoreTypes, OpTypes, HistoryTypes, Sids,
       NoSid
<1>6. ASSUME NEW t \in Tabs
      PROVE  reply[t].cookie.sid \in Nat /\ reply[t].ver \in Nat
    BY ReplyType, WebAuthAssumption DEF Types, Sids, NoSid
<1>7. QED
    BY <1>1, <1>2, <1>3, <1>4, <1>5, <1>6

\* Where a new cookie comes from.
LEMMA OpCookieSources ==
    ASSUME NEW t \in Tabs
    PROVE  \/ OpCookie(t) = cookie
           \/ OpCookie(t) = NoCookie
           \/ op[t] = "login" /\ OpCookie(t).sid = opSid[t] /\ OpCookie(t).gen = 0
<1>1. CASE op[t] = "login"
    BY <1>1 DEF OpCookie
<1>2. CASE op[t] # "login"
    BY <1>2 DEF OpCookie
<1>3. QED
    BY <1>1, <1>2

LEMMA CookieSources ==
    ASSUME NEW t \in Tabs, cookie' \in {cookie, OpCookie(t), CookieAfter(reply[t])}
    PROVE  \/ cookie' = cookie
           \/ cookie' = NoCookie
           \/ cookie' = reply[t].cookie /\ cookie' = CookieAfter(reply[t])
           \/ /\ op[t] = "login"
              /\ cookie' = OpCookie(t) /\ cookie'.sid = opSid[t] /\ cookie'.gen = 0
BY OpCookieSources DEF CookieAfter

\* Under Web Locks a tab that is granted the lock finds nobody in flight.
LEMMA Alone ==
    ASSUME LockHeld, webLocks, NEW t \in Tabs, refresh[t] = "waiting",
           LockGranted(t)
    PROVE  \A u \in Tabs : ~InFlight(u)
BY WebAuthAssumption DEF LockHeld, LockGranted, InFlight

\* A refresh that ends, with its answer or without, keeps the cookie fresh.
LEMMA SettlesFresh ==
    ASSUME Types, Fresh, Unseen, NEW t \in Tabs, NEW r \in {"none", "waiting"},
           refresh' = [refresh EXCEPT ![t] = r],
           reply' = [reply EXCEPT ![t] = NoReply],
           UNCHANGED <<webLocks, gen>>,
           \/ cookie' \in {cookie, OpCookie(t)} /\ lost' = LostRotation(t)
           \/ InFlight(t) /\ cookie' = CookieAfter(reply[t]) /\ lost' = lost
    PROVE  Fresh'
<1>1. ReplyFresh'
    <2> SUFFICES ASSUME NEW u \in Tabs
                 PROVE  /\ (reply[u].code # "ok" => reply[u].cookie.sid = NoSid)'
                        /\ (Accepted(u) /\ webLocks /\ reply[u].cookie.sid \notin lost
                            => reply[u].cookie.gen = gen[reply[u].cookie.sid])'
        BY DEF ReplyFresh
    <2>1. CASE u = t
        BY <2>1, Numbers DEF Types, RefreshTypes, Accepted, InFlight
    <2>2. CASE u # t
        <3>1. reply'[u] = reply[u] /\ refresh'[u] = refresh[u] /\ lost \subseteq lost'
            BY <2>2 DEF Types, RefreshTypes, LostRotation
        <3>2. QED
            BY <3>1 DEF Fresh, ReplyFresh, Accepted, InFlight
    <2>3. QED
        BY <2>1, <2>2
<1>2. CookieFresh'
    <2> SUFFICES ASSUME webLocks, cookie'.sid # NoSid, cookie'.sid \notin lost'
                 PROVE  \/ cookie'.gen = gen[cookie'.sid]
                        \/ \E u \in Tabs : Accepted(u)' /\ reply'[u].cookie.sid = cookie'.sid
        BY DEF CookieFresh
    <2>1. CASE cookie' = cookie /\ (lost' = LostRotation(t) \/ reply[t].code = "mismatch")
        <3>1. \/ cookie.gen = gen[cookie.sid]
              \/ \E u \in Tabs : Accepted(u) /\ reply[u].cookie.sid = cookie.sid
            BY <2>1 DEF Fresh, CookieFresh, LostRotation
        <3>2. ASSUME NEW u \in Tabs, Accepted(u), reply[u].cookie.sid = cookie.sid
              PROVE  Accepted(u)' /\ reply'[u].cookie.sid = cookie'.sid
            <4>1. u # t
                BY <2>1, <3>2 DEF LostRotation, Accepted, CookieAfter
            <4>2. QED
                BY <2>1, <3>2, <4>1 DEF Types, RefreshTypes, Accepted, InFlight
        <3>3. QED
            BY <2>1, <3>1, <3>2
    <2>2. CASE /\ InFlight(t) /\ reply[t].code # "mismatch"
               /\ cookie' = CookieAfter(reply[t]) /\ lost' = lost
        <3>1. cookie' = reply[t].cookie /\ reply[t].code = "ok"
            BY <2>2 DEF CookieAfter, Fresh, ReplyFresh
        <3>2. QED
            BY <2>2, <3>1 DEF Fresh, ReplyFresh, Accepted
    <2>3. CASE op[t] = "login" /\ cookie'.sid = opSid[t] /\ cookie'.gen = 0
        BY <2>3 DEF Unseen
    <2>4. cookie' # NoCookie
        BY Numbers
    <2>5. CASE cookie' \in {cookie, OpCookie(t)} /\ lost' = LostRotation(t)
        BY <2>1, <2>3, <2>4, <2>5, OpCookieSources
    <2>6. QED
        BY <2>1, <2>2, <2>5 DEF CookieAfter
<1>3. QED
    BY <1>1, <1>2 DEF Fresh

\* So does the cookie of a login, a sign-out or a revocation.
LEMMA OpCookieFresh ==
    ASSUME Types, Fresh, Unseen, NEW t \in Tabs, cookie' = OpCookie(t),
           UNCHANGED <<webLocks, gen, lost, refresh, reply>>
    PROVE  Fresh'
<1>1. ReplyFresh'
    BY DEF Fresh, ReplyFresh, Accepted, InFlight
<1>2. CASE cookie' = cookie
    BY <1>1, <1>2 DEF Fresh, CookieFresh, Accepted, InFlight
<1>3. CASE cookie' = NoCookie
    BY <1>1, <1>3, Numbers DEF Fresh, CookieFresh
<1>4. CASE op[t] = "login" /\ cookie'.sid = opSid[t] /\ cookie'.gen = 0
    BY <1>1, <1>4 DEF Fresh, CookieFresh, Unseen
<1>5. QED
    BY <1>2, <1>3, <1>4, OpCookieSources

\* The server's answers: the lock is the tab's, and the answer is fresh.
LEMMA AnswerLock ==
    ASSUME Types, LockHeld, NEW t \in Tabs, NEW code, NEW c, NEW v,
           RefreshSent(t), Answer(t, code, c, v), UNCHANGED webLocks
    PROVE  LockHeld'
<1> SUFFICES ASSUME webLocks, NEW u \in Tabs, refresh'[u] = "flight"
             PROVE  holder' = u
    BY DEF LockHeld, InFlight
<1>1. u = t
    BY Alone DEF RefreshSent, Answer, Types, RefreshTypes, InFlight
<1>2. QED
    BY <1>1 DEF Answer, TakeLock

LEMMA AnswerFresh ==
    ASSUME Types, LockHeld, Fresh, NEW t \in Tabs, NEW code, NEW c, NEW v,
           RefreshSent(t), Answer(t, code, c, v),
           UNCHANGED <<webLocks, cookie, lost>>,
           code # "ok" => c.sid = NoSid /\ gen' = gen,
           code = "ok" => /\ c.sid = cookie.sid
                          /\ webLocks /\ cookie.sid \notin lost => c.gen = gen'[c.sid],
           \A s \in Sids : s # cookie.sid => gen'[s] = gen[s]
    PROVE  Fresh'
<1>1. reply'[t] = [code |-> code, cookie |-> c, ver |-> v] /\ refresh'[t] = "flight"
    BY DEF Answer, Types, RefreshTypes
<1>2. ASSUME NEW u \in Tabs, u # t
      PROVE  reply'[u] = reply[u] /\ refresh'[u] = refresh[u]
    BY <1>2 DEF Answer, Types, RefreshTypes
<1>3. ASSUME webLocks, NEW u \in Tabs, u # t
      PROVE  ~Accepted(u) /\ ~Accepted(u)'
    BY <1>2, <1>3, Alone DEF RefreshSent, Accepted, InFlight
<1>4. ReplyFresh'
    <2> SUFFICES ASSUME NEW u \in Tabs
                 PROVE  /\ (reply[u].code # "ok" => reply[u].cookie.sid = NoSid)'
                        /\ (Accepted(u) /\ webLocks /\ reply[u].cookie.sid \notin lost
                            => reply[u].cookie.gen = gen[reply[u].cookie.sid])'
        BY DEF ReplyFresh
    <2>1. CASE u = t
        BY <1>1, <2>1 DEF Accepted
    <2>2. CASE u # t
        BY <1>2, <1>3, <2>2 DEF Fresh, ReplyFresh
    <2>3. QED
        BY <2>1, <2>2
<1>5. CookieFresh'
    <2> SUFFICES ASSUME webLocks, cookie.sid # NoSid, cookie.sid \notin lost
                 PROVE  \/ cookie.gen = gen'[cookie.sid]
                        \/ \E u \in Tabs : Accepted(u)' /\ reply'[u].cookie.sid = cookie.sid
        BY DEF CookieFresh
    <2>1. CASE code = "ok"
        BY <1>1, <2>1 DEF Accepted, InFlight
    <2>2. CASE code # "ok"
        <3>1. ~Accepted(t)
            BY DEF RefreshSent, Accepted, InFlight
        <3>2. QED
            BY <1>3, <2>2, <3>1 DEF Fresh, CookieFresh
    <2>3. QED
        BY <2>1, <2>2
<1>6. QED
    BY <1>4, <1>5 DEF Fresh

\* The previous secret is presented only after an answer was lost.
LEMMA StaleMeansLost ==
    ASSUME Types, LockHeld, Fresh, webLocks, NEW t \in Tabs, CookieMatches(t),
           cookie.gen + 1 = gen[cookie.sid]
    PROVE  cookie.sid \in lost
<1>1. \A u \in Tabs : ~Accepted(u)
    BY Alone DEF CookieMatches, RefreshSent, Accepted
<1>2. cookie.gen # gen[cookie.sid]
    BY Numbers
<1>3. QED
    BY <1>1, <1>2 DEF CookieMatches, Fresh, CookieFresh

\* A page load, and a sign-out, whichever action causes them.
LEMMA LoadPageInv ==
    ASSUME Types, Inv, NEW t \in Tabs, LoadPage(t),
           UNCHANGED <<serverVars, webLocks>>,
           left' = left \/ SignsOut(t)
    PROVE  Inv'
<1>0. LockHeld /\ Fresh /\ ReuseNeedsLoss /\ KnownSids /\ Unseen
      /\ LeftDead /\ ReplyNotLeft /\ SignedOutStaysOut /\ Versions
    BY DEF Inv
<1>1. LockHeld'
    BY <1>0, Numbers DEF Types, RefreshTypes, LockHeld, InFlight, LoadPage,
       StopRefresh
<1>2. Fresh'
    BY <1>0, SettlesFresh DEF LoadPage, StopRefresh, serverVars, InFlight
<1>3. ReuseNeedsLoss'
    BY <1>0 DEF ReuseNeedsLoss, LoadPage, LostRotation, serverVars
<1>4. KnownSids'
    <2>1. cookie' \in {cookie, OpCookie(t), CookieAfter(reply[t])}
        BY DEF LoadPage
    <2>2. \/ cookie'.sid \in {cookie.sid, 0, reply[t].cookie.sid}
          \/ op[t] = "login" /\ cookie'.sid = opSid[t]
        BY <2>1, CookieSources, Numbers
    <2>3. QED
        BY <1>0, <2>2, Numbers DEF HistoryTypes, Types, RefreshTypes,
           StoreTypes, KnownSids, LoadPage, Reset, StopRefresh, serverVars,
           Unseen, SignsOut
<1>5. Unseen'
    <2>1. cookie' \in {cookie, OpCookie(t), CookieAfter(reply[t])}
        BY DEF LoadPage
    <2>2. \/ cookie'.sid \in {cookie.sid, 0, reply[t].cookie.sid}
          \/ op[t] = "login" /\ cookie'.sid = opSid[t]
        BY <2>1, CookieSources, Numbers
    <2>3. ASSUME NEW u \in Tabs, op'[u] = "login"
          PROVE  u # t /\ op[u] = "login" /\ opSid'[u] = opSid[u] /\ left'[u] = left[u]
        BY <2>3 DEF Types, OpTypes, HistoryTypes, LoadPage, EndOp, SignsOut
    <2>4. ASSUME NEW u \in Tabs
          PROVE  /\ session'[u] \in {session[u], 0}
                 /\ reply'[u].cookie.sid \in {reply[u].cookie.sid, 0}
        BY Numbers DEF Types, StoreTypes, RefreshTypes, LoadPage, Reset,
           StopRefresh
    <2>5. QED
        BY <1>0, <2>2, <2>3, <2>4, Numbers DEF Unseen, serverVars
<1>6. LeftDead'
    BY <1>0, Numbers DEF Types, HistoryTypes, LeftDead, LoadPage, serverVars,
       SignsOut
<1>7. ReplyNotLeft'
    BY <1>0, Numbers DEF HistoryTypes, Types, RefreshTypes, ReplyNotLeft,
       Accepted, InFlight, LoadPage, StopRefresh, SignsOut
<1>8. SignedOutStaysOut'
    BY <1>0, Numbers DEF HistoryTypes, Types, StoreTypes, SignedOutStaysOut,
       LoadPage, Reset, SignsOut
<1>9. Versions'
    BY <1>0, Numbers DEF Types, OpTypes, RefreshTypes, StoreTypes, Versions,
       Accepted, InFlight, LoadPage, Reset, StopRefresh, EndOp, serverVars
<1>10. QED
    BY <1>1, <1>2, <1>3, <1>4, <1>5, <1>6, <1>7, <1>8, <1>9 DEF Inv

LEMMA ClearAuthenticationInv ==
    ASSUME Types, Inv, NEW t \in Tabs, NEW synchronizeTabs,
           ClearAuthentication(t, synchronizeTabs), EndOp(t),
           cookie' \in {cookie, OpCookie(t)},
           UNCHANGED <<serverVars, webLocks, holder, refresh, mayRetry, reply, lost>>
    PROVE  Inv'
<1>0. LockHeld /\ Fresh /\ ReuseNeedsLoss /\ KnownSids /\ Unseen
      /\ LeftDead /\ ReplyNotLeft /\ SignedOutStaysOut /\ Versions
    BY DEF Inv
<1>1. LockHeld'
    BY <1>0 DEF LockHeld, InFlight
<1>2. Fresh'
    BY <1>0, OpCookieFresh DEF serverVars, Fresh, CookieFresh, ReplyFresh,
       Accepted, InFlight
<1>3. ReuseNeedsLoss'
    BY <1>0 DEF ReuseNeedsLoss, serverVars
<1>4. KnownSids'
    <2>1. cookie' \in {cookie, OpCookie(t), CookieAfter(reply[t])}
        OBVIOUS
    <2>2. \/ cookie'.sid \in {cookie.sid, 0, reply[t].cookie.sid}
          \/ op[t] = "login" /\ cookie'.sid = opSid[t]
        BY <2>1, CookieSources, Numbers
    <2>3. QED
        BY <1>0, <2>2, Numbers DEF Types, HistoryTypes, StoreTypes, KnownSids,
           ClearAuthentication, Reset, SignsOut, serverVars, Unseen
<1>5. Unseen'
    <2>1. cookie' \in {cookie, OpCookie(t), CookieAfter(reply[t])}
        OBVIOUS
    <2>2. \/ cookie'.sid \in {cookie.sid, 0, reply[t].cookie.sid}
          \/ op[t] = "login" /\ cookie'.sid = opSid[t]
        BY <2>1, CookieSources, Numbers
    <2>3. QED
        BY <1>0, <2>2, Numbers DEF Types, HistoryTypes, OpTypes, StoreTypes,
           Unseen, ClearAuthentication, Reset, SignsOut, EndOp, serverVars
<1>6. LeftDead'
    BY <1>0, Numbers DEF Types, HistoryTypes, LeftDead, ClearAuthentication,
       SignsOut, serverVars
<1>7. ReplyNotLeft'
    BY <1>0, Numbers DEF Types, HistoryTypes, RefreshTypes, ReplyNotLeft,
       Accepted, InFlight, ClearAuthentication, BumpEpoch, SignsOut
<1>8. SignedOutStaysOut'
    BY <1>0, Numbers DEF Types, HistoryTypes, StoreTypes, SignedOutStaysOut,
       ClearAuthentication, Reset, SignsOut
<1>9. Versions'
    BY <1>0, Numbers DEF Types, OpTypes, RefreshTypes, StoreTypes, Versions,
       Accepted, InFlight, ClearAuthentication, BumpEpoch, Reset, EndOp,
       serverVars
<1>10. QED
    BY <1>1, <1>2, <1>3, <1>4, <1>5, <1>6, <1>7, <1>8, <1>9 DEF Inv

\* Inv is preserved by each action.
LEMMA ReloadInv ==
    ASSUME Types, Inv, NEW t \in Tabs, Reload(t),
           UNCHANGED webLocks
    PROVE  Inv'
BY LoadPageInv DEF Reload

LEMMA LoginInv ==
    ASSUME Types, Inv, NEW t \in Tabs, Login(t),
           UNCHANGED webLocks
    PROVE  Inv'
<1>0. LockHeld /\ Fresh /\ ReuseNeedsLoss /\ KnownSids /\ Unseen
      /\ LeftDead /\ ReplyNotLeft /\ SignedOutStaysOut /\ Versions
    BY DEF Inv
<1>1. LockHeld' /\ Fresh' /\ ReuseNeedsLoss' /\ ReplyNotLeft' /\
         SignedOutStaysOut'
    BY <1>0 DEF LockHeld, InFlight, Login, refreshVars, Fresh, CookieFresh,
       ReplyFresh, Accepted, ReuseNeedsLoss, ReplyNotLeft, SignedOutStaysOut,
       storeVars
<1>2. KnownSids'
    BY <1>0, Numbers DEF KnownSids, Login, storeVars, refreshVars
<1>3. Unseen'
    <2>1. ASSUME NEW u \in Tabs
          PROVE  /\ session[u] # issued + 1 /\ reply[u].cookie.sid # issued + 1
                 /\ issued + 1 \notin left[u]
                 /\ op[u] = "login" => opSid[u] # issued + 1
        BY <1>0, Numbers DEF KnownSids, Unseen
    <2>2. cookie.sid # issued + 1 /\ issued + 1 \in 1 .. issued' /\ issued' = issued + 1
        BY <1>0, Numbers DEF KnownSids, Login
    <2>3. issued + 1 \in Sids /\ gen[issued + 1] = 0
        BY <1>0, Numbers DEF KnownSids, Login, Sids
    <2>4. UNCHANGED <<gen, cookie, left, session, reply>>
        BY DEF Login, storeVars, refreshVars
    <2>5. op' = [op EXCEPT ![t] = "login"] /\ opSid' = [opSid EXCEPT ![t] = issued + 1]
        BY DEF Login, StartOp
    <2>6. ASSUME NEW u \in Tabs, op'[u] = "login", u # t
          PROVE  /\ op[u] = "login" /\ opSid'[u] = opSid[u]
                 /\ opSid[u] \in 1 .. issued'
        BY <1>0, <2>2, <2>5, <2>6, Numbers DEF Types, OpTypes, Unseen
    <2>7. opSid'[t] = issued + 1
        BY <2>5 DEF Types, OpTypes
    <2>8. QED
        BY <1>0, <2>1, <2>2, <2>3, <2>4, <2>6, <2>7 DEF Unseen
<1>4. LeftDead'
    <2>1. \A u \in Tabs : issued + 1 \notin left[u]
        BY <1>0, Numbers DEF KnownSids
    <2>2. QED
        BY <1>0, <2>1 DEF LeftDead, Login
<1>5. Versions'
    BY <1>0, Numbers DEF Types, OpTypes, Versions, Accepted, InFlight, Login,
       StartOp, storeVars, refreshVars
<1>6. QED
    BY <1>1, <1>2, <1>3, <1>4, <1>5 DEF Inv

LEMMA LogoutInv ==
    ASSUME Types, Inv, NEW t \in Tabs, Logout(t),
           UNCHANGED webLocks
    PROVE  Inv'
<1>0. LockHeld /\ Fresh /\ ReuseNeedsLoss /\ KnownSids /\ Unseen
      /\ LeftDead /\ ReplyNotLeft /\ SignedOutStaysOut /\ Versions
    BY DEF Inv
<1>1. ReuseNeedsLoss' /\ KnownSids' /\ SignedOutStaysOut'
    BY <1>0 DEF ReuseNeedsLoss, Logout, LogoutAccepted, serverVars, KnownSids,
       refreshVars, RefreshAuthentication, storeVars, SignedOutStaysOut
<1>2. LockHeld'
    BY <1>0, Numbers DEF Types, RefreshTypes, LockHeld, InFlight, Logout,
       LogoutAccepted, refreshVars, RefreshAuthentication
<1>3. Fresh'
    BY <1>0, Numbers DEF Types, RefreshTypes, Fresh, CookieFresh, ReplyFresh,
       Accepted, InFlight, Logout, LogoutAccepted, refreshVars,
       RefreshAuthentication, serverVars
<1>4. Unseen'
    BY <1>0, Numbers DEF Types, OpTypes, Unseen, Logout, LogoutAccepted,
       refreshVars, StartOp, RefreshAuthentication, serverVars, storeVars
<1>5. LeftDead'
    BY <1>0, Numbers DEF LeftDead, Logout, LogoutAccepted, serverVars
<1>6. ReplyNotLeft'
    BY <1>0, Numbers DEF Types, RefreshTypes, ReplyNotLeft, Accepted,
       InFlight, Logout, LogoutAccepted, refreshVars, RefreshAuthentication
<1>7. Versions'
    BY <1>0, Numbers DEF Types, OpTypes, RefreshTypes, Versions, Accepted,
       InFlight, Logout, LogoutAccepted, refreshVars, StartOp,
       RefreshAuthentication, serverVars, storeVars
<1>8. QED
    BY <1>1, <1>2, <1>3, <1>4, <1>5, <1>6, <1>7 DEF Inv

LEMMA ChangeSecurityInv ==
    ASSUME Types, Inv, NEW t \in Tabs, ChangeSecurity(t),
           UNCHANGED webLocks
    PROVE  Inv'
<1>0. LockHeld /\ Fresh /\ ReuseNeedsLoss /\ KnownSids /\ Unseen
      /\ LeftDead /\ ReplyNotLeft /\ SignedOutStaysOut /\ Versions
    BY DEF Inv
<1>1. LockHeld' /\ Fresh' /\ ReuseNeedsLoss' /\ KnownSids' /\
         ReplyNotLeft' /\ SignedOutStaysOut'
    BY <1>0 DEF LockHeld, InFlight, ChangeSecurity, refreshVars, Fresh,
       CookieFresh, ReplyFresh, Accepted, ReuseNeedsLoss, KnownSids,
       storeVars, ReplyNotLeft, SignedOutStaysOut
<1>2. Unseen'
    BY <1>0, Numbers DEF Types, OpTypes, Unseen, ChangeSecurity, StartOp,
       storeVars, refreshVars
<1>3. LeftDead'
    BY <1>0 DEF LeftDead, ChangeSecurity, TokenValid
<1>4. Versions'
    BY <1>0, Numbers DEF Types, OpTypes, Versions, Accepted, InFlight,
       ChangeSecurity, StartOp, storeVars, refreshVars
<1>5. QED
    BY <1>1, <1>2, <1>3, <1>4 DEF Inv

LEMMA TokenExpiresInv ==
    ASSUME Types, Inv, NEW t \in Tabs, TokenExpires(t),
           UNCHANGED webLocks
    PROVE  Inv'
<1>0. LockHeld /\ Fresh /\ ReuseNeedsLoss /\ KnownSids /\ Unseen
      /\ LeftDead /\ ReplyNotLeft /\ SignedOutStaysOut /\ Versions
    BY DEF Inv
<1>1. LockHeld' /\ Fresh' /\ ReuseNeedsLoss' /\ KnownSids' /\ Unseen' /\
         LeftDead' /\ ReplyNotLeft' /\ SignedOutStaysOut' /\ Versions'
    BY <1>0 DEF LockHeld, InFlight, TokenExpires, refreshVars, Fresh,
       CookieFresh, ReplyFresh, Accepted, serverVars, ReuseNeedsLoss,
       KnownSids, Unseen, opVars, LeftDead, ReplyNotLeft, SignedOutStaysOut,
       Versions
<1>2. QED
    BY <1>1 DEF Inv

LEMMA GetFreshAuthHeadersInv ==
    ASSUME Types, Inv, NEW t \in Tabs, GetFreshAuthHeaders(t),
           UNCHANGED webLocks
    PROVE  Inv'
<1>0. LockHeld /\ Fresh /\ ReuseNeedsLoss /\ KnownSids /\ Unseen
      /\ LeftDead /\ ReplyNotLeft /\ SignedOutStaysOut /\ Versions
    BY DEF Inv
<1>1. ReuseNeedsLoss' /\ KnownSids' /\ Unseen' /\ LeftDead' /\
         SignedOutStaysOut'
    BY <1>0 DEF ReuseNeedsLoss, GetFreshAuthHeaders, serverVars, KnownSids,
       RefreshAuthentication, refreshVars, storeVars, Unseen, opVars,
       LeftDead, SignedOutStaysOut
<1>2. LockHeld'
    BY <1>0, Numbers DEF Types, RefreshTypes, LockHeld, InFlight,
       GetFreshAuthHeaders, RefreshAuthentication, refreshVars
<1>3. Fresh'
    BY <1>0, Numbers DEF Types, RefreshTypes, Fresh, CookieFresh, ReplyFresh,
       Accepted, InFlight, GetFreshAuthHeaders, RefreshAuthentication,
       refreshVars, serverVars
<1>4. ReplyNotLeft'
    BY <1>0, Numbers DEF Types, RefreshTypes, ReplyNotLeft, Accepted,
       InFlight, GetFreshAuthHeaders, RefreshAuthentication, refreshVars
<1>5. Versions'
    BY <1>0, Numbers DEF Types, RefreshTypes, Versions, Accepted, InFlight,
       GetFreshAuthHeaders, RefreshAuthentication, refreshVars, serverVars,
       storeVars, opVars
<1>6. QED
    BY <1>1, <1>2, <1>3, <1>4, <1>5 DEF Inv

LEMMA RevokeLoginSessionInv ==
    ASSUME Types, Inv, NEW t \in Tabs, NEW s \in Sids, RevokeLoginSession(t, s),
           UNCHANGED webLocks
    PROVE  Inv'
<1>0. LockHeld /\ Fresh /\ ReuseNeedsLoss /\ KnownSids /\ Unseen
      /\ LeftDead /\ ReplyNotLeft /\ SignedOutStaysOut /\ Versions
    BY DEF Inv
<1>1. LockHeld' /\ Fresh' /\ ReuseNeedsLoss' /\ KnownSids' /\
         ReplyNotLeft' /\ SignedOutStaysOut' /\ Versions'
    BY <1>0 DEF LockHeld, InFlight, RevokeLoginSession, refreshVars, Fresh,
       CookieFresh, ReplyFresh, Accepted, ReuseNeedsLoss, KnownSids,
       storeVars, ReplyNotLeft, SignedOutStaysOut, Versions
<1>2. Unseen'
    BY <1>0, Numbers DEF Types, OpTypes, Unseen, RevokeLoginSession,
       storeVars, refreshVars
<1>3. LeftDead'
    BY <1>0, Numbers DEF LeftDead, RevokeLoginSession
<1>4. QED
    BY <1>1, <1>2, <1>3 DEF Inv

LEMMA RevokedElsewhereInv ==
    ASSUME Types, Inv, NEW s \in Sids, RevokedElsewhere(s),
           UNCHANGED webLocks
    PROVE  Inv'
<1>0. LockHeld /\ Fresh /\ ReuseNeedsLoss /\ KnownSids /\ Unseen
      /\ LeftDead /\ ReplyNotLeft /\ SignedOutStaysOut /\ Versions
    BY DEF Inv
<1>1. LockHeld' /\ Fresh' /\ ReuseNeedsLoss' /\ KnownSids' /\ Unseen' /\
         ReplyNotLeft' /\ SignedOutStaysOut' /\ Versions'
    BY <1>0 DEF LockHeld, InFlight, RevokedElsewhere, refreshVars, Fresh,
       CookieFresh, ReplyFresh, Accepted, ReuseNeedsLoss, KnownSids,
       storeVars, Unseen, opVars, ReplyNotLeft, SignedOutStaysOut, Versions
<1>2. LeftDead'
    BY <1>0, Numbers DEF LeftDead, RevokedElsewhere
<1>3. QED
    BY <1>1, <1>2 DEF Inv

LEMMA ServerMismatchInv ==
    ASSUME Types, Inv, NEW t \in Tabs, ServerMismatch(t),
           UNCHANGED <<cookie, inbox, storeVars, opVars, lost, left>>,
           UNCHANGED webLocks
    PROVE  Inv'
<1>0. LockHeld /\ Fresh /\ ReuseNeedsLoss /\ KnownSids /\ Unseen
      /\ LeftDead /\ ReplyNotLeft /\ SignedOutStaysOut /\ Versions
    BY DEF Inv
<1>1. ReuseNeedsLoss' /\ LeftDead' /\ SignedOutStaysOut'
    BY <1>0 DEF ReuseNeedsLoss, ServerMismatch, serverVars, LeftDead,
       SignedOutStaysOut, storeVars
<1>2. LockHeld'
    BY <1>0, AnswerLock DEF ServerMismatch
<1>3. Fresh'
    BY <1>0, AnswerFresh, Numbers DEF ServerMismatch, CookieMatches,
       serverVars
<1>4. KnownSids'
    BY <1>0, Numbers DEF Types, RefreshTypes, KnownSids, ServerMismatch,
       Answer, serverVars, storeVars
<1>5. Unseen'
    BY <1>0, Numbers DEF Types, RefreshTypes, Unseen, ServerMismatch, Answer,
       serverVars, storeVars, opVars
<1>6. ReplyNotLeft'
    BY <1>0, Numbers DEF Types, RefreshTypes, ReplyNotLeft, Accepted,
       InFlight, ServerMismatch, Answer
<1>7. Versions'
    BY <1>0, Numbers DEF Types, RefreshTypes, Versions, Accepted, InFlight,
       ServerMismatch, Answer, serverVars, storeVars, opVars
<1>8. QED
    BY <1>1, <1>2, <1>3, <1>4, <1>5, <1>6, <1>7 DEF Inv

LEMMA ServerRotateInv ==
    ASSUME Types, Inv, NEW t \in Tabs, ServerRotate(t),
           UNCHANGED <<cookie, inbox, storeVars, opVars, lost, left>>,
           UNCHANGED webLocks
    PROVE  Inv'
<1>0. LockHeld /\ Fresh /\ ReuseNeedsLoss /\ KnownSids /\ Unseen
      /\ LeftDead /\ ReplyNotLeft /\ SignedOutStaysOut /\ Versions
    BY DEF Inv
<1>1. ReuseNeedsLoss' /\ LeftDead' /\ SignedOutStaysOut'
    BY <1>0 DEF ReuseNeedsLoss, ServerRotate, LeftDead, SignedOutStaysOut,
       storeVars
<1>2. LockHeld'
    BY <1>0, AnswerLock DEF ServerRotate, CookieMatches
<1>3. Fresh'
    <2>1. cookie.sid \in Sids
        BY CookieType DEF ServerRotate, CookieMatches, Types, BrowserTypes
    <2>2. /\ gen'[cookie.sid] = gen[cookie.sid] + 1
          /\ \A s \in Sids : s # cookie.sid => gen'[s] = gen[s]
        BY <2>1 DEF ServerRotate, Types, ServerTypes
    <2>3. RefreshSent(t)
        BY DEF ServerRotate, CookieMatches
    <2>4. QED
        BY <1>0, <2>2, <2>3, AnswerFresh DEF ServerRotate
<1>4. KnownSids'
    BY <1>0, Numbers DEF Types, RefreshTypes, KnownSids, ServerRotate, Answer,
       storeVars
<1>5. Unseen'
    BY <1>0, Numbers DEF Types, RefreshTypes, Unseen, ServerRotate, Answer,
       storeVars, opVars
<1>6. ReplyNotLeft'
    <2>1. \A u \in Tabs : cookie.sid \notin left[u]
        BY <1>0 DEF ServerRotate, LeftDead
    <2>2. QED
        BY <1>0, <2>1 DEF Types, RefreshTypes, ReplyNotLeft, Accepted,
           InFlight, ServerRotate, Answer
<1>7. Versions'
    BY <1>0, Numbers DEF Types, RefreshTypes, Versions, Accepted, InFlight,
       ServerRotate, Answer, storeVars, opVars
<1>8. QED
    BY <1>1, <1>2, <1>3, <1>4, <1>5, <1>6, <1>7 DEF Inv

LEMMA ServerReplayInv ==
    ASSUME Types, Inv, NEW t \in Tabs, ServerReplay(t),
           UNCHANGED <<cookie, inbox, storeVars, opVars, lost, left>>,
           UNCHANGED webLocks
    PROVE  Inv'
<1>0. LockHeld /\ Fresh /\ ReuseNeedsLoss /\ KnownSids /\ Unseen
      /\ LeftDead /\ ReplyNotLeft /\ SignedOutStaysOut /\ Versions
    BY DEF Inv
<1>1. ReuseNeedsLoss' /\ LeftDead' /\ SignedOutStaysOut'
    BY <1>0 DEF ReuseNeedsLoss, ServerReplay, serverVars, LeftDead,
       SignedOutStaysOut, storeVars
<1>2. LockHeld'
    BY <1>0, AnswerLock DEF ServerReplay, CookieMatches
<1>3. Fresh'
    <2>1. webLocks => cookie.sid \in lost
        BY <1>0, StaleMeansLost DEF ServerReplay
    <2>2. RefreshSent(t)
        BY DEF ServerReplay, CookieMatches
    <2>3. gen' = gen
        BY DEF ServerReplay, serverVars
    <2>4. QED
        BY <1>0, <2>1, <2>2, <2>3, AnswerFresh DEF ServerReplay
<1>4. KnownSids'
    BY <1>0, Numbers DEF Types, RefreshTypes, KnownSids, ServerReplay, Answer,
       serverVars, storeVars
<1>5. Unseen'
    BY <1>0, Numbers DEF Types, RefreshTypes, Unseen, ServerReplay, Answer,
       serverVars, storeVars, opVars
<1>6. ReplyNotLeft'
    <2>1. \A u \in Tabs : cookie.sid \notin left[u]
        BY <1>0 DEF ServerReplay, LeftDead
    <2>2. QED
        BY <1>0, <2>1 DEF Types, RefreshTypes, ReplyNotLeft, Accepted,
           InFlight, ServerReplay, Answer
<1>7. Versions'
    BY <1>0, Numbers DEF Types, RefreshTypes, Versions, Accepted, InFlight,
       ServerReplay, Answer, serverVars, storeVars, opVars
<1>8. QED
    BY <1>1, <1>2, <1>3, <1>4, <1>5, <1>6, <1>7 DEF Inv

LEMMA ServerReuseInv ==
    ASSUME Types, Inv, NEW t \in Tabs, ServerReuse(t),
           UNCHANGED <<cookie, inbox, storeVars, opVars, lost, left>>,
           UNCHANGED webLocks
    PROVE  Inv'
<1>0. LockHeld /\ Fresh /\ ReuseNeedsLoss /\ KnownSids /\ Unseen
      /\ LeftDead /\ ReplyNotLeft /\ SignedOutStaysOut /\ Versions
    BY DEF Inv
<1>1. SignedOutStaysOut'
    BY <1>0 DEF SignedOutStaysOut, storeVars
<1>2. LockHeld'
    BY <1>0, AnswerLock DEF ServerReuse, CookieMatches
<1>3. Fresh'
    BY <1>0, AnswerFresh, Numbers DEF ServerReuse, CookieMatches
<1>4. ReuseNeedsLoss'
    BY <1>0, StaleMeansLost DEF ServerReuse, ReuseNeedsLoss
<1>5. KnownSids'
    BY <1>0, Numbers DEF Types, RefreshTypes, KnownSids, ServerReuse, Answer,
       storeVars
<1>6. Unseen'
    BY <1>0, Numbers DEF Types, RefreshTypes, Unseen, ServerReuse, Answer,
       storeVars, opVars
<1>7. LeftDead'
    BY <1>0, Numbers DEF LeftDead, ServerReuse
<1>8. ReplyNotLeft'
    BY <1>0, Numbers DEF Types, RefreshTypes, ReplyNotLeft, Accepted,
       InFlight, ServerReuse, Answer
<1>9. Versions'
    BY <1>0, Numbers DEF Types, RefreshTypes, Versions, Accepted, InFlight,
       ServerReuse, Answer, storeVars, opVars
<1>10. QED
    BY <1>1, <1>2, <1>3, <1>4, <1>5, <1>6, <1>7, <1>8, <1>9 DEF Inv

LEMMA ServerRejectInv ==
    ASSUME Types, Inv, NEW t \in Tabs, ServerReject(t),
           UNCHANGED <<cookie, inbox, storeVars, opVars, lost, left>>,
           UNCHANGED webLocks
    PROVE  Inv'
<1>0. LockHeld /\ Fresh /\ ReuseNeedsLoss /\ KnownSids /\ Unseen
      /\ LeftDead /\ ReplyNotLeft /\ SignedOutStaysOut /\ Versions
    BY DEF Inv
<1>1. ReuseNeedsLoss' /\ LeftDead' /\ SignedOutStaysOut'
    BY <1>0 DEF ReuseNeedsLoss, ServerReject, serverVars, LeftDead,
       SignedOutStaysOut, storeVars
<1>2. LockHeld'
    BY <1>0, AnswerLock DEF ServerReject, CookieMatches
<1>3. Fresh'
    BY <1>0, AnswerFresh, Numbers DEF ServerReject, CookieMatches, serverVars
<1>4. KnownSids'
    BY <1>0, Numbers DEF Types, RefreshTypes, KnownSids, ServerReject, Answer,
       serverVars, storeVars
<1>5. Unseen'
    BY <1>0, Numbers DEF Types, RefreshTypes, Unseen, ServerReject, Answer,
       serverVars, storeVars, opVars
<1>6. ReplyNotLeft'
    BY <1>0, Numbers DEF Types, RefreshTypes, ReplyNotLeft, Accepted,
       InFlight, ServerReject, Answer
<1>7. Versions'
    BY <1>0, Numbers DEF Types, RefreshTypes, Versions, Accepted, InFlight,
       ServerReject, Answer, serverVars, storeVars, opVars
<1>8. QED
    BY <1>1, <1>2, <1>3, <1>4, <1>5, <1>6, <1>7 DEF Inv

LEMMA RefreshSupersededInv ==
    ASSUME Types, Inv, NEW t \in Tabs, RefreshSuperseded(t),
           UNCHANGED webLocks
    PROVE  Inv'
<1>0. LockHeld /\ Fresh /\ ReuseNeedsLoss /\ KnownSids /\ Unseen
      /\ LeftDead /\ ReplyNotLeft /\ SignedOutStaysOut /\ Versions
    BY DEF Inv
<1>1. ReuseNeedsLoss' /\ LeftDead' /\ SignedOutStaysOut'
    BY <1>0 DEF ReuseNeedsLoss, RefreshSuperseded, serverVars, LeftDead,
       SignedOutStaysOut, storeVars
<1>2. LockHeld'
    BY <1>0, Numbers DEF Types, RefreshTypes, LockHeld, InFlight,
       RefreshSuperseded, EndRefresh, StopRefresh
<1>3. Fresh'
    BY <1>0, Numbers DEF Types, RefreshTypes, Fresh, CookieFresh, ReplyFresh,
       Accepted, InFlight, RefreshSuperseded, EndRefresh, StopRefresh,
       serverVars
<1>4. KnownSids'
    BY <1>0, Numbers DEF Types, RefreshTypes, KnownSids, RefreshSuperseded,
       EndRefresh, StopRefresh, serverVars, storeVars
<1>5. Unseen'
    BY <1>0, Numbers DEF Types, RefreshTypes, Unseen, RefreshSuperseded,
       EndRefresh, StopRefresh, serverVars, storeVars
<1>6. ReplyNotLeft'
    BY <1>0, Numbers DEF Types, RefreshTypes, ReplyNotLeft, Accepted,
       InFlight, RefreshSuperseded, EndRefresh, StopRefresh
<1>7. Versions'
    BY <1>0, Numbers DEF Types, RefreshTypes, Versions, Accepted, InFlight,
       RefreshSuperseded, EndRefresh, StopRefresh, serverVars, storeVars
<1>8. QED
    BY <1>1, <1>2, <1>3, <1>4, <1>5, <1>6, <1>7 DEF Inv

LEMMA ReplySupersededInv ==
    ASSUME Types, Inv, NEW t \in Tabs, ReplySuperseded(t),
           refresh[t] = "flight", cookie' = CookieAfter(reply[t]),
           UNCHANGED <<serverVars, lost>>,
           UNCHANGED webLocks
    PROVE  Inv'
<1>0. LockHeld /\ Fresh /\ ReuseNeedsLoss /\ KnownSids /\ Unseen
      /\ LeftDead /\ ReplyNotLeft /\ SignedOutStaysOut /\ Versions
    BY DEF Inv
<1>1. ReuseNeedsLoss' /\ LeftDead' /\ SignedOutStaysOut'
    BY <1>0 DEF ReuseNeedsLoss, serverVars, LeftDead, ReplySuperseded,
       SignedOutStaysOut, storeVars
<1>2. LockHeld'
    BY <1>0, Numbers DEF Types, RefreshTypes, LockHeld, InFlight,
       ReplySuperseded, EndRefresh, StopRefresh
<1>3. Fresh'
    BY <1>0, SettlesFresh DEF ReplySuperseded, EndRefresh, StopRefresh,
       serverVars, InFlight
<1>4. KnownSids'
    <2>1. cookie' \in {cookie, OpCookie(t), CookieAfter(reply[t])}
        BY DEF ReplySuperseded
    <2>2. cookie'.sid \in {cookie.sid, 0, reply[t].cookie.sid}
        BY <2>1, CookieSources, Numbers DEF CookieAfter
    <2>3. QED
        BY <1>0, <2>2, Numbers DEF Types, RefreshTypes, KnownSids,
           ReplySuperseded, EndRefresh, StopRefresh, storeVars, serverVars,
           Unseen
<1>5. Unseen'
    <2>1. cookie' \in {cookie, OpCookie(t), CookieAfter(reply[t])}
        BY DEF ReplySuperseded
    <2>2. cookie'.sid \in {cookie.sid, 0, reply[t].cookie.sid}
        BY <2>1, CookieSources, Numbers DEF CookieAfter
    <2>3. QED
        BY <1>0, <2>2, Numbers DEF Types, RefreshTypes, Unseen,
           ReplySuperseded, EndRefresh, StopRefresh, storeVars, serverVars
<1>6. ReplyNotLeft'
    BY <1>0, Numbers DEF Types, RefreshTypes, ReplyNotLeft, Accepted,
       InFlight, ReplySuperseded, EndRefresh, StopRefresh
<1>7. Versions'
    BY <1>0, Numbers DEF Types, RefreshTypes, Versions, Accepted, InFlight,
       ReplySuperseded, EndRefresh, StopRefresh, storeVars, serverVars
<1>8. QED
    BY <1>1, <1>2, <1>3, <1>4, <1>5, <1>6, <1>7 DEF Inv

LEMMA ReplyOkInv ==
    ASSUME Types, Inv, NEW t \in Tabs, ReplyOk(t), refresh[t] = "flight",
           cookie' = CookieAfter(reply[t]), UNCHANGED <<serverVars, lost>>,
           UNCHANGED webLocks
    PROVE  Inv'
<1>0. LockHeld /\ Fresh /\ ReuseNeedsLoss /\ KnownSids /\ Unseen
      /\ LeftDead /\ ReplyNotLeft /\ SignedOutStaysOut /\ Versions
    BY DEF Inv
<1>1. ReuseNeedsLoss' /\ LeftDead'
    BY <1>0 DEF ReuseNeedsLoss, serverVars, LeftDead, ReplyOk
<1>2. LockHeld'
    BY <1>0, Numbers DEF Types, RefreshTypes, LockHeld, InFlight, ReplyOk,
       EndRefresh, StopRefresh
<1>3. Fresh'
    BY <1>0, SettlesFresh DEF ReplyOk, EndRefresh, StopRefresh, serverVars,
       InFlight
<1>4. KnownSids'
    <2>1. cookie' \in {cookie, OpCookie(t), CookieAfter(reply[t])}
        BY DEF ReplyOk
    <2>2. cookie'.sid \in {cookie.sid, 0, reply[t].cookie.sid}
        BY <2>1, CookieSources, Numbers DEF CookieAfter
    <2>3. QED
        BY <1>0, <2>2, Numbers DEF Types, RefreshTypes, StoreTypes, KnownSids,
           ReplyOk, SetBundle, EndRefresh, StopRefresh, serverVars, Unseen
<1>5. Unseen'
    <2>1. cookie' \in {cookie, OpCookie(t), CookieAfter(reply[t])}
        BY DEF ReplyOk
    <2>2. cookie'.sid \in {cookie.sid, 0, reply[t].cookie.sid}
        BY <2>1, CookieSources, Numbers DEF CookieAfter
    <2>3. QED
        BY <1>0, <2>2, Numbers DEF Types, RefreshTypes, StoreTypes, Unseen,
           ReplyOk, SetBundle, EndRefresh, StopRefresh, serverVars
<1>6. ReplyNotLeft'
    BY <1>0, Numbers DEF Types, RefreshTypes, ReplyNotLeft, Accepted,
       InFlight, ReplyOk, EndRefresh, StopRefresh
<1>7. SignedOutStaysOut'
    BY <1>0 DEF Types, StoreTypes, SignedOutStaysOut, ReplyOk, SetBundle,
       ReplyNotLeft, Accepted, InFlight
<1>8. Versions'
    BY <1>0, Numbers DEF Types, RefreshTypes, StoreTypes, Versions, Accepted,
       InFlight, ReplyOk, SetBundle, EndRefresh, StopRefresh, serverVars
<1>9. QED
    BY <1>1, <1>2, <1>3, <1>4, <1>5, <1>6, <1>7, <1>8 DEF Inv

LEMMA ReplyMismatchInv ==
    ASSUME Types, Inv, NEW t \in Tabs, ReplyMismatch(t), refresh[t] = "flight",
           cookie' = CookieAfter(reply[t]), UNCHANGED <<serverVars, lost>>,
           UNCHANGED webLocks
    PROVE  Inv'
<1>0. LockHeld /\ Fresh /\ ReuseNeedsLoss /\ KnownSids /\ Unseen
      /\ LeftDead /\ ReplyNotLeft /\ SignedOutStaysOut /\ Versions
    BY DEF Inv
<1>1. ReuseNeedsLoss' /\ LeftDead'
    BY <1>0 DEF ReuseNeedsLoss, serverVars, LeftDead, ReplyMismatch
<1>2. LockHeld'
    BY <1>0, Numbers DEF Types, RefreshTypes, LockHeld, InFlight,
       ReplyMismatch
<1>3. Fresh'
    BY <1>0, SettlesFresh DEF ReplyMismatch, serverVars, InFlight
<1>4. KnownSids'
    <2>1. cookie' \in {cookie, OpCookie(t), CookieAfter(reply[t])}
        BY DEF ReplyMismatch
    <2>2. cookie'.sid \in {cookie.sid, 0, reply[t].cookie.sid}
        BY <2>1, CookieSources, Numbers DEF CookieAfter
    <2>3. QED
        BY <1>0, <2>2, Numbers DEF Types, RefreshTypes, StoreTypes, KnownSids,
           ReplyMismatch, Reset, serverVars, Unseen
<1>5. Unseen'
    <2>1. cookie' \in {cookie, OpCookie(t), CookieAfter(reply[t])}
        BY DEF ReplyMismatch
    <2>2. cookie'.sid \in {cookie.sid, 0, reply[t].cookie.sid}
        BY <2>1, CookieSources, Numbers DEF CookieAfter
    <2>3. QED
        BY <1>0, <2>2, Numbers DEF Types, RefreshTypes, StoreTypes, Unseen,
           ReplyMismatch, Reset, opVars, serverVars
<1>6. ReplyNotLeft'
    BY <1>0, Numbers DEF Types, RefreshTypes, ReplyNotLeft, Accepted,
       InFlight, ReplyMismatch
<1>7. SignedOutStaysOut'
    BY <1>0, Numbers DEF Types, StoreTypes, SignedOutStaysOut, ReplyMismatch,
       Reset
<1>8. Versions'
    BY <1>0, Numbers DEF Types, RefreshTypes, StoreTypes, Versions, Accepted,
       InFlight, ReplyMismatch, Reset, opVars, serverVars
<1>9. QED
    BY <1>1, <1>2, <1>3, <1>4, <1>5, <1>6, <1>7, <1>8 DEF Inv

LEMMA ReplyUnauthorizedInv ==
    ASSUME Types, Inv, NEW t \in Tabs, ReplyUnauthorized(t),
           refresh[t] = "flight", cookie' = CookieAfter(reply[t]),
           UNCHANGED <<serverVars, lost>>,
           UNCHANGED webLocks
    PROVE  Inv'
<1>0. LockHeld /\ Fresh /\ ReuseNeedsLoss /\ KnownSids /\ Unseen
      /\ LeftDead /\ ReplyNotLeft /\ SignedOutStaysOut /\ Versions
    BY DEF Inv
<1>1. ReuseNeedsLoss'
    BY <1>0 DEF ReuseNeedsLoss, serverVars
<1>2. LockHeld'
    BY <1>0, Numbers DEF Types, RefreshTypes, LockHeld, InFlight,
       ReplyUnauthorized, EndRefresh, StopRefresh
<1>3. Fresh'
    BY <1>0, SettlesFresh DEF ReplyUnauthorized, EndRefresh, StopRefresh,
       serverVars, InFlight
<1>4. KnownSids'
    <2>1. cookie' \in {cookie, OpCookie(t), CookieAfter(reply[t])}
        BY DEF ReplyUnauthorized
    <2>2. cookie'.sid \in {cookie.sid, 0, reply[t].cookie.sid}
        BY <2>1, CookieSources, Numbers DEF CookieAfter
    <2>3. QED
        BY <1>0, <2>2, Numbers DEF Types, HistoryTypes, RefreshTypes,
           StoreTypes, KnownSids, ReplyUnauthorized, Reset, SignsOut,
           EndRefresh, StopRefresh, serverVars, Unseen
<1>5. Unseen'
    <2>1. cookie' \in {cookie, OpCookie(t), CookieAfter(reply[t])}
        BY DEF ReplyUnauthorized
    <2>2. cookie'.sid \in {cookie.sid, 0, reply[t].cookie.sid}
        BY <2>1, CookieSources, Numbers DEF CookieAfter
    <2>3. QED
        BY <1>0, <2>2, Numbers DEF Types, HistoryTypes, RefreshTypes,
           StoreTypes, Unseen, ReplyUnauthorized, Reset, SignsOut, EndRefresh,
           StopRefresh, serverVars
<1>6. LeftDead'
    BY <1>0, Numbers DEF Types, HistoryTypes, LeftDead, ReplyUnauthorized,
       SignsOut, serverVars
<1>7. ReplyNotLeft'
    BY <1>0, Numbers DEF Types, HistoryTypes, RefreshTypes, ReplyNotLeft,
       Accepted, InFlight, ReplyUnauthorized, SignsOut, EndRefresh,
       StopRefresh
<1>8. SignedOutStaysOut'
    BY <1>0, Numbers DEF Types, HistoryTypes, StoreTypes, SignedOutStaysOut,
       ReplyUnauthorized, Reset, SignsOut
<1>9. Versions'
    BY <1>0, Numbers DEF Types, RefreshTypes, StoreTypes, Versions, Accepted,
       InFlight, ReplyUnauthorized, Reset, EndRefresh, StopRefresh, serverVars
<1>10. QED
    BY <1>1, <1>2, <1>3, <1>4, <1>5, <1>6, <1>7, <1>8, <1>9 DEF Inv

LEMMA RefreshFailsInv ==
    ASSUME Types, Inv, NEW t \in Tabs, RefreshFails(t),
           UNCHANGED webLocks
    PROVE  Inv'
<1>0. LockHeld /\ Fresh /\ ReuseNeedsLoss /\ KnownSids /\ Unseen
      /\ LeftDead /\ ReplyNotLeft /\ SignedOutStaysOut /\ Versions
    BY DEF Inv
<1>1. LeftDead' /\ SignedOutStaysOut'
    BY <1>0 DEF LeftDead, RefreshFails, serverVars, SignedOutStaysOut
<1>2. LockHeld'
    BY <1>0, Numbers DEF Types, RefreshTypes, LockHeld, InFlight,
       RefreshFails, EndRefresh, StopRefresh
<1>3. Fresh'
    BY <1>0, SettlesFresh DEF RefreshFails, EndRefresh, StopRefresh,
       serverVars
<1>4. ReuseNeedsLoss'
    BY <1>0 DEF ReuseNeedsLoss, RefreshFails, LostRotation, serverVars
<1>5. KnownSids'
    BY <1>0, Numbers DEF Types, RefreshTypes, KnownSids, RefreshFails,
       EndRefresh, StopRefresh, serverVars
<1>6. Unseen'
    BY <1>0, Numbers DEF Types, RefreshTypes, Unseen, RefreshFails,
       EndRefresh, StopRefresh, serverVars
<1>7. ReplyNotLeft'
    BY <1>0, Numbers DEF Types, RefreshTypes, ReplyNotLeft, Accepted,
       InFlight, RefreshFails, EndRefresh, StopRefresh
<1>8. Versions'
    BY <1>0, Numbers DEF Types, RefreshTypes, Versions, Accepted, InFlight,
       RefreshFails, EndRefresh, StopRefresh, serverVars
<1>9. QED
    BY <1>1, <1>2, <1>3, <1>4, <1>5, <1>6, <1>7, <1>8 DEF Inv

LEMMA CallResumesInv ==
    ASSUME Types, Inv, NEW t \in Tabs, CallResumes(t),
           UNCHANGED webLocks
    PROVE  Inv'
<1>1. CASE LoadPage(t)
    BY <1>1, LoadPageInv DEF CallResumes
<1>2. CASE ~(LoadPage(t))
    <2>0. LockHeld /\ Fresh /\ ReuseNeedsLoss /\ KnownSids /\ Unseen
          /\ LeftDead /\ ReplyNotLeft /\ SignedOutStaysOut /\ Versions
        BY <1>2 DEF Inv
    <2>1. LockHeld' /\ Fresh' /\ ReuseNeedsLoss' /\ KnownSids' /\ LeftDead'
             /\ ReplyNotLeft' /\ SignedOutStaysOut'
        BY <1>2, <2>0 DEF LockHeld, InFlight, CallResumes, RedirectToSignIn,
           refreshVars, Fresh, CookieFresh, ReplyFresh, Accepted, serverVars,
           ReuseNeedsLoss, KnownSids, storeVars, LeftDead, ReplyNotLeft,
           SignedOutStaysOut
    <2>2. Unseen'
        BY <1>2, <2>0, Numbers DEF Types, OpTypes, Unseen, CallResumes,
           RedirectToSignIn, EndOp, StartOp, serverVars, storeVars, refreshVars
    <2>3. Versions'
        BY <1>2, <2>0, Numbers DEF Types, OpTypes, Versions, Accepted, InFlight,
           CallResumes, RedirectToSignIn, EndOp, StartOp, serverVars, storeVars,
           refreshVars
    <2>4. QED
        BY <1>2, <2>1, <2>2, <2>3 DEF Inv
<1>3. QED
    BY <1>1, <1>2

LEMMA CallAgainRefusedInv ==
    ASSUME Types, Inv, NEW t \in Tabs, CallAgainRefused(t),
           UNCHANGED webLocks
    PROVE  Inv'
<1>1. CASE LoadPage(t)
    BY <1>1, LoadPageInv DEF CallAgainRefused, ClearAuthentication
<1>2. CASE ~LoadPage(t)
    BY <1>2, ClearAuthenticationInv DEF CallAgainRefused
<1>3. QED
    BY <1>1, <1>2

LEMMA LoginReplyInv ==
    ASSUME Types, Inv, NEW t \in Tabs, LoginReply(t),
           UNCHANGED webLocks
    PROVE  Inv'
<1>0. LockHeld /\ Fresh /\ ReuseNeedsLoss /\ KnownSids /\ Unseen
      /\ LeftDead /\ ReplyNotLeft /\ SignedOutStaysOut /\ Versions
    BY DEF Inv
<1>1. LockHeld' /\ ReuseNeedsLoss' /\ LeftDead'
    BY <1>0 DEF LockHeld, InFlight, LoginReply, ReuseNeedsLoss, serverVars,
       LeftDead
<1>2. Fresh'
    BY <1>0, OpCookieFresh DEF LoginReply, serverVars
<1>3. KnownSids'
    <2>1. cookie' \in {cookie, OpCookie(t), CookieAfter(reply[t])}
        BY DEF LoginReply
    <2>2. \/ cookie'.sid \in {cookie.sid, 0, reply[t].cookie.sid}
          \/ op[t] = "login" /\ cookie'.sid = opSid[t]
        BY <2>1, CookieSources, Numbers
    <2>3. QED
        BY <1>0, <2>2, Numbers DEF Types, StoreTypes, KnownSids, LoginReply,
           ApplyAuthBundle, SetBundle, serverVars, Unseen
<1>4. Unseen'
    <2>1. cookie' \in {cookie, OpCookie(t), CookieAfter(reply[t])}
        BY DEF LoginReply
    <2>2. \/ cookie'.sid \in {cookie.sid, 0, reply[t].cookie.sid}
          \/ op[t] = "login" /\ cookie'.sid = opSid[t]
        BY <2>1, CookieSources, Numbers
    <2>3. QED
        BY <1>0, <2>2, Numbers DEF Types, OpTypes, StoreTypes, Unseen,
           LoginReply, ApplyAuthBundle, SetBundle, EndOp, serverVars
<1>5. ReplyNotLeft'
    BY <1>0, Numbers DEF Types, RefreshTypes, ReplyNotLeft, Accepted,
       InFlight, LoginReply, ApplyAuthBundle, BumpEpoch
<1>6. SignedOutStaysOut'
    BY <1>0 DEF Types, StoreTypes, SignedOutStaysOut, LoginReply,
       ApplyAuthBundle, SetBundle, Unseen
<1>7. Versions'
    BY <1>0, Numbers DEF Types, OpTypes, RefreshTypes, StoreTypes, Versions,
       Accepted, InFlight, LoginReply, ApplyAuthBundle, BumpEpoch, SetBundle,
       EndOp, serverVars
<1>8. QED
    BY <1>1, <1>2, <1>3, <1>4, <1>5, <1>6, <1>7 DEF Inv

LEMMA LogoutReplyInv ==
    ASSUME Types, Inv, NEW t \in Tabs, LogoutReply(t),
           UNCHANGED webLocks
    PROVE  Inv'
BY ClearAuthenticationInv DEF LogoutReply

LEMMA LogoutConfirmedInv ==
    ASSUME Types, Inv, NEW t \in Tabs, LogoutConfirmed(t),
           UNCHANGED webLocks
    PROVE  Inv'
BY ClearAuthenticationInv DEF LogoutConfirmed

LEMMA LogoutRecoveredInv ==
    ASSUME Types, Inv, NEW t \in Tabs, LogoutRecovered(t),
           UNCHANGED webLocks
    PROVE  Inv'
<1>0. LockHeld /\ Fresh /\ ReuseNeedsLoss /\ KnownSids /\ Unseen
      /\ LeftDead /\ ReplyNotLeft /\ SignedOutStaysOut /\ Versions
    BY DEF Inv
<1>1. LockHeld' /\ Fresh' /\ ReuseNeedsLoss' /\ KnownSids' /\
         ReplyNotLeft' /\ SignedOutStaysOut'
    BY <1>0 DEF LockHeld, InFlight, LogoutRecovered, LogoutAccepted,
       refreshVars, Fresh, CookieFresh, ReplyFresh, Accepted, serverVars,
       ReuseNeedsLoss, KnownSids, storeVars, ReplyNotLeft, SignedOutStaysOut
<1>2. Unseen'
    BY <1>0, Numbers DEF Types, OpTypes, Unseen, LogoutRecovered,
       LogoutAccepted, refreshVars, EndOp, serverVars, storeVars
<1>3. LeftDead'
    BY <1>0, Numbers DEF LeftDead, LogoutRecovered, LogoutAccepted, serverVars
<1>4. Versions'
    BY <1>0, Numbers DEF Types, OpTypes, Versions, Accepted, InFlight,
       LogoutRecovered, LogoutAccepted, refreshVars, EndOp, serverVars,
       storeVars
<1>5. QED
    BY <1>1, <1>2, <1>3, <1>4 DEF Inv

LEMMA LogoutGivesUpInv ==
    ASSUME Types, Inv, NEW t \in Tabs, LogoutGivesUp(t),
           UNCHANGED webLocks
    PROVE  Inv'
<1>0. LockHeld /\ Fresh /\ ReuseNeedsLoss /\ KnownSids /\ Unseen
      /\ LeftDead /\ ReplyNotLeft /\ SignedOutStaysOut /\ Versions
    BY DEF Inv
<1>1. LockHeld' /\ Fresh' /\ ReuseNeedsLoss' /\ KnownSids' /\ LeftDead'
         /\ ReplyNotLeft' /\ SignedOutStaysOut'
    BY <1>0 DEF LockHeld, InFlight, LogoutGivesUp, refreshVars, Fresh,
       CookieFresh, ReplyFresh, Accepted, serverVars, ReuseNeedsLoss,
       KnownSids, storeVars, LeftDead, ReplyNotLeft, SignedOutStaysOut
<1>2. Unseen'
    BY <1>0, Numbers DEF Types, OpTypes, Unseen, LogoutGivesUp, EndOp,
       serverVars, storeVars, refreshVars
<1>3. Versions'
    BY <1>0, Numbers DEF Types, OpTypes, Versions, Accepted, InFlight,
       LogoutGivesUp, EndOp, serverVars, storeVars, refreshVars
<1>4. QED
    BY <1>1, <1>2, <1>3 DEF Inv

LEMMA RevokeReplyInv ==
    ASSUME Types, Inv, NEW t \in Tabs, RevokeReply(t),
           UNCHANGED webLocks
    PROVE  Inv'
<1>1. CASE session[t] = opSid[t]
    BY <1>1, ClearAuthenticationInv DEF RevokeReply
<1>2. CASE ~(session[t] = opSid[t])
    <2>0. LockHeld /\ Fresh /\ ReuseNeedsLoss /\ KnownSids /\ Unseen
          /\ LeftDead /\ ReplyNotLeft /\ SignedOutStaysOut /\ Versions
        BY <1>2 DEF Inv
    <2>1. LockHeld' /\ ReuseNeedsLoss' /\ LeftDead' /\ ReplyNotLeft' /\
             SignedOutStaysOut'
        BY <1>2, <2>0 DEF LockHeld, InFlight, RevokeReply, ReuseNeedsLoss,
           serverVars,
           LeftDead, ReplyNotLeft, Accepted, SignedOutStaysOut, storeVars
    <2>2. Fresh'
        BY <1>2, <2>0, OpCookieFresh DEF RevokeReply, serverVars
    <2>3. KnownSids'
        <3>1. cookie' = cookie \/ cookie' = NoCookie
            BY <1>2, OpCookieSources DEF RevokeReply
        <3>2. QED
            BY <1>2, <2>0, <3>1, Numbers DEF KnownSids, RevokeReply,
               serverVars, storeVars
    <2>4. Unseen'
        <3>1. cookie' = cookie \/ cookie' = NoCookie
            BY <1>2, OpCookieSources DEF RevokeReply
        <3>2. QED
            BY <1>2, <2>0, <3>1, Numbers DEF Types, OpTypes, Unseen,
               RevokeReply, serverVars, storeVars, EndOp
    <2>5. Versions'
        BY <1>2, <2>0, Numbers DEF Types, OpTypes, Versions, Accepted, InFlight,
           RevokeReply, EndOp, serverVars, storeVars
    <2>6. QED
        BY <1>2, <2>1, <2>2, <2>3, <2>4, <2>5 DEF Inv
<1>3. QED
    BY <1>1, <1>2

LEMMA SecurityReplyInv ==
    ASSUME Types, Inv, NEW t \in Tabs, SecurityReply(t),
           UNCHANGED webLocks
    PROVE  Inv'
<1>0. LockHeld /\ Fresh /\ ReuseNeedsLoss /\ KnownSids /\ Unseen
      /\ LeftDead /\ ReplyNotLeft /\ SignedOutStaysOut /\ Versions
    BY DEF Inv
<1>1. LockHeld' /\ Fresh' /\ ReuseNeedsLoss' /\ LeftDead'
    BY <1>0 DEF LockHeld, InFlight, SecurityReply, Fresh, CookieFresh,
       ReplyFresh, Accepted, serverVars, ReuseNeedsLoss, LeftDead
<1>2. KnownSids'
    BY <1>0, Numbers DEF Types, StoreTypes, KnownSids, SecurityReply,
       ApplyAuthBundle, SetBundle, storeVars, serverVars
<1>3. Unseen'
    BY <1>0, Numbers DEF Types, OpTypes, StoreTypes, Unseen, SecurityReply,
       ApplyAuthBundle, SetBundle, storeVars, EndOp, serverVars
<1>4. ReplyNotLeft'
    BY <1>0, Numbers DEF Types, RefreshTypes, ReplyNotLeft, Accepted,
       InFlight, SecurityReply, ApplyAuthBundle, BumpEpoch
<1>5. SignedOutStaysOut'
    BY <1>0, Numbers DEF Types, StoreTypes, SignedOutStaysOut, SecurityReply,
       ApplyAuthBundle, SetBundle, storeVars
<1>6. Versions'
    BY <1>0, Numbers DEF Types, OpTypes, RefreshTypes, StoreTypes, Versions,
       Accepted, InFlight, SecurityReply, ApplyAuthBundle, BumpEpoch,
       SetBundle, storeVars, EndOp, serverVars
<1>7. QED
    BY <1>1, <1>2, <1>3, <1>4, <1>5, <1>6 DEF Inv

LEMMA OpFailsInv ==
    ASSUME Types, Inv, NEW t \in Tabs, OpFails(t),
           UNCHANGED webLocks
    PROVE  Inv'
<1>0. LockHeld /\ Fresh /\ ReuseNeedsLoss /\ KnownSids /\ Unseen
      /\ LeftDead /\ ReplyNotLeft /\ SignedOutStaysOut /\ Versions
    BY DEF Inv
<1>1. LockHeld' /\ Fresh' /\ ReuseNeedsLoss' /\ KnownSids' /\ LeftDead'
         /\ ReplyNotLeft' /\ SignedOutStaysOut'
    BY <1>0 DEF LockHeld, InFlight, OpFails, refreshVars, Fresh, CookieFresh,
       ReplyFresh, Accepted, serverVars, ReuseNeedsLoss, KnownSids, storeVars,
       LeftDead, ReplyNotLeft, SignedOutStaysOut
<1>2. Unseen'
    BY <1>0, Numbers DEF Types, OpTypes, Unseen, OpFails, EndOp, serverVars,
       storeVars, refreshVars
<1>3. Versions'
    BY <1>0, Numbers DEF Types, OpTypes, Versions, Accepted, InFlight,
       OpFails, EndOp, serverVars, storeVars, refreshVars
<1>4. QED
    BY <1>1, <1>2, <1>3 DEF Inv

LEMMA NavigateInv ==
    ASSUME Types, Inv, NEW t \in Tabs, Navigate(t),
           UNCHANGED webLocks
    PROVE  Inv'
<1>0. LockHeld /\ Fresh /\ ReuseNeedsLoss /\ KnownSids /\ Unseen
      /\ LeftDead /\ ReplyNotLeft /\ SignedOutStaysOut /\ Versions
    BY DEF Inv
<1>1. ReuseNeedsLoss' /\ KnownSids' /\ Unseen' /\ LeftDead' /\
         SignedOutStaysOut'
    BY <1>0 DEF ReuseNeedsLoss, Navigate, serverVars, KnownSids, refreshVars,
       RefreshAuthentication, Unseen, opVars, LeftDead, SignedOutStaysOut
<1>2. LockHeld'
    BY <1>0, Numbers DEF Types, RefreshTypes, LockHeld, InFlight, Navigate,
       refreshVars, RefreshAuthentication
<1>3. Fresh'
    BY <1>0, Numbers DEF Types, RefreshTypes, Fresh, CookieFresh, ReplyFresh,
       Accepted, InFlight, Navigate, refreshVars, RefreshAuthentication,
       serverVars
<1>4. ReplyNotLeft'
    BY <1>0, Numbers DEF Types, RefreshTypes, ReplyNotLeft, Accepted,
       InFlight, Navigate, refreshVars, RefreshAuthentication
<1>5. Versions'
    BY <1>0, Numbers DEF Types, RefreshTypes, Versions, Accepted, InFlight,
       Navigate, refreshVars, RefreshAuthentication, serverVars, opVars
<1>6. QED
    BY <1>1, <1>2, <1>3, <1>4, <1>5 DEF Inv

LEMMA CallInv ==
    ASSUME Types, Inv, NEW t \in Tabs, Call(t),
           UNCHANGED webLocks
    PROVE  Inv'
<1>0. LockHeld /\ Fresh /\ ReuseNeedsLoss /\ KnownSids /\ Unseen
      /\ LeftDead /\ ReplyNotLeft /\ SignedOutStaysOut /\ Versions
    BY DEF Inv
<1>1. ReuseNeedsLoss' /\ KnownSids' /\ LeftDead' /\ SignedOutStaysOut'
    BY <1>0 DEF ReuseNeedsLoss, Call, serverVars, KnownSids,
       RefreshAuthentication, refreshVars, storeVars, LeftDead,
       SignedOutStaysOut
<1>2. LockHeld'
    BY <1>0, Numbers DEF Types, RefreshTypes, LockHeld, InFlight, Call,
       RefreshAuthentication, refreshVars
<1>3. Fresh'
    BY <1>0, Numbers DEF Types, RefreshTypes, Fresh, CookieFresh, ReplyFresh,
       Accepted, InFlight, Call, RefreshAuthentication, refreshVars,
       serverVars
<1>4. Unseen'
    BY <1>0, Numbers DEF Types, OpTypes, Unseen, Call, RefreshAuthentication,
       refreshVars, serverVars, storeVars
<1>5. ReplyNotLeft'
    BY <1>0, Numbers DEF Types, RefreshTypes, ReplyNotLeft, Accepted,
       InFlight, Call, RefreshAuthentication, refreshVars
<1>6. Versions'
    BY <1>0, Numbers DEF Types, RefreshTypes, Versions, Accepted, InFlight,
       Call, RefreshAuthentication, refreshVars, serverVars, storeVars
<1>7. QED
    BY <1>1, <1>2, <1>3, <1>4, <1>5, <1>6 DEF Inv

LEMMA PeerAuthenticatedInv ==
    ASSUME Types, Inv, NEW t \in Tabs, PeerAuthenticated(t),
           UNCHANGED webLocks
    PROVE  Inv'
<1>1. CASE LoadPage(t)
    BY <1>1, LoadPageInv DEF PeerAuthenticated
<1>2. CASE ~(LoadPage(t))
    <2>0. LockHeld /\ Fresh /\ ReuseNeedsLoss /\ KnownSids /\ Unseen
          /\ LeftDead /\ ReplyNotLeft /\ SignedOutStaysOut /\ Versions
        BY <1>2 DEF Inv
    <2>1. LockHeld' /\ Fresh' /\ ReuseNeedsLoss' /\ KnownSids' /\ Unseen' /\
             LeftDead' /\ ReplyNotLeft' /\ SignedOutStaysOut' /\ Versions'
        BY <1>2, <2>0 DEF LockHeld, InFlight, PeerAuthenticated, refreshVars,
           Fresh,
           CookieFresh, ReplyFresh, Accepted, serverVars, ReuseNeedsLoss,
           KnownSids, storeVars, Unseen, opVars, LeftDead, ReplyNotLeft,
           SignedOutStaysOut, Versions
    <2>2. QED
        BY <1>2, <2>1 DEF Inv
<1>3. QED
    BY <1>1, <1>2

LEMMA PeerSignedOutInv ==
    ASSUME Types, Inv, NEW t \in Tabs, PeerSignedOut(t),
           UNCHANGED webLocks
    PROVE  Inv'
<1>0. LockHeld /\ Fresh /\ ReuseNeedsLoss /\ KnownSids /\ Unseen
      /\ LeftDead /\ ReplyNotLeft /\ SignedOutStaysOut /\ Versions
    BY DEF Inv
<1>1. LockHeld' /\ Fresh' /\ ReuseNeedsLoss'
    BY <1>0 DEF LockHeld, InFlight, PeerSignedOut, Fresh, CookieFresh,
       ReplyFresh, Accepted, serverVars, ReuseNeedsLoss
<1>2. KnownSids'
    <2>1. CASE Reset(t, "complete") /\ SignsOut(t)
        BY <1>0, <2>1, Numbers DEF Types, StoreTypes, HistoryTypes, KnownSids,
           Reset, SignsOut,
           PeerSignedOut, serverVars
    <2>2. CASE UNCHANGED <<session, left>>
        BY <1>0, <2>2 DEF KnownSids, PeerSignedOut, serverVars
    <2>3. QED
        BY <2>1, <2>2 DEF PeerSignedOut, storeVars
<1>3. Unseen'
    BY <1>0, Numbers DEF Types, HistoryTypes, StoreTypes, Unseen,
       PeerSignedOut, Reset, SignsOut, storeVars, serverVars, opVars
<1>4. LeftDead'
    BY <1>0, Numbers DEF Types, HistoryTypes, LeftDead, PeerSignedOut,
       SignsOut, serverVars
<1>5. ReplyNotLeft'
    BY <1>0, Numbers DEF Types, HistoryTypes, RefreshTypes, ReplyNotLeft,
       Accepted, InFlight, PeerSignedOut, BumpEpoch, SignsOut
<1>6. SignedOutStaysOut'
    <2>1. CASE Reset(t, "complete") /\ SignsOut(t)
        BY <1>0, <2>1, Numbers DEF Types, StoreTypes, HistoryTypes,
           SignedOutStaysOut, Reset, SignsOut,
           PeerSignedOut, serverVars
    <2>2. CASE UNCHANGED <<session, left>>
        BY <1>0, <2>2 DEF SignedOutStaysOut, PeerSignedOut, serverVars
    <2>3. QED
        BY <2>1, <2>2 DEF PeerSignedOut, storeVars
<1>7. Versions'
    BY <1>0, Numbers DEF Types, RefreshTypes, StoreTypes, Versions, Accepted,
       InFlight, PeerSignedOut, BumpEpoch, Reset, storeVars, serverVars,
       opVars
<1>8. QED
    BY <1>1, <1>2, <1>3, <1>4, <1>5, <1>6, <1>7 DEF Inv

LEMMA PeerEventDroppedInv ==
    ASSUME Types, Inv, NEW t \in Tabs, PeerEventDropped(t),
           UNCHANGED webLocks
    PROVE  Inv'
<1>0. LockHeld /\ Fresh /\ ReuseNeedsLoss /\ KnownSids /\ Unseen
      /\ LeftDead /\ ReplyNotLeft /\ SignedOutStaysOut /\ Versions
    BY DEF Inv
<1>1. LockHeld' /\ Fresh' /\ ReuseNeedsLoss' /\ KnownSids' /\ Unseen' /\
         LeftDead' /\ ReplyNotLeft' /\ SignedOutStaysOut' /\ Versions'
    BY <1>0 DEF LockHeld, InFlight, PeerEventDropped, refreshVars, Fresh,
       CookieFresh, ReplyFresh, Accepted, serverVars, ReuseNeedsLoss,
       KnownSids, storeVars, Unseen, opVars, LeftDead, ReplyNotLeft,
       SignedOutStaysOut, Versions
<1>2. QED
    BY <1>1 DEF Inv

LEMMA GraceEndsInv ==
    ASSUME Types, Inv, NEW s \in Sids, GraceEnds(s),
           UNCHANGED webLocks
    PROVE  Inv'
<1>0. LockHeld /\ Fresh /\ ReuseNeedsLoss /\ KnownSids /\ Unseen
      /\ LeftDead /\ ReplyNotLeft /\ SignedOutStaysOut /\ Versions
    BY DEF Inv
<1>1. LockHeld' /\ Fresh' /\ ReuseNeedsLoss' /\ KnownSids' /\ Unseen' /\
         LeftDead' /\ ReplyNotLeft' /\ SignedOutStaysOut' /\ Versions'
    BY <1>0 DEF LockHeld, InFlight, GraceEnds, refreshVars, Fresh,
       CookieFresh, ReplyFresh, Accepted, ReuseNeedsLoss, KnownSids,
       storeVars, Unseen, opVars, LeftDead, ReplyNotLeft, SignedOutStaysOut,
       Versions
<1>2. QED
    BY <1>1 DEF Inv

\* The actions together.
LEMMA ServerAnswersStep ==
    ASSUME Types, Inv, NEW t \in Tabs, ServerAnswers(t), UNCHANGED webLocks,
           ops' \in 0 .. MaxOps
    PROVE  Types' /\ Inv'
<1>1. CASE ServerMismatch(t)
    BY <1>1, ServerMismatchTypes, ServerMismatchInv DEF ServerAnswers
<1>2. CASE ServerRotate(t)
    BY <1>2, ServerRotateTypes, ServerRotateInv DEF ServerAnswers
<1>3. CASE ServerReplay(t)
    BY <1>3, ServerReplayTypes, ServerReplayInv DEF ServerAnswers
<1>4. CASE ServerReuse(t)
    BY <1>4, ServerReuseTypes, ServerReuseInv DEF ServerAnswers
<1>5. CASE ServerReject(t)
    BY <1>5, ServerRejectTypes, ServerRejectInv DEF ServerAnswers
<1>6. QED
    BY <1>1, <1>2, <1>3, <1>4, <1>5 DEF ServerAnswers

LEMMA RefreshReplyStep ==
    ASSUME Types, Inv, NEW t \in Tabs, RefreshReply(t), UNCHANGED webLocks,
           ops' \in 0 .. MaxOps
    PROVE  Types' /\ Inv'
<1>1. CASE ReplySuperseded(t)
    BY <1>1, ReplySupersededTypes, ReplySupersededInv DEF RefreshReply
<1>2. CASE ReplyOk(t)
    BY <1>2, ReplyOkTypes, ReplyOkInv DEF RefreshReply
<1>3. CASE ReplyMismatch(t)
    BY <1>3, ReplyMismatchTypes, ReplyMismatchInv DEF RefreshReply
<1>4. CASE ReplyUnauthorized(t)
    BY <1>4, ReplyUnauthorizedTypes, ReplyUnauthorizedInv DEF RefreshReply
<1>5. QED
    BY <1>1, <1>2, <1>3, <1>4 DEF RefreshReply

LEMMA RefreshStepInv ==
    ASSUME Types, Inv, NEW t \in Tabs, RefreshStep(t), UNCHANGED webLocks,
           ops' \in 0 .. MaxOps
    PROVE  Types' /\ Inv'
<1>1. CASE ServerAnswers(t)
    BY <1>1, ServerAnswersStep
<1>2. CASE RefreshSuperseded(t)
    BY <1>2, RefreshSupersededTypes, RefreshSupersededInv
<1>3. CASE RefreshReply(t)
    BY <1>3, RefreshReplyStep
<1>4. CASE RefreshFails(t)
    BY <1>4, RefreshFailsTypes, RefreshFailsInv
<1>5. QED
    BY <1>1, <1>2, <1>3, <1>4 DEF RefreshStep

LEMMA OpStepInv ==
    ASSUME Types, Inv, NEW t \in Tabs, OpStep(t), UNCHANGED webLocks,
           ops' \in 0 .. MaxOps
    PROVE  Types' /\ Inv'
<1>1. CASE CallResumes(t)
    BY <1>1, CallResumesTypes, CallResumesInv
<1>2. CASE CallAgainRefused(t)
    BY <1>2, CallAgainRefusedTypes, CallAgainRefusedInv
<1>3. CASE LoginReply(t)
    BY <1>3, LoginReplyTypes, LoginReplyInv
<1>4. CASE LogoutReply(t)
    BY <1>4, LogoutReplyTypes, LogoutReplyInv
<1>5. CASE LogoutRecovered(t)
    BY <1>5, LogoutRecoveredTypes, LogoutRecoveredInv
<1>6. CASE LogoutConfirmed(t)
    BY <1>6, LogoutConfirmedTypes, LogoutConfirmedInv
<1>7. CASE LogoutGivesUp(t)
    BY <1>7, LogoutGivesUpTypes, LogoutGivesUpInv
<1>8. CASE RevokeReply(t)
    BY <1>8, RevokeReplyTypes, RevokeReplyInv
<1>9. CASE SecurityReply(t)
    BY <1>9, SecurityReplyTypes, SecurityReplyInv
<1>10. CASE OpFails(t)
    BY <1>10, OpFailsTypes, OpFailsInv
<1>11. QED
    BY <1>1, <1>2, <1>3, <1>4, <1>5, <1>6, <1>7, <1>8, <1>9, <1>10 DEF OpStep

LEMMA PageStepInv ==
    ASSUME Types, Inv, NEW t \in Tabs, PageStep(t), UNCHANGED webLocks,
           ops' \in 0 .. MaxOps
    PROVE  Types' /\ Inv'
<1>1. CASE Navigate(t)
    BY <1>1, NavigateTypes, NavigateInv
<1>2. CASE Call(t)
    BY <1>2, CallTypes, CallInv
<1>3. QED
    BY <1>1, <1>2 DEF PageStep

LEMMA PeerStepInv ==
    ASSUME Types, Inv, NEW t \in Tabs, PeerStep(t), UNCHANGED webLocks,
           ops' \in 0 .. MaxOps
    PROVE  Types' /\ Inv'
<1>1. CASE PeerAuthenticated(t)
    BY <1>1, PeerAuthenticatedTypes, PeerAuthenticatedInv
<1>2. CASE PeerSignedOut(t)
    BY <1>2, PeerSignedOutTypes, PeerSignedOutInv
<1>3. CASE PeerEventDropped(t)
    BY <1>3, PeerEventDroppedTypes, PeerEventDroppedInv
<1>4. QED
    BY <1>1, <1>2, <1>3 DEF PeerStep

LEMMA UserStepInv ==
    ASSUME Types, Inv, NEW t \in Tabs, UserStep(t), UNCHANGED webLocks,
           ops' \in 0 .. MaxOps
    PROVE  Types' /\ Inv'
<1>1. CASE Reload(t)
    BY <1>1, ReloadTypes, ReloadInv
<1>2. CASE Login(t)
    BY <1>2, LoginTypes, LoginInv
<1>3. CASE Logout(t)
    BY <1>3, LogoutTypes, LogoutInv
<1>4. CASE ChangeSecurity(t)
    BY <1>4, ChangeSecurityTypes, ChangeSecurityInv
<1>5. CASE TokenExpires(t)
    BY <1>5, TokenExpiresTypes, TokenExpiresInv
<1>6. CASE GetFreshAuthHeaders(t)
    BY <1>6, GetFreshAuthHeadersTypes, GetFreshAuthHeadersInv
<1>7. ASSUME NEW s \in Sids, RevokeLoginSession(t, s)
      PROVE  Types' /\ Inv'
    BY <1>7, RevokeLoginSessionTypes, RevokeLoginSessionInv
<1>8. QED
    BY <1>1, <1>2, <1>3, <1>4, <1>5, <1>6, <1>7 DEF UserStep

LEMMA NextInv ==
    ASSUME Types, Inv, [Next]_vars
    PROVE  Types' /\ Inv'
<1>1. CASE Counted
    <2>1. UNCHANGED webLocks /\ ops' \in 0 .. MaxOps
        BY <1>1, WebAuthAssumption DEF Counted, Types, HistoryTypes
    <2>2. ASSUME NEW t \in Tabs, UserStep(t)
          PROVE  Types' /\ Inv'
        BY <2>1, <2>2, UserStepInv
    <2>3. ASSUME NEW s \in Sids, RevokedElsewhere(s)
          PROVE  Types' /\ Inv'
        BY <2>1, <2>3, RevokedElsewhereTypes, RevokedElsewhereInv
    <2>4. QED
        BY <1>1, <2>2, <2>3 DEF Counted
<1>2. CASE Uncounted
    <2>1. UNCHANGED webLocks /\ ops' \in 0 .. MaxOps
        BY <1>2 DEF Uncounted, Types, HistoryTypes
    <2>2. ASSUME NEW t \in Tabs, RefreshStep(t)
          PROVE  Types' /\ Inv'
        BY <2>1, <2>2, RefreshStepInv
    <2>3. ASSUME NEW t \in Tabs, OpStep(t)
          PROVE  Types' /\ Inv'
        BY <2>1, <2>3, OpStepInv
    <2>4. ASSUME NEW t \in Tabs, PageStep(t)
          PROVE  Types' /\ Inv'
        BY <2>1, <2>4, PageStepInv
    <2>5. ASSUME NEW t \in Tabs, PeerStep(t)
          PROVE  Types' /\ Inv'
        BY <2>1, <2>5, PeerStepInv
    <2>6. ASSUME NEW s \in Sids, GraceEnds(s)
          PROVE  Types' /\ Inv'
        BY <2>1, <2>6, GraceEndsTypes, GraceEndsInv
    <2>7. QED
        BY <1>2, <2>2, <2>3, <2>4, <2>5, <2>6 DEF Uncounted
<1>3. CASE UNCHANGED vars
    <2>1. UNCHANGED <<serverVars, webLocks, cookie, holder, inbox, storeVars, refreshVars,
                      opVars, ops, lost, left>>
        BY <1>3 DEF vars
    <2>2. Types'
        BY <2>1 DEF Types, ServerTypes, BrowserTypes, InboxType, StoreTypes,
           RefreshTypes,
           OpTypes, HistoryTypes, serverVars, storeVars, refreshVars, opVars
    <2>3. LockHeld' /\ Fresh' /\ ReuseNeedsLoss' /\ KnownSids' /\ Unseen'
        BY <2>1 DEF Inv, LockHeld, Fresh, CookieFresh, ReplyFresh, Accepted,
           InFlight,
           ReuseNeedsLoss, KnownSids, Unseen, serverVars, storeVars, refreshVars, opVars
    <2>4. LeftDead' /\ ReplyNotLeft' /\ SignedOutStaysOut' /\ Versions'
        BY <2>1 DEF Inv, LeftDead, ReplyNotLeft, SignedOutStaysOut, Versions,
           Accepted,
           InFlight, serverVars, storeVars, refreshVars, opVars
    <2>5. QED
        BY <2>2, <2>3, <2>4 DEF Inv
<1>4. QED
    BY <1>1, <1>2, <1>3 DEF Next

\* A cold start.
LEMMA InitInv == Init => Inv
<1> SUFFICES ASSUME Init PROVE Inv
    OBVIOUS
<1>1. issued \in {0, 1} /\ cookie = [sid |-> issued, gen |-> 0] /\ alive = 1 .. issued
    BY DEF Init
<1>2. /\ reply = [t \in Tabs |-> NoReply] /\ refresh = [t \in Tabs |-> "none"]
      /\ session = [t \in Tabs |-> NoSid] /\ left = [t \in Tabs |-> {}]
      /\ op = [t \in Tabs |-> "idle"]
    BY DEF Init
<1>3. Types
    BY InitTypes
<1>4. LockHeld /\ ReplyNotLeft
    BY <1>2 DEF LockHeld, ReplyNotLeft, Accepted, InFlight
<1>5. Fresh
    <2>1. cookie.sid # NoSid => cookie.gen = gen[cookie.sid]
        BY <1>1, WebAuthAssumption DEF Init, NoSid, Sids
    <2>2. QED
        BY <1>2, <1>3, <2>1, Numbers DEF Fresh, CookieFresh, ReplyFresh,
           Accepted, InFlight
<1>6. ReuseNeedsLoss
    BY DEF Init, ReuseNeedsLoss
<1>7. KnownSids
    BY <1>1, <1>2, <1>3, Numbers DEF Init, KnownSids
<1>8. Unseen /\ LeftDead
    BY <1>2 DEF Unseen, LeftDead
<1>9. SignedOutStaysOut
    BY <1>2 DEF SignedOutStaysOut
<1>10. Versions
    BY <1>2, <1>3, Numbers DEF Init, Versions, Accepted, InFlight
<1>11. QED
    BY <1>4, <1>5, <1>6, <1>7, <1>8, <1>9, <1>10 DEF Inv

-----------------------------------------------------------------------------
\* Both parts together hold in every reachable state.
LEMMA Invariant == Spec => [](Types /\ Inv)
<1>1. Init => Types /\ Inv
    BY InitTypes, InitInv
<1>2. Types /\ Inv /\ [Next]_vars => (Types /\ Inv)'
    BY NextInv
<1>3. QED
    BY <1>1, <1>2, PTL DEF Spec

\* Every variable of the browser and of the server keeps its type, whatever the
\* tabs do.
THEOREM TypeCorrect == Spec => []TypeOK
<1>1. Types /\ Inv => TypeOK
    BY TypesSuffice
<1>2. QED
    BY <1>1, Invariant, PTL

\* For every number of tabs, sessions, rotations and operations: with Web Locks a
\* session is revoked as reused only if the answer to one of its rotations was
\* lost (RotateUserSessionRefresh under performRefreshWithBrowserLock).
THEOREM ReuseNeedsLossCorrect == Spec => []ReuseNeedsLoss
<1>1. Types /\ Inv => ReuseNeedsLoss
    BY DEF Inv
<1>2. QED
    BY <1>1, Invariant, PTL

\* A tab never shows again a revoked session it has signed out of: the epoch test
\* of createRefreshRunner drops every answer that could restore it.
THEOREM SignedOutStaysOutCorrect == Spec => []SignedOutStaysOut
<1>1. Types /\ Inv => SignedOutStaysOut
    BY DEF Inv
<1>2. QED
    BY <1>1, Invariant, PTL

\* No refresh answer replaces a token by one of an older security version of the
\* same session.
THEOREM TokenNeverOlderCorrect == Spec => TokenNeverOlder
<1>1. ASSUME Types, Inv, NEW t \in Tabs, RefreshReply(t), session[t] # NoSid,
             session'[t] = session[t]
      PROVE  token'[t] >= token[t]
    <2>1. CASE ReplySuperseded(t)
        BY <2>1, <1>1, Numbers DEF ReplySuperseded, storeVars
    <2>2. CASE ReplyOk(t)
        <3>1. token'[t] = reply[t].ver
            BY <2>2, <1>1 DEF ReplyOk, SetBundle, Types, StoreTypes
        <3>2. token[t] <= reply[t].ver
            BY <2>2, <1>1 DEF Inv, Versions, Accepted, InFlight, ReplyOk,
               RefreshReply
        <3>3. QED
            BY <3>1, <3>2, <1>1, Numbers
    <2>3. CASE ReplyMismatch(t) \/ ReplyUnauthorized(t)
        BY <2>3, <1>1 DEF ReplyMismatch, ReplyUnauthorized, Reset, Types,
           StoreTypes
    <2>4. QED
        BY <1>1, <2>1, <2>2, <2>3 DEF RefreshReply
<1>2. Types /\ Inv =>
        \A t \in Tabs : RefreshReply(t) /\ session[t] # NoSid /\ session'[t] = session[t]
                        => token'[t] >= token[t]
    BY <1>1
<1>3. QED
    BY <1>2, Invariant, PTL DEF TokenNeverOlder
=============================================================================
