-------------------------- MODULE BillingSession --------------------------
(***************************************************************************)
(* What a request costs: service/billing_session.go, funding_source.go,    *)
(* billing.go and violation_fee.go over the rows they share, the user's    *)
(* wallet, the token's remaining quota and the user's subscriptions        *)
(* (model/subscription.go).  controller/relay.go drives a session: it      *)
(* pre-consumes an estimate, relays, and then either settles the actual    *)
(* cost or refunds in a goroutine of its own while the handler goes on to  *)
(* the violation fee.                                                      *)
(*                                                                         *)
(* Every database statement or transaction is one step, and any of them    *)
(* may fail if its name is in Faults.  A panic or a crash of the process   *)
(* abandons a request at any step: Relay's deferred functions act only on  *)
(* a returned error, and the session lives in memory only.                 *)
(*                                                                         *)
(* This is a deployment without Redis and without batch updates (the       *)
(* defaults): a quota is read from and written to its row.                 *)
(*                                                                         *)
(* paid and tokenPaid are history: what the request has taken, net, from   *)
(* its funding source and from the token.  The violation fee is kept       *)
(* apart, in fee.  unmarked is history too: the requests whose quota was   *)
(* returned by an attempt that then failed to mark their record.           *)
(***************************************************************************)
EXTENDS Integers, FiniteSets, Functions

CONSTANTS
    Requests,        \* relayed requests, each with its own request id
    NSubs,           \* subscriptions of the user, in end_time order
    Total,           \* Total[s]: amount_total, 0 for unlimited
    Overflow,        \* subscriptions with allow_wallet_overflow
    Wallet0, Token0, \* quota of the user and remain_quota of the token
    TokenUnlimited,  \* unlimited_quota of the token
    Trust,           \* GetTrustQuota(), 0 for no trust bypass
    Kinds,           \* kinds of request: "relay", "playground", "task"
    Prefs,           \* billing preferences in use
    Estimates,       \* quotas to pre-consume
    Actuals,         \* actual costs
    Fee,             \* violation fee, 0 when it is switched off
    Faults,          \* what may fail: statements, panics, crashes
    MaxFaults        \* bound: failures

Subs == 1 .. NSubs
NoSub == 0
FaultKinds == {"query", "wallet", "token", "subscription", "record", "panic", "crash"}

ASSUME BillingAssumption ==
    /\ NSubs \in Nat /\ Total \in [Subs -> Nat] /\ Overflow \subseteq Subs
    /\ Wallet0 \in Nat /\ Token0 \in Nat /\ TokenUnlimited \in BOOLEAN
    /\ Trust \in Nat /\ Fee \in Nat /\ MaxFaults \in Nat
    /\ Kinds \subseteq {"relay", "playground", "task"}
    /\ Prefs \subseteq {"subscription_first", "wallet_first",
                        "subscription_only", "wallet_only"}
    /\ Estimates \subseteq Nat /\ Actuals \subseteq Nat
    /\ Faults \subseteq FaultKinds

\* What a subscription has been charged is a sum over the requests.
ASSUME RequestsAssumption == IsFiniteSet(Requests)

VARIABLES
    wallet,         \* users.quota
    token,          \* tokens.remain_quota
    used,           \* used[s]: amount_used
    live,           \* subscriptions with status active and end_time > now
    due,            \* subscriptions whose next_reset_time has passed
    record,         \* record[r]: the pre-consume record of request r
    pc,             \* pc[r]: where the handler of r is
    req,            \* req[r]: what the request asks for
    source,         \* source[r]: funding source the session tries or holds
    want,           \* want[r]: effectiveQuota of preConsume
    held,           \* held[r]: consumed / preConsumed of the funding source
    tokenConsumed,  \* tokenConsumed[r], preConsumed[r]: session fields
    preConsumed,
    subId,          \* subId[r]: the subscription charged
    settled,        \* requests whose session has the flag
    fundingSettled,
    refunded,
    refunder,       \* refunder[r]: where the refund goroutine of r is
    tries,          \* tries[r]: failed attempts of refundWithRetry
    unmarked,       \* history: refunds that were returned but not recorded
    cost,           \* cost[r]: actual quota of a successful request
    fee,            \* history: violation fee taken from the funding source
    paid,           \* history: net quota taken from the funding source
    tokenPaid,      \* history: net quota taken from the token
    reset,          \* history: subscriptions that were reset
    faults          \* failures so far

store == <<wallet, token, used, live, due, record>>
choice == <<req, source, want, subId>>
held3 == <<held, tokenConsumed, preConsumed>>
flags == <<settled, fundingSettled, refunded>>
background == <<refunder, tries, unmarked>>
history == <<cost, fee, paid, tokenPaid, reset>>
vars == <<store, pc, choice, held3, flags, background, history, faults>>

Idle == [kind |-> "none", pref |-> "none", estimate |-> 0, tokenSeen |-> 0]
Playground(r) == req[r].kind = "playground"
Running(r) == pc[r] \notin {"idle", "done", "rejected", "dead"}
Refunding(r) == refunder[r] \in {"fund", "token"}
Set(f, r, v) == [f EXCEPT ![r] = v]
Add(f, r, d) == [f EXCEPT ![r] = @ + d]

Init ==
    /\ wallet = Wallet0 /\ token = Token0
    /\ used = [s \in Subs |-> 0] /\ live = Subs /\ due = {}
    /\ record = [r \in Requests |-> "none"]
    /\ pc = [r \in Requests |-> "idle"]
    /\ req = [r \in Requests |-> Idle]
    /\ source = [r \in Requests |-> "none"]
    /\ want = [r \in Requests |-> 0]
    /\ held = [r \in Requests |-> 0]
    /\ tokenConsumed = [r \in Requests |-> 0]
    /\ preConsumed = [r \in Requests |-> 0]
    /\ subId = [r \in Requests |-> NoSub]
    /\ settled = {} /\ fundingSettled = {} /\ refunded = {}
    /\ refunder = [r \in Requests |-> "off"]
    /\ tries = [r \in Requests |-> 0] /\ unmarked = {}
    /\ cost = [r \in Requests |-> 0]
    /\ fee = [r \in Requests |-> 0]
    /\ paid = [r \in Requests |-> 0]
    /\ tokenPaid = [r \in Requests |-> 0]
    /\ reset = {}
    /\ faults = 0

Goto(r, l) == pc' = Set(pc, r, l)
Ok == UNCHANGED faults
Fails(statement) ==
    statement \in Faults /\ faults < MaxFaults /\ faults' = faults + 1

-----------------------------------------------------------------------------
(* The rows.                                                               *)

\* DecreaseUserQuota and IncreaseUserQuota, DecreaseTokenQuota and
\* IncreaseTokenQuota: quota = quota - n, whatever the row holds.
TakeWallet(n) == wallet' = wallet - n /\ UNCHANGED <<token, used, live, due, record>>
TakeToken(n) == token' = token - n /\ UNCHANGED <<wallet, used, live, due, record>>

PostConsumeWithoutTotal(s, delta) ==   \* mutant: the total is not checked
    /\ used' = Set(used, s, IF used[s] + delta < 0 THEN 0 ELSE used[s] + delta)
    /\ UNCHANGED <<wallet, token, live, due>>
PostConsumeWithoutFloor(s, delta) ==   \* mutant: no floor at 0
    /\ Total[s] > 0 => used[s] + delta <= Total[s]
    /\ used' = Add(used, s, delta)
    /\ UNCHANGED <<wallet, token, live, due>>

\* PostConsumeUserSubscriptionDelta: floor at 0, refuse to exceed the total.
PostConsumeUserSubscriptionDelta(s, delta) ==
    LET newUsed == IF used[s] + delta < 0 THEN 0 ELSE used[s] + delta IN
    /\ Total[s] > 0 => newUsed <= Total[s]
    /\ used' = Set(used, s, newUsed)
    /\ UNCHANGED <<wallet, token, live, due>>
ExceedsTotal(s, delta) == Total[s] > 0 /\ used[s] + delta > Total[s]

\* amount_used as maybeResetUserSubscriptionWithPlanTx leaves it.
UsedNow(s) == IF s \in due THEN 0 ELSE used[s]
HasRoom(s, n) == Total[s] = 0 \/ Total[s] - UsedNow(s) >= n

PreConsumeOverwrites(r, s) ==   \* mutant: amount_used = amount, not +=
    LET passed == {x \in live : x <= s} IN
    /\ s \in live /\ HasRoom(s, want[r])
    /\ used' = Set(used, s, want[r])
    /\ due' = due \ passed
    /\ reset' = reset \cup (due \cap passed)
    /\ record' = Set(record, r, "consumed")
    /\ UNCHANGED <<wallet, token, live>>

\* PreConsumeUserSubscription: one transaction that walks the active
\* subscriptions by end time, resets the due ones it passes, and charges the
\* first with room.  It rolls back, resets included, if none has room.
PreConsumeUserSubscription(r, s) ==
    LET passed == {x \in live : x <= s} IN
    /\ s \in live /\ HasRoom(s, want[r])
    /\ \A x \in passed \ {s} : ~HasRoom(x, want[r])
    /\ used' = [x \in Subs |->
                   IF x = s THEN UsedNow(s) + want[r]
                   ELSE IF x \in passed THEN UsedNow(x) ELSE used[x]]
    /\ due' = due \ passed
    /\ reset' = reset \cup (due \cap passed)
    /\ record' = Set(record, r, "consumed")
    /\ UNCHANGED <<wallet, token, live>>

-----------------------------------------------------------------------------
(* NewBillingSession and preConsume.                                       *)

\* PreConsumeBilling of a request that arrives; token_quota is in its context.
PreConsumeBilling(r) ==
    /\ pc[r] = "idle"
    /\ \E k \in Kinds, p \in Prefs, n \in Estimates :
        /\ req' = Set(req, r, [kind |-> k, pref |-> p, estimate |-> n,
                               tokenSeen |-> token])
        /\ Goto(r, CASE p = "subscription_only"  -> "trySubscription"
                     [] p = "subscription_first" -> "hasSubscription"
                     [] OTHER                    -> "tryWallet")
    /\ UNCHANGED <<store, source, want, subId, held3, flags, background, history>>
    /\ Ok

HasActiveUserSubscription(r) ==
    /\ pc[r] = "hasSubscription"
    /\ \/ Ok /\ Goto(r, IF live = {} THEN "tryWallet" ELSE "trySubscription")
       \/ Fails("query") /\ Goto(r, "rejected")
    /\ UNCHANGED <<store, choice, held3, flags, background, history>>

\* shouldTrust for a wallet; a subscription is never trusted.
ShouldTrust(r) ==
    /\ req[r].kind # "task" /\ Trust > 0
    /\ TokenUnlimited \/ req[r].tokenSeen > Trust
    /\ wallet > Trust

\* preConsume of a new session with n to pre-consume.
NewSession(r, s, n) ==
    /\ source' = Set(source, r, s)
    /\ want' = Set(want, r, n)
    /\ tokenConsumed' = Set(tokenConsumed, r, 0)
    /\ Goto(r, IF n > 0 THEN "tokenCheck" ELSE "fund")

\* tryWallet: the quota is read here and decreased several steps later.
TryWallet(r) ==
    /\ pc[r] = "tryWallet"
    /\ \/ /\ wallet > 0 /\ wallet >= req[r].estimate
          /\ NewSession(r, "wallet", IF ShouldTrust(r) THEN 0 ELSE req[r].estimate)
          /\ Ok
       \/ /\ wallet <= 0 \/ wallet < req[r].estimate
          /\ Goto(r, IF req[r].pref = "wallet_first"
                     THEN "trySubscription" ELSE "rejected")
          /\ Ok /\ UNCHANGED <<source, want, tokenConsumed>>
       \/ /\ Fails("query") /\ Goto(r, "rejected")
          /\ UNCHANGED <<source, want, tokenConsumed>>
    /\ UNCHANGED <<store, req, subId, held, preConsumed, flags, background, history>>

\* trySubscription: at least 1 is pre-consumed.
TrySubscription(r) ==
    /\ pc[r] = "trySubscription"
    /\ NewSession(r, "subscription",
                  IF req[r].estimate = 0 THEN 1 ELSE req[r].estimate)
    /\ UNCHANGED <<store, req, subId, held, preConsumed, flags, background, history>>
    /\ Ok

\* PreConsumeTokenQuota, the read; a shortage is not a reason to fall back.
TokenCheck(r) ==
    /\ pc[r] = "tokenCheck" /\ ~Playground(r)
    /\ \/ Ok /\ Goto(r, IF TokenUnlimited \/ token >= want[r]
                        THEN "tokenTake" ELSE "rejected")
       \/ Fails("query") /\ Goto(r, "rejected")
    /\ UNCHANGED <<store, choice, held3, flags, background, history>>

\* ... and the decrease.
TokenTake(r) ==
    /\ pc[r] = "tokenTake"
    /\ \/ /\ TakeToken(want[r]) /\ Ok
          /\ tokenConsumed' = Set(tokenConsumed, r, want[r])
          /\ tokenPaid' = Add(tokenPaid, r, want[r])
          /\ Goto(r, "fund")
       \/ /\ Fails("token") /\ Goto(r, "rejected")
          /\ UNCHANGED <<store, tokenConsumed, tokenPaid>>
    /\ UNCHANGED <<choice, held, preConsumed, flags, background,
                   cost, fee, paid, reset>>

TokenSkipUncounted(r) ==   \* mutant: tokenConsumed stays 0 without a token
    /\ pc[r] = "tokenCheck" /\ Playground(r)
    /\ Goto(r, "fund")
    /\ UNCHANGED <<store, choice, held3, flags, background, history>>
    /\ Ok

\* The playground has no token, but the session counts one as consumed.
TokenSkip(r) ==
    /\ pc[r] = "tokenCheck" /\ Playground(r)
    /\ tokenConsumed' = Set(tokenConsumed, r, want[r])
    /\ Goto(r, "fund")
    /\ UNCHANGED <<store, choice, held, preConsumed, flags, background, history>>
    /\ Ok

\* funding.PreConsume succeeded: the session exists and the relay starts.
Funded(r) ==
    /\ held' = Set(held, r, want[r])
    /\ preConsumed' = Set(preConsumed, r, want[r])
    /\ paid' = Add(paid, r, want[r])
    /\ Goto(r, "relaying")

FundWallet(r) ==
    /\ pc[r] = "fund" /\ source[r] = "wallet"
    /\ \/ TakeWallet(want[r]) /\ Funded(r) /\ Ok
       \/ /\ want[r] > 0 /\ Fails("wallet") /\ Goto(r, "unwindError")
          /\ UNCHANGED <<store, held, preConsumed, paid>>
    /\ UNCHANGED <<choice, tokenConsumed, flags, background,
                   cost, fee, tokenPaid, reset>>

\* A failing SELECT of the subscriptions is reported as "no active
\* subscription" and taken for a shortage; any other failure is an error.
FundSubscription(r) ==
    /\ pc[r] = "fund" /\ source[r] = "subscription"
    /\ \/ \E s \in Subs :
            /\ PreConsumeUserSubscription(r, s)
            /\ subId' = Set(subId, r, s)
            /\ Funded(r) /\ Ok
       \/ /\ \A s \in live : ~HasRoom(s, want[r])
          /\ Goto(r, "unwindShort") /\ Ok
          /\ UNCHANGED <<store, subId, held, preConsumed, paid, reset>>
       \/ /\ Fails("subscription")
          /\ Goto(r, "unwindShort") \/ Goto(r, "unwindError")
          /\ UNCHANGED <<store, subId, held, preConsumed, paid, reset>>
    /\ UNCHANGED <<req, source, want, tokenConsumed, flags, background,
                   cost, fee, tokenPaid>>

UnwindWithoutToken(r) ==   \* mutant: the token keeps the decrease
    /\ pc[r] \in {"unwindShort", "unwindError"}
    /\ tokenConsumed' = Set(tokenConsumed, r, 0)
    /\ Goto(r, IF pc[r] = "unwindShort" /\ req[r].pref = "subscription_first"
               THEN "overflow" ELSE "rejected")
    /\ UNCHANGED <<store, choice, held, preConsumed, flags, background, history>>
    /\ Ok

\* preConsume gives the token its quota back; a failure is only logged.
\* Only a shortage lets subscription_first go on to the wallet.
Unwind(r) ==
    LET back == IF Playground(r) THEN 0 ELSE tokenConsumed[r] IN
    /\ pc[r] \in {"unwindShort", "unwindError"}
    /\ \/ TakeToken(-back) /\ tokenPaid' = Add(tokenPaid, r, -back) /\ Ok
       \/ back > 0 /\ Fails("token") /\ UNCHANGED <<store, tokenPaid>>
    /\ tokenConsumed' = IF Playground(r) THEN tokenConsumed
                        ELSE Set(tokenConsumed, r, 0)
    /\ Goto(r, IF pc[r] = "unwindShort" /\ req[r].pref = "subscription_first"
               THEN "overflow" ELSE "rejected")
    /\ UNCHANGED <<choice, held, preConsumed, flags, background,
                   cost, fee, paid, reset>>
\* UserActiveSubscriptionsAllowWalletOverflow: one strict subscription blocks.
AllowWalletOverflow(r) ==
    /\ pc[r] = "overflow"
    /\ \/ Ok /\ Goto(r, IF live \subseteq Overflow THEN "tryWallet" ELSE "rejected")
       \/ Fails("query") /\ Goto(r, "rejected")
    /\ UNCHANGED <<store, choice, held3, flags, background, history>>

-----------------------------------------------------------------------------
(* The relay ends: Settle, or Refund and the violation fee.                *)

RelaySucceeds(r) ==
    /\ pc[r] = "relaying"
    /\ \E n \in Actuals : cost' = Set(cost, r, n)
    /\ Goto(r, "settle")
    /\ UNCHANGED <<store, choice, held3, flags, background, fee, paid, tokenPaid, reset>>
    /\ Ok

\* needsRefundLocked: what the token holds stands for what the wallet holds.
NeedsRefund(r) ==
    /\ r \notin settled \cup refunded \cup fundingSettled
    /\ tokenConsumed[r] > 0 \/ (source[r] = "subscription" /\ held[r] > 0)

\* Refund marks the session and starts the goroutine.
Refund(r) ==
    /\ refunded' = IF NeedsRefund(r) THEN refunded \cup {r} ELSE refunded
    /\ refunder' = IF NeedsRefund(r) THEN Set(refunder, r, "fund") ELSE refunder

\* Relay's deferred function on an error; an error that carries the violation
\* marker is charged for.
RelayFails(r) ==
    /\ pc[r] = "relaying"
    /\ Refund(r)
    /\ \E violates \in BOOLEAN :
        Goto(r, IF violates /\ Fee > 0 THEN "feeFund" ELSE "done")
    /\ UNCHANGED <<store, choice, held3, settled, fundingSettled, tries, unmarked,
                   history>>
    /\ Ok

DeltaFromEstimate(r) == cost[r] - req[r].estimate   \* mutant
Delta(r) == cost[r] - preConsumed[r]

\* Settle, the funding source.  An error leaves the session unsettled; the
\* handlers only log it and never call Settle again.
SettleFunding(r) ==
    /\ pc[r] = "settle" /\ r \notin settled
    /\ \/ /\ Delta(r) = 0
          /\ settled' = settled \cup {r}
          /\ Goto(r, "done") /\ Ok
          /\ UNCHANGED <<store, fundingSettled, paid>>
       \/ /\ Delta(r) # 0 /\ r \notin fundingSettled
          /\ \/ source[r] = "wallet" /\ TakeWallet(Delta(r))
             \/ /\ source[r] = "subscription"
                /\ PostConsumeUserSubscriptionDelta(subId[r], Delta(r))
                /\ UNCHANGED record
          /\ paid' = Add(paid, r, Delta(r))
          /\ fundingSettled' = fundingSettled \cup {r}
          /\ Goto(r, "settleToken") /\ Ok
          /\ UNCHANGED settled
       \/ /\ Delta(r) # 0 /\ r \notin fundingSettled
          /\ \/ source[r] = "wallet" /\ Fails("wallet")
             \/ source[r] = "subscription" /\ Fails("subscription")
             \/ /\ source[r] = "subscription" /\ Ok
                /\ ExceedsTotal(subId[r], Delta(r))
          /\ Goto(r, "done")
          /\ UNCHANGED <<store, settled, fundingSettled, paid>>
    /\ UNCHANGED <<choice, held3, refunded, background, cost, fee, tokenPaid, reset>>

\* Settle, the token; the session is settled even if this fails.
SettleToken(r) ==
    /\ pc[r] = "settleToken"
    /\ \/ /\ ~Playground(r) /\ TakeToken(Delta(r)) /\ Ok
          /\ tokenPaid' = Add(tokenPaid, r, Delta(r))
       \/ ~Playground(r) /\ Fails("token") /\ UNCHANGED <<store, tokenPaid>>
       \/ Playground(r) /\ Ok /\ UNCHANGED <<store, tokenPaid>>
    /\ settled' = settled \cup {r}
    /\ Goto(r, "done")
    /\ UNCHANGED <<choice, held3, fundingSettled, refunded, background,
                   cost, fee, paid, reset>>

\* PostConsumeQuota of the violation fee: funding source, then token.
FeeFunding(r) ==
    /\ pc[r] = "feeFund"
    /\ \/ /\ \/ source[r] = "wallet" /\ TakeWallet(Fee)
             \/ /\ source[r] = "subscription"
                /\ PostConsumeUserSubscriptionDelta(subId[r], Fee)
                /\ UNCHANGED record
          /\ fee' = Set(fee, r, Fee)
          /\ Goto(r, "feeToken") /\ Ok
       \/ /\ \/ source[r] = "wallet" /\ Fails("wallet")
             \/ source[r] = "subscription" /\ Fails("subscription")
             \/ source[r] = "subscription" /\ ExceedsTotal(subId[r], Fee) /\ Ok
          /\ Goto(r, "done")
          /\ UNCHANGED <<store, fee>>
    /\ UNCHANGED <<choice, held3, flags, background, cost, paid, tokenPaid, reset>>

FeeToken(r) ==
    /\ pc[r] = "feeToken"
    /\ \/ ~Playground(r) /\ TakeToken(Fee) /\ Ok
       \/ ~Playground(r) /\ Fails("token") /\ UNCHANGED store
       \/ Playground(r) /\ Ok /\ UNCHANGED store
    /\ Goto(r, "done")
    /\ UNCHANGED <<choice, held3, flags, background, history>>

-----------------------------------------------------------------------------
(* The refund goroutine.                                                   *)

MaxAttempts == 3   \* of refundWithRetry

\* WalletFunding.Refund: tried once.
RefundWallet(r) ==
    /\ refunder[r] = "fund" /\ source[r] = "wallet"
    /\ \/ /\ TakeWallet(-held[r]) /\ Ok
          /\ paid' = Add(paid, r, -held[r])
       \/ Fails("wallet") /\ UNCHANGED <<store, paid>>
    /\ refunder' = Set(refunder, r, "token")
    /\ UNCHANGED <<pc, choice, held3, flags, tries, unmarked, cost, fee, tokenPaid, reset>>

RefundUnrecorded(r) ==   \* mutant: the record is not marked, the retry goes on
    /\ refunder[r] = "fund" /\ source[r] = "subscription"
    /\ PostConsumeUserSubscriptionDelta(subId[r], -held[r]) /\ Ok
    /\ paid' = Add(paid, r, -held[r])
    /\ tries' = Add(tries, r, 1)
    /\ refunder' = IF tries[r] + 1 = MaxAttempts
                   THEN Set(refunder, r, "token") ELSE refunder
    /\ UNCHANGED <<record, pc, choice, held3, flags, unmarked, cost, fee, tokenPaid, reset>>

\* An attempt of RefundSubscriptionPreConsume.  The delta is committed by a
\* transaction of its own, inside the one that marks the record.
RefundSubscriptionPreConsume(r) ==
    /\ refunder[r] = "fund" /\ source[r] = "subscription"
    /\ \/ /\ record[r] = "refunded" /\ Ok
          /\ refunder' = Set(refunder, r, "token")
          /\ UNCHANGED <<store, tries, unmarked, paid>>
       \/ /\ record[r] = "consumed"
          /\ PostConsumeUserSubscriptionDelta(subId[r], -held[r]) /\ Ok
          /\ record' = Set(record, r, "refunded")
          /\ paid' = Add(paid, r, -held[r])
          /\ refunder' = Set(refunder, r, "token")
          /\ UNCHANGED <<tries, unmarked>>
       \/ /\ record[r] = "consumed"
          /\ \/ Fails("subscription") /\ UNCHANGED <<store, paid, unmarked>>
             \/ /\ Fails("record") /\ UNCHANGED record
                /\ PostConsumeUserSubscriptionDelta(subId[r], -held[r])
                /\ paid' = Add(paid, r, -held[r])
                /\ unmarked' = unmarked \cup {r}
          /\ tries' = Add(tries, r, 1)
          /\ refunder' = IF tries[r] + 1 = MaxAttempts
                         THEN Set(refunder, r, "token") ELSE refunder
    /\ UNCHANGED <<pc, choice, held3, flags, cost, fee, tokenPaid, reset>>

RefundTokenOfWallet(r) ==   \* mutant: nothing comes back to the token of a subscription's request
    LET back == IF Playground(r) \/ source[r] = "subscription" THEN 0 ELSE tokenConsumed[r] IN
    /\ refunder[r] = "token"
    /\ TakeToken(-back) /\ tokenPaid' = Add(tokenPaid, r, -back) /\ Ok
    /\ refunder' = Set(refunder, r, "done")
    /\ UNCHANGED <<pc, choice, held3, flags, tries, unmarked, cost, fee, paid, reset>>

\* Last the token.
RefundToken(r) ==
    LET back == IF Playground(r) THEN 0 ELSE tokenConsumed[r] IN
    /\ refunder[r] = "token"
    /\ \/ TakeToken(-back) /\ tokenPaid' = Add(tokenPaid, r, -back) /\ Ok
       \/ back > 0 /\ Fails("token") /\ UNCHANGED <<store, tokenPaid>>
    /\ refunder' = Set(refunder, r, "done")
    /\ UNCHANGED <<pc, choice, held3, flags, tries, unmarked, cost, fee, paid, reset>>

-----------------------------------------------------------------------------
(* The rest of the world.                                                  *)

\* A panic in the handler: the deferred functions see no error, and neither
\* settle nor refund.
Panic(r) ==
    /\ Running(r) /\ Fails("panic")
    /\ Goto(r, "dead")
    /\ UNCHANGED <<store, choice, held3, flags, background, history>>

\* The process dies with all its handlers and refund goroutines.
Crash ==
    /\ Fails("crash")
    /\ \E r \in Requests : Running(r) \/ Refunding(r)
    /\ pc' = [r \in Requests |-> IF Running(r) THEN "dead" ELSE pc[r]]
    /\ refunder' = [r \in Requests |-> IF Refunding(r) THEN "lost" ELSE refunder[r]]
    /\ UNCHANGED <<store, choice, held3, flags, tries, unmarked, history>>

\* A subscription ends, by its end time or by an administrator.
SubscriptionEnds(s) ==
    /\ s \in live
    /\ live' = live \ {s}
    /\ UNCHANGED <<wallet, token, used, due, record, pc, choice, held3, flags,
                   background, history, faults>>

\* next_reset_time passes (bound: once per subscription).
PeriodEnds(s) ==
    /\ s \in live \ (due \cup reset)
    /\ due' = due \cup {s}
    /\ UNCHANGED <<wallet, token, used, live, record, pc, choice, held3, flags,
                   background, history, faults>>

\* ResetDueSubscriptions, one subscription of its batch; it may have ended.
ResetDueSubscription(s) ==
    /\ s \in due
    /\ used' = Set(used, s, 0) /\ due' = due \ {s}
    /\ reset' = reset \cup {s}
    /\ UNCHANGED <<wallet, token, live, record, pc, choice, held3, flags,
                   background, cost, fee, paid, tokenPaid, faults>>

-----------------------------------------------------------------------------
HandlerStep(r) ==
    \/ HasActiveUserSubscription(r) \/ TryWallet(r) \/ TrySubscription(r)
    \/ TokenCheck(r) \/ TokenTake(r) \/ TokenSkip(r)
    \/ FundWallet(r) \/ FundSubscription(r) \/ Unwind(r) \/ AllowWalletOverflow(r)
    \/ RelaySucceeds(r) \/ RelayFails(r)
    \/ SettleFunding(r) \/ SettleToken(r) \/ FeeFunding(r) \/ FeeToken(r)

RefundStep(r) ==
    RefundWallet(r) \/ RefundSubscriptionPreConsume(r) \/ RefundToken(r)

\* Every request is over: the model ends here, the system only waits.
Finished ==
    /\ \A r \in Requests : pc[r] # "idle" /\ ~Running(r) /\ ~Refunding(r)
    /\ UNCHANGED vars

Next ==
    \/ \E r \in Requests :
        PreConsumeBilling(r) \/ HandlerStep(r) \/ RefundStep(r) \/ Panic(r)
    \/ \E s \in Subs : SubscriptionEnds(s) \/ PeriodEnds(s) \/ ResetDueSubscription(s)
    \/ Crash \/ Finished

Spec == Init /\ [][Next]_vars

\* A handler's statements return and the goroutine pool runs what it is given.
\* That the relay ends is an assumption on providers and clients: a stream has
\* the scanner's timeout, a plain reply has none unless RELAY_TIMEOUT is set.
FairSpec ==
    /\ Spec
    /\ \A r \in Requests : WF_vars(HandlerStep(r)) /\ WF_vars(RefundStep(r))

-----------------------------------------------------------------------------
(* Properties.                                                             *)

Labels == {"idle", "hasSubscription", "tryWallet", "trySubscription",
    "tokenCheck", "tokenTake", "fund", "unwindShort", "unwindError", "overflow",
    "relaying", "settle", "settleToken", "feeFund", "feeToken",
    "done", "rejected", "dead"}

RequestType == [kind : Kinds \cup {"none"}, pref : Prefs \cup {"none"},
                estimate : Estimates \cup {0}, tokenSeen : Int]

\* The type of the rows and of the sessions; amount_used is never negative.
TypeOK ==
    /\ wallet \in Int /\ token \in Int
    /\ used \in [Subs -> Nat] /\ live \subseteq Subs /\ due \subseteq Subs
    /\ record \in [Requests -> {"none", "consumed", "refunded"}]
    /\ pc \in [Requests -> Labels]
    /\ req \in [Requests -> RequestType]
    /\ source \in [Requests -> {"none", "wallet", "subscription"}]
    /\ want \in [Requests -> Nat] /\ held \in [Requests -> Nat]
    /\ tokenConsumed \in [Requests -> Nat] /\ preConsumed \in [Requests -> Nat]
    /\ subId \in [Requests -> Subs \cup {NoSub}]
    /\ settled \subseteq Requests /\ fundingSettled \subseteq Requests
    /\ refunded \subseteq Requests
    /\ refunder \in [Requests -> {"off", "fund", "token", "done", "lost"}]
    /\ tries \in [Requests -> Nat] /\ unmarked \subseteq Requests
    /\ cost \in [Requests -> Nat] /\ fee \in [Requests -> Nat]
    /\ paid \in [Requests -> Int] /\ tokenPaid \in [Requests -> Int]
    /\ reset \subseteq Subs /\ faults \in Nat

\* A settled request has paid its actual cost, whatever it pre-consumed and
\* whatever fails, and without failures so has its token; a request that ends
\* neither settled nor refunded has paid what it pre-consumed.
SettledPaysActual ==
    \A r \in Requests :
        /\ r \in settled =>
            /\ paid[r] = cost[r]
            /\ faults = 0 /\ ~Playground(r) => tokenPaid[r] = cost[r]
        /\ pc[r] = "done" /\ r \notin settled \cup refunded =>
            paid[r] = preConsumed[r]

\* A refund that has run returns everything: without failures, funding source
\* and token; with failures, still the subscription unless all the attempts
\* of refundWithRetry failed, or one failed after it had returned the quota.
RefundReturnsAll ==
    \A r \in Requests : refunder[r] = "done" =>
        /\ faults = 0 => paid[r] = 0 /\ tokenPaid[r] = 0
        /\ source[r] = "subscription" /\ tries[r] < MaxAttempts /\ r \notin unmarked
            => paid[r] = 0

\* A request that was turned away has paid nothing: the token was given back
\* unless that failed, and a fallback leaves nothing behind at the source it
\* came from.
RejectedPaysNothing ==
    \A r \in Requests : pc[r] = "rejected" =>
        paid[r] = 0 /\ (faults = 0 => tokenPaid[r] = 0)

\* The one way to get back more than was paid is an attempt of
\* refundWithRetry that returned the quota of a subscription and then failed
\* to mark the record, although model/subscription.go:1391 calls it idempotent:
\* no other failure, panic or crash gives a request more,
\* the token never gets more, and three attempts return at most three times
\* what the request held.
NeverOverRefunded ==
    \A r \in Requests :
        /\ tokenPaid[r] >= 0
        /\ r \notin unmarked => paid[r] >= 0
        /\ paid[r] >= held[r] - MaxAttempts * held[r]

\* Concurrent pre-consumption, settlement and fees keep a subscription within
\* its total.
WithinTotal ==
    \A s \in Subs : Total[s] > 0 => used[s] <= Total[s]

\* amount_used is what the requests that charge the subscription have paid,
\* fees included; a reset only lowers it.  A refund that could not be recorded
\* may have returned quota that was never paid.
UsedIsBacked ==
    \A s \in Subs :
        LET mine == {r \in Requests : subId[r] = s}
            taken == FoldFunctionOnSet(+, 0, [r \in Requests |-> paid[r] + fee[r]], mine)
        IN mine \cap unmarked = {} =>
            used[s] <= taken /\ (s \notin reset => used[s] = taken)

\* A relayed request is in the end never charged more than its actual cost,
\* which is 0 if it fails.
NeverOvercharged ==
    \A r \in Requests :
        pc[r] = "relaying" ~> [](paid[r] <= cost[r] /\ tokenPaid[r] <= cost[r])
-----------------------------------------------------------------------------
(* The inductive invariant behind the properties about what a request pays: *)
(* how the flags, the goroutine and the history variables fit together.     *)

BeforeToken == {"idle", "hasSubscription", "tryWallet", "trySubscription",
                "tokenCheck", "tokenTake", "overflow", "rejected"}
BeforeFunding == BeforeToken \cup {"fund", "unwindShort", "unwindError"}
Committed(r) == r \in settled \cup fundingSettled

\* Where the handler is tells which flags are set and what is held.
ControlInv(r) ==
    /\ preConsumed[r] = held[r]
    /\ pc[r] \in BeforeFunding => held[r] = 0
    /\ pc[r] \in BeforeFunding \cup {"relaying", "settle"} =>
        ~Committed(r) /\ refunder[r] = "off"
    /\ pc[r] \in {"feeFund", "feeToken"} => ~Committed(r)
    /\ pc[r] = "settleToken" => r \in fundingSettled /\ r \notin settled
    /\ pc[r] = "done" /\ r \in fundingSettled => r \in settled
    /\ Committed(r) => refunder[r] = "off"
    /\ r \in refunded <=> refunder[r] # "off"

\* What the funding source has been charged.
FundingInv(r) ==
    /\ Committed(r) => paid[r] = cost[r]
    /\ ~Committed(r) /\ refunder[r] = "off" => paid[r] = held[r]

\* What the token has been charged, exactly if nothing failed.
TokenInv(r) ==
    /\ pc[r] \in BeforeToken /\ ~Playground(r) => tokenConsumed[r] = 0
    /\ pc[r] = "idle" => tokenConsumed[r] = 0 /\ tokenPaid[r] = 0
    /\ pc[r] = "tokenTake" => ~Playground(r)
    /\ pc[r] = "fund" => tokenConsumed[r] = want[r]
    /\ pc[r] \in {"relaying", "settle", "settleToken"} =>
        tokenConsumed[r] = preConsumed[r]
    /\ tokenPaid[r] >= 0
    /\ Playground(r) => tokenPaid[r] = 0
    /\ ~Playground(r) /\ r \notin settled /\ refunder[r] \in {"off", "fund", "token"} =>
        /\ tokenPaid[r] >= tokenConsumed[r]
        /\ faults = 0 => tokenPaid[r] = tokenConsumed[r]
    /\ faults = 0 /\ r \in settled /\ ~Playground(r) => tokenPaid[r] = cost[r]
    /\ faults = 0 /\ refunder[r] = "done" => tokenPaid[r] = 0

\* What a refund has returned: exactly what was held, unless the record could
\* not be marked; then at most that much with each attempt.
RefundInv(r) ==
    /\ pc[r] = "relaying" /\ source[r] = "subscription" => record[r] = "consumed"
    /\ pc[r] \in BeforeFunding \cup {"relaying"} => tries[r] = 0 /\ r \notin unmarked
    /\ r \in unmarked => refunder[r] # "off" /\ faults > 0
    /\ refunder[r] = "fund" =>
        /\ tries[r] < MaxAttempts
        /\ r \notin unmarked => paid[r] = held[r]
        /\ source[r] = "subscription" => record[r] = "consumed"
        /\ source[r] = "wallet" => r \notin unmarked
        /\ tries[r] = 0 => r \notin unmarked
        /\ tries[r] = 1 => paid[r] >= 0
        /\ tries[r] = 2 => paid[r] >= -held[r]
    /\ refunder[r] \in {"token", "done", "lost"} =>
        /\ paid[r] >= held[r] - MaxAttempts * held[r]
        /\ r \notin unmarked => paid[r] \in {0, held[r]}
    /\ refunder[r] \in {"token", "done"} =>
        /\ faults = 0 => paid[r] = 0
        /\ source[r] = "subscription" /\ tries[r] < MaxAttempts /\ r \notin unmarked
            => paid[r] = 0

\* Which subscription a request charges, and since when.
SubscriptionInv(r) ==
    /\ subId[r] # NoSub => source[r] = "subscription" /\ pc[r] \notin BeforeFunding
    /\ /\ source[r] = "subscription"
       /\ \/ pc[r] \in {"relaying", "settle", "settleToken", "feeFund", "feeToken"}
          \/ refunder[r] = "fund"
       => subId[r] \in Subs
    /\ pc[r] \in BeforeFunding \cup {"relaying", "settle", "feeFund"} => fee[r] = 0

ChargeInv == \A r \in Requests : ControlInv(r) /\ FundingInv(r) /\ TokenInv(r)
RefundsInv == \A r \in Requests : RefundInv(r)
SubscriptionsInv == \A r \in Requests : SubscriptionInv(r)
=============================================================================
