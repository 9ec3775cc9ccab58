# Verification of acu-frontend (new-api gateway)

The repository is an LLM gateway: a Go backend (`controller`, `service`, `model`, `relay`,
`middleware`, `common`, `pkg`) with a React console. Clients call it with a token; it picks a
provider channel, relays the request, and charges the user's wallet or subscription. Long-running
generations (videos, songs) become *tasks* that background passes poll and bill. Several instances
may share one database and one Redis.

Two kinds of parts are worth verifying. In the backend, those where money and ownership change hands
in several statements: there is no distributed transaction, most guards are compare-and-swap updates,
and retries, goroutines, crashes and several nodes interleave. In the console, those where answers
arrive in an order nobody chose: tabs that share one refresh cookie, a conversation whose
stream is stopped, restarted and saved while it is rendered, and forms that save and reload at the same
time. This directory models them in TLA+, checks them with TLC and proves their main properties with TLAPS.

Contents: [Inventory](#inventory) · [Modules](#modules-and-the-code) · [Runs](#runs) ·
[Bounds](#bounds) · [Fairness](#fairness) · [Proofs](#proofs) ·
[Findings](#findings) · [Known behaviours](#known-behaviours) · [Hazards](#hazards-without-a-property) · [Not modelled](#not-modelled) · [Plan](#plan)

## Inventory

`PROJECT.json` lists every component with its sources. The ones with a protocol of their own:

| Component | State | Operations | What is hard | What makes it correct |
|---|---|---|---|---|
| System task runner (`model/system_task.go`, `service/system_task.go`) | rows with a unique `active_key`, one lock row per type, handler goroutines | enqueue, schedule, claim, take over, heartbeat, finish, expire stale locks | several masters, crash between two statements, leases that run out under a live handler, database errors | one active row per type, one execution per row, a terminal status is final, a dead runner's row is failed, a pending row is claimed |
| Request billing session (`service/billing_session.go`, `funding_source.go`, `billing.go`, `violation_fee.go`) | wallet, token quota, subscriptions, pre-consume records, session flags | pre-consume with fallback, settle, refund in a goroutine with retries, violation fee | check-then-act on the wallet, partial failure between funding source and token, refund racing resets and fees, panics | a settled request pays its actual cost, a refunded or rejected one nothing, nobody is refunded twice, a subscription stays within its total |
| Task polling and billing (`service/task_polling.go`, `task_billing.go`, `model/task.go`, `relay/relay_task.go`) | task rows (status, quota), copies held by passes and client requests | submit, sweep timeouts, list, fetch, update, refund, recalculate, bulk failure, client fetch | overlapping passes with stale whole-row copies, three-statement refunds, cancellation and crashes, clients that write rows | each task billed once, the quota column tells what was paid, failed tasks cost nothing, every task ends |
| Subscription life cycle (`model/subscription.go`, `controller/subscription*.go`) | orders, subscriptions, user group | pay, activate, cancel, expire, downgrade | duplicated webhooks, expiry racing activation | one activation per order, the group follows the active subscriptions |
| Browser session (`web/src/lib/auth-session.ts`, `auth-session-sync.ts`, `http-client.ts`, `stores/auth-store.ts`, `features/auth/api.ts`) | per tab: bundle, epoch, refresh promise, bootstrap state; shared: cookie, Web Lock, broadcast channel | sign in, refresh, retry a 401, sign out, recover a mismatch, change security settings, revoke, hear of other tabs, reload | tabs racing for one rotating cookie, answers that arrive after a sign-out, lost answers and events, tabs that die with the lock | no reuse alarm without a loss, signed out means out, tokens never go back, every refresh settles, a dead session is left |
| Conversation page (`web/src/features/playground`) | rendered messages, React's update queue, request generation, stream, chunk buffer, saved copy | send, stop, regenerate, edit, delete, clear, save, load, leave | updaters that run in a later generation, stale renders, late headers and replies, debounced saving | an answer shows exactly what its request received, finished answers stay, busy means work, the saved copy is the rendered one, no answer spins once its request is over |
| System settings forms (`web/src/features/system-settings/hooks`, `general/`) | options of the server process, query cache, form, baseline, save loop | type, save key by key, refetch, reset | GETs that overlap the PUTs of a save, refusals, lost answers, other admins | a field that is not marked changed shows what the server holds |
| User sessions (`model/user_session.go`, `service/auth_session.go`) | session rows, cached snapshots, deny fences | create, rotate, revoke, look up | rotation races, grace window, revocation against cached snapshots | one winner per refresh token, no access after revocation, no revocation inside the grace window |
| Quota store (`model/user.go`, `model/token.go`, `model/utils.go`) | rows, Redis copies, batch store | increase, decrease, flush, absolute edits | asynchronous increments, lost flush, lost update | copies converge to the rows, no charge is lost |
| ACU usage finalisation (`service/acu_usage_finalize.go`) | finalisation records, rows, logs | charge, log, mark | crash between the three, retried reports | one charge and one log per report |
| Top-ups, webhooks, redemption | order and code rows | complete, expire, redeem | duplicates | each order credited once |
| Channel selection (`service/channel_select.go`, `model/channel_cache.go`) | abilities, memory cache, affinity | select, retry, ban | stale caches, retries across groups | only enabled channels, each priority tried in order |
| Rate limiters (`middleware/*rate-limit.go`) | Redis lists, buckets | check, record | check-then-record | no more than the limit per window |

How the modelled components interact: the runner dispatches the polling passes as handlers of
one task type, and its lease is what usually keeps two passes apart; `TaskBilling` therefore
does not assume exclusion, because a runner that has lost its lease finishes the row in hand. A
task submission is charged through a billing session (`RelayTask` settles it before it inserts the
row), and the later refund and recalculation act on the same wallet, subscription and token
rows, but outside any session. The submission's charge is one step in `TaskBilling`; how a session
arrives at it is `BillingSession` with kind `"task"`. `WebAuth` composes the console's session code with the
server's rows; the other two console modules use it only through `getFreshAuthHeaders`, which in `Playground`
comes late or fails (`HeadersReady`, `HeadersFail`), and through failing requests in `SettingsForm`.

## Modules and the code

| Module | Models |
|---|---|
| `SystemTask` | the task table, the lock table and the loop every master runs; one step per SQL statement |
| `SystemTaskAbs` | what the framework promises: rows created one at a time, each run by one runner at most, each ended once |
| `BillingSession` | requests, their sessions, the rows they charge, the refund goroutine, failures |
| `TaskBilling` | task rows, polling passes, client fetches, failures |
| `WebAuth` | the tabs of one browser, the cookie, lock and channel they share, and the session rows behind them |
| `Playground` | the conversation page: handlers, stream controller, update queue, rendering, saving and loading |
| `SettingsForm` | a settings form, its save loop, the options query and the server's options |
| `SystemTaskProofs`, `BillingProofs`, `TaskBillingProofs`, `WebAuthProofs`, `PlaygroundProofs`, `PlaygroundAnswers`, `SettingsFormProofs` | theorems and proofs |
| `InductionLemmas` | induction over the natural numbers, for the proofs about sums and lists |
| `MCSystemTask`, `MCBilling`, `MCTaskBilling`, `MCWebAuth`, `MCPlayground`, `MCSettingsForm` | values of constants and symmetry for TLC |

**SystemTask.** `status`, `lockedBy` and `lock` are the two tables; `pc`, `task`, `seenTask`,
`seenBy`, `age` are the locals of a runner's loop (`StartSystemTaskRunner`), which walks the
stale-lock pass (`StaleFind`, `StaleMark`, `StaleDelete`), the scheduler (`SchedulerRead`,
`SchedulerCreate`) and the claim (`FindPending` … `ClaimDispatch`); `handler[r][t]` is the goroutine
that executes row `t`, with its heartbeat. Runner ids are random per process start, so a runner is
an incarnation and never comes back after `Crash`. Time is relative: `lock.until` is the lease
minus now and `age[r]` the time since runner `r` read its clock, which the code does once per claim
and once per stale-lock pass. One task type is modelled, because types share nothing. What a handler
does is abstracted to its end. `Abs == INSTANCE SystemTaskAbs WITH ...` maps the two tables to the abstract life
cycle, and `AbsSpec` says that they implement it.

**BillingSession.** `wallet`, `token`, `used`, `live`, `due`, `record` are rows; `held`,
`tokenConsumed`, `preConsumed`, `settled`, `fundingSettled`, `refunded` are the session's fields.
`PreConsumeBilling` starts a request; `HasActiveUserSubscription`, `TryWallet`, `TrySubscription`,
`TokenCheck`/`TokenTake`, `FundWallet`/`FundSubscription`, `Unwind` and `AllowWalletOverflow` are
`NewBillingSession` with its fallbacks; `RelaySucceeds`/`RelayFails` end the relay;
`SettleFunding`, `SettleToken`, `RefundWallet`, `RefundSubscriptionPreConsume`, `RefundToken`,
`FeeFunding`, `FeeToken` are the statements of `Settle`, `Refund` and the violation fee. Subscriptions
end and are reset at any time. `Faults` names the statements that may fail: a wallet, token or subscription
statement, a query, and `"record"`, the outer transaction of a subscription refund, which fails after its inner one has
returned the quota. `paid`, `tokenPaid`, `fee`, `reset` are history, and so is `unmarked`: the requests whose quota was returned
by an attempt that then failed to mark the record. Prices are any number
of `Estimates` and `Actuals`. This is a deployment without Redis and without batched updates (the
defaults).

**TaskBilling.** `status`, `quota` and `full` (progress is `"100%"`) are the columns that matter; `todo`, `seen`, `seenQuota` are the
copies a pass has read, `cur`, `new`, `target` the row it is working on and what it should cost;
`rcur`, `rseen`, `rquota`, `rnew` the copy of a client's fetch. `UpdateWithStatus` is the whole-row
compare-and-swap on the status. `UpdateTask` and `SweepTask` win the row; `TaskAdjustFunding`,
`TaskAdjustTokenQuota`, `UpdateQuota` are the statements of `RefundTaskQuota` and
`RecalculateTaskQuota`, in that order. `FailNullTasks` and `ChannelNotFound` are the two bulk updates.
Video and Suno passes share these actions; their differences (Suno never recalculates, its row
is skipped when nothing changed) are guards. Both queries leave out full rows; a final status fills a row, and so does
an upstream of `OwnProgress`, whose answer in New API format brings its own progress. Rows of `NoToken` have no token id, so
that only their funding source is adjusted (`TokenShare`). A pass of the model handles its channels one after the other, as Suno
passes do; video channels get a goroutine each (`task_polling.go:358-374`), which share no row. All properties are about one
row at a time, and the two passes of the model overlap in every way two such goroutines do.

**WebAuth.** `alive`, `gen`, `grace`, `ver` are the columns of `user_sessions` (a secret is its session and its
generation); `cookie`, `holder`, `inbox` the browser's cookie, Web Lock and broadcast channel; `session`, `token`,
`expired`, `boot` the store of each tab; `refresh`, `mayRetry`, `superseded`, `reply` the refresh behind
`refreshPromise` (`superseded` is "`authEpoch` has moved since"); `op` what the page waits for. `ServerAnswers` is
the whole of `RefreshLoginSession` with its rotation, replay window and reuse detection, in the step that sends
the request; `RefreshReply`, `RefreshSuperseded`, `RefreshFails` are the ends of `createRefreshRunner`; the other
actions are named for the functions they model. Browsers with and without Web Locks are both initial states.
Abstractions: `AUTH_REFRESH_RACE` is unreachable because the successor secret is a function of the old one, so the
losing request of a race is answered as a replay; "current" of a session list is `session[t]`;
revoking all other sessions is `RevokedElsewhere`; a security change is one step of the server although the code takes
two statements (`service/auth_session.go:163`); a request is sent and served in one step, so the request of a tab that reloads
is served before the reload or not at all; a tab has one operation at a time, and a 401 and the refresh it starts are one step;
answers with another status, such as 403, and the `out_of_sync` state they lead to (`auth-session.ts:246-250`) are left out.

**Playground.** One step is one run of the event loop. `messages` is the list of the last render, `updates` the
queue of updaters since, `latest` and `stored` what is to be saved and what is; `headers`, `streams`, `source`,
`requests`, `aborted` the requests in the air. A click that changes the list renders before it returns, everything else
renders later (`Render`), and React may or may not run the first updater of an empty queue at once (`MayRunAtOnce`), so an updater
can see the generation of its call or of its render. The chat handler and the stream controller count
generations in two refs that the same handlers advance; one counter stands for both and goes on over
mounts. Mounting and the `setTimeout(0)` that loads the list are one step, so that `hasLoadedMessagesRef`
(`use-playground-state.ts:49`) is always set. Send takes two steps, whether or not there are files: `HandleSubmit` captures the list of
its render and awaits, `SubmitContinues` appends to that list and sends; the input is disabled only by the render
after that, so several submits may be under way (`converting`). A prompt of the empty page sends at once (`SendMessage`). Submits of a
page that was left go on as `orphans`: nobody sees their request, but the first updater may run and save its list
(`LateSubmit`). Text is a sequence of numbered pieces, so that a lost, doubled or misplaced piece is visible, and `Letter` gives each
piece its letter, by which the code compares texts: `Repeats` is its `startsWith` test, and `swallowed` are the generations of which
it has taken a delta for a snapshot. Attachments are a flag, which saving drops.

**SettingsForm.** `server` is `common.OptionMap` of the process the console talks to, which PUT writes and GET reads; `fetch`, `snapshot`, `cache` the options query; `form` and
`baseline` the fields and what they are compared with; `put`, `answer`, `todo`, `data` the loop of PUTs of a save. `inline`
tells sections that build their defaults object in every render (the hook's effect runs after each) from those that
memoise it (it runs when the query's data changes).

## Runs

All runs are `tlc -workers 2 -config <cfg> <module>`.

| Run | Shows |
|---|---|
| `system_task` | two incarnations, two rows, crashes, up to two database errors: `OneActiveRow`, `OneRunnerPerTask`, `RunningHasLock`, `TerminalIsFinal`, and `AbsSpec`: the tables implement `SystemTaskAbs` |
| `system_task_live` | an orphaned running row is failed (`OrphanFails`), a pending row is claimed (`PendingClaimed`), when no claim outlives the lease |
| `billing` | two playground or task requests that fall back from one subscription to the wallet, and one failing record transaction: `SettledPaysActual`, `RejectedPaysNothing`, `WithinTotal`, and `NeverOvercharged` under fairness (`Faults = {"record"}`) |
| `billing_faults` | two relay requests, two subscriptions, the other preferences, one failing statement (`"record"` included), panic or crash: `NeverOverRefunded`, `RefundReturnsAll`, `UsedIsBacked` |
| `task_billing` | two overlapping passes, a new task and a legacy row without a token, an upstream that reports its own progress, one failing charge or refund: `NeverOverRefunded`, `QuotaIsPaid`, `ClearedMeansRefunded`, `FailedIsRefunded`, `TerminalIsFinal`, and `EveryTaskEnds` under fairness |
| `task_billing_client` | a client that writes the row, bulk failures, and every other failure: `TokenFollowsFunding` |
| `task_resurrected` | *violation* of `NeverOverRefunded` by one client fetch |
| `web_auth` | two tabs, two logins, two rotations, a security change, with and without Web Locks: `ReuseNeedsLoss`, `SignedOutStaysOut`, `TokenNeverOlder` |
| `web_auth_live` | every refresh settles (`RefreshSettles`), a tab leaves a session revoked elsewhere (`DeadSessionLeft`) |
| `playground` | streamed snapshots and images, two generations, two submits at once, three other clicks, reloads or saves: `AnswerFaithful`, `PendingIsLast`, `BusyMeansWork`, `ConversationSaved`, `FinalStaysFinal` |
| `playground_text` | the text `aab` as deltas and snapshots, in up to three messages on two channels, and plain replies: `AnswerFaithful`, `PendingIsLast` |
| `settings_form` | two options, three edits, another admin: `CleanShowsServer` |

Every property has a mutant, an operator next to the one it replaces that differs as a plausible bug
would (`\* Mutant`), and TLC finds the property violated with it. Combinations of failures that no single run holds
(several failures at once, failures together with every preference) are covered by the theorems, which bound neither
the failures nor the requests.

## Bounds

- *SystemTask*: two rows are needed for a lock left by the first to meet the second (takeover,
  `ClaimExpireOld`); two incarnations give every pair of racing statements; two errors reach a failing
  statement followed by a failing clean-up. `TTL = 1` and `MaxStall = 1` put a lease's last moment and
  its expiry within reach of every step; `MaxStall = 2` is the case in which a claim outlives its lease.
  The theorems hold for any number of runners, rows and errors, which covers the races of three.
- *BillingSession*: two requests give every pair of steps on a shared row. The estimate (2), the costs
  (1, 3), a total of 3, a wallet of 3 and a token of 4 make both settlement directions, the
  shortage of each source, the total and the trust threshold reachable, with the fee on top. Two
  subscriptions, the second unlimited, exercise the walk over subscriptions. One failure at every statement;
  the theorems cover a failure that hits the repair of another.
- *TaskBilling*: two passes and one legacy row next to a new one; limits of one row so that lists are
  always truncated; costs 0 (no correction), below the price and, in the other runs, above it; `MaxFetches` bounds the client
  requests: one is enough to resurrect a row.
- *WebAuth*: two tabs make every race for the lock, the cookie and the channel; two sessions let a login meet the
  leftovers of the one before; two rotations are needed for a secret that is older than the replay window's;
  `MaxOps = 2` pairs any two operations (a sign-out during a security change, a reload that holds the lock). The
  theorems hold for any number of all of them. The live run has one operation and no security change: a refresh is superseded
  there only by a login or a sign-out of the same tab or by what it hears from the other.
- *Playground*: two generations give an old and a new request; three counted clicks reach two submits and a reload, a save
  or an edit between them; `MaxStored = 3` is passed by two questions with answers, so that saving trims. That run sends one
  piece per answer; `playground_text` sends three, of which the first two have the same letter: two equal deltas meet in the buffer, or
  the second meets the first on the screen, and a third shows what becomes of the rest. The theorems hold for any letters and any number of pieces.
- *SettingsForm*: two keys make a save of more than one PUT with a GET in between; three edits allow typing during a
  save and a second save; two values suffice because only equality matters. The theorem covers any number of
  keys, which matters: see the hasty save under [Known behaviours](#known-behaviours).

## Fairness

- `SystemTask!Fairness`: the loop goroutine keeps running (`WF` on each step of the loop), its throttle
  lets the stale-lock pass through again and again (`SF`: the pass is enabled only between other
  work), time passes and a handler's work is finite. No fairness on heartbeats, creation or errors.
- `BillingSession!FairSpec`: a handler's statements return and the goroutine pool runs what it is given. That the relay ends
  is an assumption on providers and clients: a stream has the scanner's timeout, but a plain reply has none unless
  `RELAY_TIMEOUT` is set (0 by default, `common/init.go:111`). Of the failures, `"record"` may happen.
- `TaskBilling!Fairness`: a submission that was charged inserts its row, tasks age, and the
  runner schedules passes while unfinished tasks remain. Nothing is assumed of providers or clients, and
  a pass may be cancelled every time it polls: the sweep at its start ends the task.
- `WebAuth!Fairness`: Web Locks are granted in the order of the requests (`SF`), a refresh that is sent again and
  again is answered at last, continuations run, and a page in use goes on sending requests, which is how it
  learns of a revocation. `authClient` sets no timeout (`auth-session.ts:51-57`): that a refresh in flight ends, by an answer or by a
  broken connection, is assumed of the server and the network, and a hung lock holder is assumed away with it. Nothing is assumed of
  broadcasts, users or expiries.
- `Playground` assumes none. Neither the page nor, by default, the relay sets a timeout, so a request may stay open for ever; that no
  answer spins once its request is over is then a matter of the next render, and `PendingIsLast` states it as an invariant.

## Proofs

`tlapm` checks the eight modules with theorems or lemmas; the constants are constrained only by the `ASSUME`s of
each component.

| Theorem | Statement | Assumes |
|---|---|---|
| `SystemTaskProofs!TypeCorrect`, `OneActive`, `OneRunner`, `Finality` | `TypeOK`, `OneActiveRow`, `OneRunnerPerTask`, `TerminalIsFinal` | – |
| `SystemTaskProofs!Refinement` | `Spec => AbsSpec` | – |
| `SystemTaskProofs!RunningCovered` | `RunningHasLock` | `MaxStall <= TTL`: no claim outlives the lease |
| `BillingProofs!TypeCorrect`, `SettledPays`, `RejectedPays`, `StaysWithinTotal` | `TypeOK`, `SettledPaysActual`, `RejectedPaysNothing`, `WithinTotal` | – |
| `BillingProofs!NoOverRefund`, `RefundsReturn`, `UsageBacked` | `NeverOverRefunded`, `RefundReturnsAll`, `UsedIsBacked` | – (the properties name the `unmarked` refunds) |
| `TaskBillingProofs!TypeCorrect` | `TypeOK` | – |
| `TaskBillingProofs!RefundsBounded`, `RowTellsCharge`, `ClearedLast`, `TokenFollows` | `NeverOverRefunded`, `QuotaIsPaid`, `ClearedMeansRefunded`, `TokenFollowsFunding` | `Realtime = {}`: no client writes |
| `TaskBillingProofs!TerminalStays`, `FailuresRefunded` | `TerminalIsFinal`, `FailedIsRefunded` | also no bulk updates (`Gone = {}`, `NullTasks = {}`) |
| `WebAuthProofs!TypeCorrect`, `ReuseNeedsLossCorrect`, `SignedOutStaysOutCorrect`, `TokenNeverOlderCorrect` | `TypeOK`, `ReuseNeedsLoss`, `SignedOutStaysOut`, `TokenNeverOlder` | – |
| `PlaygroundProofs!TypesCorrect`, `BusyMeansWorkCorrect`, `ConversationSavedCorrect` | `TypeOK`, `BusyMeansWork`, `ConversationSaved` | – |
| `PlaygroundAnswers!PendingIsLastCorrect`, `FinalStaysFinalCorrect`, `AnswerFaithfulCorrect` | `PendingIsLast`, `FinalStaysFinal`, `AnswerFaithful` | – |
| `SettingsFormProofs!TypeCorrect`, `CleanShowsServerCorrect` | `TypeOK`, `CleanShowsServer` | – |

The inductive invariants, and why they are needed:

- *Rows* (`RowInv`): types, rows in order with at most one active, and *ownership*: an unclaimed row has no
  handler, no starts and no owner; a runner that has won a row and not yet dispatched it is the row's owner.
  `OneRunnerPerTask` alone says nothing about the moment between the winning `UPDATE` and the dispatch.
  The same invariant gives the refinement: every step maps to `Create`, `Take`, `End` or a stutter.
- *Cover* (`CoverInv`): a runner about to mark a row running still holds its lock, a takeover or a
  deletion under way can only hit a lock whose row is not running. It relates the age of the claim to the
  rest of the lease, which is where `MaxStall <= TTL` enters.
- *Charge* (`ChargeInv`, `RefundsInv`): for every request, where the handler is tells the flags
  (`ControlInv`), and flags, goroutine and held amounts tell what the source (`FundingInv`) and the token
  (`TokenInv`) were charged. `RefundInv` counts the attempts of a refund: each returns at most what was held, and only one that
  could not be marked lets the next return it again. A frame lemma shows that a step of one request leaves the invariant of
  the others alone.
- *Sums* (`SubscriptionsInv`): a request names a subscription only once it may have charged it, and whoever can still settle,
  refund or add a fee to a subscription names it. `UsedIsBacked` is then an equation between one row and a sum over the requests:
  a step changes one summand (`TakenStep`), and a sum over a finite set, written as a fold, follows (`RequestsAssumption`
  says the set is finite; the lemmas about sums are proved by induction on its size).
- *Holders* (`IInv` of `TaskBillingProofs`): an unfinished row carries the price, every copy was taken
  then, and the pass that moved the row out of its unfinished status is the only one with its billing in
  hand, at a stage that its `pc` names. So a stale copy can win only a row whose quota it has right. For the
  last two theorems `CalmStep` shows once that every step but winning a row and ending its billing leaves the tasks in
  hand in the same hands or hurts them; `Refunded` adds that a pass with a failed row in hand returns all of it.

- *Sessions* (`Inv` of `WebAuthProofs`): under Web Locks the tab whose refresh is in flight holds the lock
  (`LockHeld`), so the cookie carries its session's newest secret unless that secret is in an answer on its way or
  was lost (`CookieFresh`, `ReplyFresh`): only then can the server see an old one. A session that was signed out of
  stays revoked (`LeftDead`), numbers of sessions not yet issued are named nowhere (`KnownSids`, `Unseen`), and no
  answer that would still be applied names a session its tab has left (`ReplyNotLeft`) or carries an older version than the
  token it would replace (`Versions`). The properties alone say nothing about answers in flight.
- *Requests* (`Ctl` of `PlaygroundProofs`): each request in the air belongs to a generation that has begun and waits in
  one place, the source and both flags are those of the current generation, and only generations that are over were
  aborted. It does not mention messages.
- *Lists* (`Types`, `SaveInv`): the update queue is applied by a recursive function, so first come lemmas that unfold it,
  by induction on the length, and say what each updater does to a list. With them every list is a list of messages, and
  what is stored is a list as saving writes it (`Saved(stored) = stored`), without which a page that loads and saves
  nothing could not be told from one that lost something.
- *Moves* (`MovesCover`): each of the 29 actions does one of sixteen things to the lists, the buffer and the history.
  The remaining invariants are shown move by move. They speak of `View`, the list the next render will show, and of
  `Kept`, the one it would show if the generation ended first; the properties speak only of the last render.
- *Answers* (`AnswerInv`): keys are distinct, only the last message of a list may be open, and then it is the answer of the
  current generation; while the page is busy that answer is pending in `View` and no editor or older list knows
  it, and while it is not busy no answer of `View` is open. With `Ctl`, hence `PendingIsLast`. *Staying* (`StayInv`) adds that `messages`, `View`, `Kept` and the lists captured by
  submits agree on finished answers. Hence `FinalStaysFinal`.
- *Faith* (`FaithInv`): the current answer is pending in every list, saved ones included (`BusyInv`); its text and the
  buffer are one text cut in two, or the buffer is a snapshot that goes on from the text, or, once a delta was
  swallowed, the two are pieces in ascending order (`TextInv`); only delta streams of generations that have begun are swallowed
  (`SwallowInv`); generations that have not begun have received nothing and a running one is not done (`CountInv`, `RequestInv`); so
  every answer in every list shows pieces of what came in their order, a prefix unless swallowed, and then all of it when complete
  (`TruthInv`). `AnswerFaithful` alone says nothing of the
  text between the arrival of a piece and its render, where a piece could be lost or applied twice.
- *Options* (`Inv` of `SettingsFormProofs`): an option the console can know of has its server value in the last
  GET, or a newer GET is due (`GetKnows`); a save that did not overtake the form sends values the server then holds
  (`DataKnown`); until it ends the baseline is the last GET or about to be (`SaveSynced`), and afterwards it is, or agrees with
  the server (`RestKnown`). So whichever of the two resets comes last, the form is right.

Every safety invariant and action property that a passing run checks is also a theorem; `AnswerInv`, `StayInv` and the
parts of `FaithInv` were model-checked on small instances before they were proved. Only model-checked are the liveness
properties (`OrphanFails`, `PendingClaimed`, `NeverOvercharged`, `EveryTaskEnds`, `RefreshSettles`, `DeadSessionLeft`:
the provers have no reasoning about fairness) and the behaviour of `TaskBilling` with client writes, where
two passes can bill one task at once; `task_billing_client` checks `TokenFollowsFunding` for them, and the theorems assume
`Realtime = {}` because `NeverOverRefunded` is false without that (see [Findings](#findings)). The library's induction theorems take a
predicate as an operator, which the provers cannot instantiate; `InductionLemmas!SetInduction` states induction for
sets, and a proof names the set of lengths or sizes for which its claim holds.

## Findings

**A client's fetch resurrects a refunded task** (`task_resurrected`, `relay/relay_task.go`, `tryRealtimeFetch`). It
compares and swaps on whatever status it read, terminal ones included, and writes the old quota back; the next sweep
refunds it a second time.

## Known behaviours

The models also show these; no run is kept for them. Backend:

- A claim that outlives its lease (`MaxStall > TTL`) leaves an immortal row: `ClaimSystemTask` marks the row running
  without a check that the lock is still held. If a stale-lock pass has deleted the lock meanwhile, nothing fails
  the row after a crash, and its `active_key` blocks the type.
- A subscription refund that cannot be marked is repeated (`model/subscription.go:1409`). `RefundSubscriptionPreConsume` returns the
  quota through `PostConsumeUserSubscriptionDelta`, which commits a transaction of its own inside the one that marks the
  record. When the outer one fails, the record still says `consumed` and `refundWithRetry` returns the quota again, up to three
  times, although `model/subscription.go:1391` and `service/funding_source.go:62` call it idempotent. `billing_faults` reaches
  this case; `NeverOverRefunded` excepts exactly these requests (`unmarked`) and bounds what they can get.
- A full but unfinished row is hidden (`service/task_polling.go:568`). The progress of an answer in New API format is stored as it
  comes; with 100% and an unfinished status the row is left out by both queries (`model/task.go:299`, `315`), so that it is
  neither polled nor swept again, and its charge stays. `task_billing` reaches this case; `EveryTaskEnds` excepts exactly these
  rows (`full`).
- A failure first seen by a client's fetch is written as `FAILURE` and never refunded: no pass lists the row again.
- A stale-lock pass fails whatever row its earlier read of the lock names. With three incarnations, a
  takeover and a start of the same row fit in between, and a run with a valid lease is recorded as
  "task lease expired".
- The scheduler's due check and its insert are separate statements: a run of another master that starts and ends
  between them is followed by a second run at once.
- `Refund` only starts a goroutine, so the violation fee can be charged before the refund, although
  `service/violation_fee.go:102` says "after the normal flow finishes (including refund)".
- With `Gone` or `NullTasks` non-empty, `FailedIsRefunded` and `TerminalIsFinal` of `TaskBilling` fail: the bulk
  update `TaskBulkUpdateByID` fails charged tasks without a refund and may overwrite `SUCCESS`, which its own
  comment (`model/task.go:433`) warns about.
- A panic or crash between pre-consumption and settlement leaves a wallet hold charged; a crash between winning
  `FAILURE` and the refund leaves a charge that only the row's non-zero quota records.
- The wallet may go negative: it is checked at one statement and decreased at a later one.

Console, sessions:

- Without Web Locks a late `Set-Cookie` can put an older secret back, and the next refresh revokes the session as
  reused although no answer was lost: the reason `ReuseNeedsLoss` asks for `webLocks`. A late refresh answer may also
  write over the cookie of a login that finished in between.
- A tab that has no session yet ignores a sign-out it hears of while its first refresh is in flight.
- After a mismatch the interceptor repeats the failed request under the session the refresh found, which may be another
  one. `applyAuthRotation` compares only the session, not the version.
- A sign-out with an expired token and a cookie older than the replay window revokes nothing on the server. A
  sign-out that meets a mismatch adopts the other session before it ends that one (`features/auth/api.ts:73`).

Console, conversation:

- Saving an edit or pressing Stop between an event and its render discards the queued updates: the click works on the
  list of the last render, or has moved the generation on. The history variable `cut` names the answers concerned.
- Sending awaits the files and a dynamic import before it acts, without files too (`prompt-input.tsx:741-754`), and then restores
  the list of the render it was clicked in, so what happened meanwhile is lost; of two submits in a row the second wins.
- A submit still under way when the page is left sends a request nobody sees, and its first updater may save its list over
  what a newer page has saved, until that page saves again.
- Two equal neighbouring deltas within one 50 ms buffer become one, and so does any delta that begins with all the
  text buffered before it (`mergePendingStreamChunk`, `use-chat-handler.ts:48-52`); a buffer that begins with all the text shown before it
  loses that much (`getAppendableChunk`). Short texts at the start of an answer are exposed to this ("haha", "……").
- A request that hangs keeps its answer loading until Stop, because no timeout is set. So does a stream that closes with status 200
  and without `[DONE]`, which reaches no handler and keeps its source.
- `sanitizeMessagesOnLoad` converts only the last pending message; an older one that is empty stays loading.

Console, settings:

- `use-settings-form.ts:204` resets the form when a GET brings other values, also while the user is typing again, although
  the comment at line 150 promises no automatic resets.
- A PUT answered with `success: false` counts as saved: the form then shows a value the server refused (`refused`), or, when
  `updateOptionMap` fails, one that it has stored but does not use.
- In sections with memoised defaults, a save that began while a GET was out, after a lost GET, or before the form
  had caught up can leave a clean field with an old value: the final reset undoes a newer GET, and the next GET,
  equal to the cached one, triggers no effect. The case after a lost GET needs three keys and was found by the proof.

## Hazards without a property

Every listed hazard has a property. Further places a reader of this code should know of, in parts that are not modelled or
where the code accepts the loss: the two statements of a security change (`service/auth_session.go:163`), between which a refresh
finds the versions different and revokes the session, the bulk failures of tasks (`service/task_polling.go:398`), a panic between
pre-consumption and settlement (`controller/relay.go:189`), the due check before the insert (`service/system_task.go:287`), a crash between `FAILURE`
and the refund (`service/task_polling.go:597`), a charged submission whose insert fails (`controller/relay.go:644`), cached
session snapshots (`model/user_session.go:494`), Redis copies written by late goroutines (`model/user.go:1189`,
`model/user_cache.go:233`), the batch updater emptied before its statements (`model/utils.go:85`), absolute token edits
(`model/token.go:312`), the answer of a refresh that is written after a revocation (`controller/auth_session.go:33`), the
realtime charge beside its settlement (`service/quota.go:150`) and the three steps of a usage report
(`service/acu_usage_finalize.go:329`).

## Not modelled

Provider adaptors, format conversion and streaming (stateless, their outcome is an input), price formulas
(any cost is tried), logs and reports (append-only), the external ACU router, casbin policies and the desktop
shell. `PROJECT.json` gives the reason for each. Within the modelled components: `Reserve` of a session (nothing calls it),
the realtime websocket charge, Redis and batched updates, partial progress of tasks (only "100%" matters), the work inside a
system task's handler, other tabs with the same conversation, the size limit of the saved conversation and its think tags, field
validation, the normalisation of `ServerAddress`, the optional values that the pricing section skips without a PUT
(`pricing-section.tsx:102-103`), and the options of other nodes, which are stale until `SyncOptions` (`model/option.go:205`) or, when the
database refused the row (`model/option.go:229`, `234`, errors ignored), for good.

Most of the repository by lines is the console's views: some 200,000 lines of tables, dialogs, drawers, charts, column
definitions, translations and generated route trees. They render the result of one query and send one request per
button; what could go wrong in them is layout and wording, which a state machine does not express. The console's own
concurrent logic is the session code, the conversation page and the settings hook, which are modelled; what the models
cover is therefore a small share of the lines and cannot become a large one without modelling markup.

## Plan

Done: `SystemTask` with `SystemTaskAbs`, `BillingSession`, `TaskBilling`, `WebAuth`, `Playground`, `SettingsForm`, and
their proofs. Next, in order:

1. Theorems: `TokenFollowsFunding` with client writes, as a sum over the passes that bill a task.
2. `UserSession`: deny fences and cached snapshots in front of the session rows of `WebAuth`, against an abstract
   "revoked is revoked".
3. `Subscription`: orders, duplicated webhooks, activation, expiry, cancellation and the user's group.
4. `QuotaStore`: rows, Redis copies and the batch store as a refinement of the single `wallet` and `token`
   of `BillingSession`, with the crash and lost-update behaviours stated as what they lose.
5. `RealtimeBilling`, `ACUUsage`, `TopUp`: charges under duplicates, retries and crashes.
6. A composition of `SystemTask` and `TaskBilling`: passes as handlers, overlapping only after a lost lease.
