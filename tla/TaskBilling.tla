---------------------------- MODULE TaskBilling ----------------------------
(***************************************************************************)
(* Billing of asynchronous generation tasks (videos, Suno songs).  A task  *)
(* is charged when it is submitted; polling passes then drive its row to   *)
(* SUCCESS, where the charge is corrected to the actual cost, or to        *)
(* FAILURE, where it is returned.  Passes overlap: a runner that has lost  *)
(* its lease still finishes the row it has in hand.  A client that asks    *)
(* for a Gemini or Vertex task writes the row too.                         *)
(*                                                                         *)
(* Sources: service/task_polling.go, service/task_billing.go,              *)
(* model/task.go, controller/relay.go (RelayTask) and                      *)
(* relay/relay_task.go (tryRealtimeFetch).                                 *)
(***************************************************************************)
EXTENDS Integers, FiniteSets

CONSTANTS
    Tasks,       \* row ids, in the order of submission
    Pollers,     \* polling passes that may run at the same time
    Readers,     \* client requests that fetch one task
    Price,       \* the quota a submission is charged
    Actuals,     \* what a finished task may turn out to cost; 0: no correction
    Channel,     \* the channel that serves each task
    PerCall,     \* tasks billed per call, and Suno tasks: never corrected
    Legacy,      \* rows left by the old system (submit_time < cutoff)
    NullTasks,   \* rows without any upstream id
    NoToken,     \* rows without a token id in their private data
    OwnProgress, \* tasks of upstreams that report a progress in New API format
    Realtime,    \* tasks on Gemini or Vertex channels
    Gone,        \* channels that the cache may fail to find
    SweepLimit, QueryLimit,   \* the LIMIT of the two queries
    Faults, MaxFaults,        \* statements that may fail, and how often
    MaxFetches,               \* bound on the client requests
    NoTask, NoChannel

FaultKinds == {"insert", "cas", "bulk", "fund", "token", "quota", "crash"}

ASSUME TaskBillingAssumption ==
    /\ Tasks \subseteq Nat
    /\ Price \in Nat \ {0}
    /\ Actuals \subseteq Nat
    /\ PerCall \subseteq Tasks /\ Legacy \subseteq Tasks
    /\ NullTasks \subseteq Legacy /\ Realtime \subseteq Tasks
    /\ NoToken \subseteq Tasks /\ OwnProgress \subseteq Tasks
    /\ SweepLimit \in Nat \ {0} /\ QueryLimit \in Nat \ {0}
    /\ Faults \subseteq FaultKinds /\ MaxFaults \in Nat
    /\ MaxFetches \in Nat
    /\ NoTask \notin Tasks
    /\ \A t \in Tasks : Channel[t] # NoChannel

Unfinished == {"NOT_START", "IN_PROGRESS"}
Finished   == {"SUCCESS", "FAILURE"}
NoRow      == {"unborn", "charged", "lost"}   \* before, and without, an insert

VARIABLES
    status, quota,       \* the columns of the tasks table
    full,                \* rows whose progress column says "100%"
    upstream,            \* what the provider knows of each task
    aged,                \* tasks whose submit_time has passed the cutoff
    paid, tokenPaid,     \* net quota taken from the funding source, the row's token
    \* a polling pass
    pc, phase, todo, chan, seen, seenQuota, cur, new, target,
    \* a client request
    rpc, rcur, rseen, rquota, rnew, fetches,
    \* failures so far, and the tasks whose billing one of them cut short
    faults, hurt

row     == <<status, quota, full>>
ledger  == <<paid, tokenPaid>>
pass    == <<pc, phase, todo, chan, seen, seenQuota, cur, new, target>>
request == <<rpc, rcur, rseen, rquota, rnew, fetches>>
failed  == <<faults, hurt>>
vars    == <<row, ledger, upstream, aged, pass, request, failed>>

PollerPCs == {"idle", "next", "cas", "fund", "token", "quota"}
ReaderPCs == {"idle", "fetch", "write"}

\* What the token of a row is charged when its funding source is charged n.
TokenShare(t, n) == IF t \in NoToken THEN 0 ELSE n

Init ==
    /\ status = [t \in Tasks |-> IF t \in Legacy THEN "IN_PROGRESS" ELSE "unborn"]
    /\ quota = [t \in Tasks |-> IF t \in Legacy THEN Price ELSE 0]
    /\ upstream = [t \in Tasks |-> IF t \in Legacy THEN "IN_PROGRESS" ELSE "NOT_START"]
    /\ aged = {} /\ full = {}
    /\ paid = quota /\ tokenPaid = [t \in Tasks |-> TokenShare(t, quota[t])]
    /\ pc = [p \in Pollers |-> "idle"]
    /\ phase = [p \in Pollers |-> "sweep"]
    /\ todo = [p \in Pollers |-> {}]
    /\ chan = [p \in Pollers |-> NoChannel]
    /\ seen = [p \in Pollers |-> [t \in Tasks |-> "NOT_START"]]
    /\ seenQuota = [p \in Pollers |-> [t \in Tasks |-> 0]]
    /\ cur = [p \in Pollers |-> NoTask]
    /\ new = [p \in Pollers |-> "NOT_START"]
    /\ target = [p \in Pollers |-> 0]
    /\ rpc = [r \in Readers |-> "idle"]
    /\ rcur = [r \in Readers |-> NoTask]
    /\ rseen = [r \in Readers |-> "NOT_START"]
    /\ rquota = [r \in Readers |-> 0]
    /\ rnew = [r \in Readers |-> "NOT_START"]
    /\ fetches = 0 /\ faults = 0 /\ hurt = {}

\* One statement of the given kind fails while task t's billing depends on it.
Fault(kind, ts) ==
    /\ kind \in Faults /\ faults < MaxFaults
    /\ faults' = faults + 1
    /\ hurt' = hurt \cup ts

-----------------------------------------------------------------------------
(* Submission: RelayTask settles the session, then inserts the row.        *)

\* SettleBilling has charged the submission's quota (the session itself is
\* the subject of BillingSession).
Charge(t) ==
    /\ status[t] = "unborn"
    /\ status' = [status EXCEPT ![t] = "charged"]
    /\ paid' = [paid EXCEPT ![t] = Price]
    /\ tokenPaid' = [tokenPaid EXCEPT ![t] = TokenShare(t, Price)]
    /\ UNCHANGED <<quota, full, upstream, aged, pass, request, failed>>

Insert(t) ==
    /\ status[t] = "charged"
    /\ status' = [status EXCEPT ![t] = "NOT_START"]
    /\ quota' = [quota EXCEPT ![t] = Price]
    /\ UNCHANGED <<full, ledger, upstream, aged, pass, request, failed>>

\* The insert fails and is only logged, or the process stops before it.
InsertLost(t) ==
    /\ status[t] = "charged"
    /\ status' = [status EXCEPT ![t] = "lost"]
    /\ \/ Fault("insert", {t})
       \/ Fault("crash", {t})
    /\ UNCHANGED <<quota, full, ledger, upstream, aged, pass, request>>

-----------------------------------------------------------------------------
(* A polling pass: RunTaskPollingOnce.                                     *)

IsUnfinished(t) == status[t] \in Unfinished

\* What both queries select: status not final and progress not "100%".
IsListed(t) == IsUnfinished(t) /\ t \notin full

\* Mutant: the limit is off by one.
LimitShort(S, n) == {t \in S : Cardinality({u \in S : u < t}) + 1 < n}

\* The first n members of a set of ids: ORDER BY ... LIMIT n.
Limit(S, n) == {t \in S : Cardinality({u \in S : u < t}) < n}

\* Load the rows of S into the pass: SELECT * ... Find(&tasks).
Load(p, S) ==
    /\ todo' = [todo EXCEPT ![p] = S]
    /\ seen' = [seen EXCEPT ![p] =
                  [t \in Tasks |-> IF t \in S THEN status[t] ELSE "NOT_START"]]
    /\ seenQuota' = [seenQuota EXCEPT ![p] =
                  [t \in Tasks |-> IF t \in S THEN quota[t] ELSE 0]]

SweepRead(p) ==
    /\ pc[p] = "idle"
    /\ Load(p, Limit({t \in aged : IsListed(t)}, SweepLimit))
    /\ pc' = [pc EXCEPT ![p] = "next"]
    /\ phase' = [phase EXCEPT ![p] = "sweep"]
    /\ UNCHANGED <<row, ledger, upstream, aged, chan, cur, new, target, request, failed>>

ListRead(p) ==
    /\ pc[p] = "next" /\ phase[p] = "sweep" /\ todo[p] = {}
    /\ Load(p, Limit({t \in Tasks : IsListed(t)}, QueryLimit))
    /\ phase' = [phase EXCEPT ![p] = "poll"]
    /\ UNCHANGED <<row, ledger, upstream, aged, pc, chan, cur, new, target, request, failed>>

\* The pass drops its in-memory rows.
Forget(p) ==
    /\ todo' = [todo EXCEPT ![p] = {}]
    /\ seen' = [seen EXCEPT ![p] = [t \in Tasks |-> "NOT_START"]]
    /\ seenQuota' = [seenQuota EXCEPT ![p] = [t \in Tasks |-> 0]]
    /\ cur' = [cur EXCEPT ![p] = NoTask]
    /\ new' = [new EXCEPT ![p] = "NOT_START"]
    /\ target' = [target EXCEPT ![p] = 0]
    /\ chan' = [chan EXCEPT ![p] = NoChannel]
    /\ phase' = [phase EXCEPT ![p] = "sweep"]
    /\ pc' = [pc EXCEPT ![p] = "idle"]

PassEnds(p) ==
    /\ pc[p] = "next" /\ phase[p] = "poll" /\ todo[p] = {}
    /\ Forget(p)
    /\ UNCHANGED <<row, ledger, upstream, aged, request, failed>>

\* The runner has lost its lease: the context is looked at between two tasks of
\* the list, and never in the sweep.
PassCancelled(p) ==
    /\ pc[p] = "next" /\ phase[p] = "poll" /\ todo[p] # {}
    /\ Forget(p)
    /\ UNCHANGED <<row, ledger, upstream, aged, request, failed>>

\* The process stops: whatever billing the pass had begun is never finished.
Crash(p) ==
    /\ pc[p] # "idle"
    /\ Fault("crash", IF pc[p] \in {"fund", "token", "quota"} THEN {cur[p]} ELSE {})
    /\ Forget(p)
    /\ UNCHANGED <<row, ledger, upstream, aged, request>>

\* The pass is done with the task in hand.
Done(p, t) ==
    /\ todo' = [todo EXCEPT ![p] = @ \ {t}]
    /\ pc' = [pc EXCEPT ![p] = "next"]
    /\ cur' = [cur EXCEPT ![p] = NoTask]
    /\ new' = [new EXCEPT ![p] = "NOT_START"]
    /\ target' = [target EXCEPT ![p] = 0]
    /\ seen' = [seen EXCEPT ![p][t] = "NOT_START"]
    /\ seenQuota' = [seenQuota EXCEPT ![p][t] = 0]

\* TaskBulkUpdateByID: no guard on the status, and no billing.
TaskBulkUpdateByID(p, S) ==
    /\ \/ /\ status' = [t \in Tasks |-> IF t \in S THEN "FAILURE" ELSE status[t]]
          /\ full' = full \cup S
          /\ UNCHANGED failed
       \/ /\ Fault("bulk", {})
          /\ UNCHANGED <<status, full>>
    /\ todo' = [todo EXCEPT ![p] = @ \ S]
    /\ seen' = [seen EXCEPT ![p] = [t \in Tasks |-> IF t \in S THEN "NOT_START" ELSE @[t]]]
    /\ seenQuota' = [seenQuota EXCEPT ![p] = [t \in Tasks |-> IF t \in S THEN 0 ELSE @[t]]]
    /\ UNCHANGED <<quota, ledger, upstream, aged, pc, phase, cur, new, target, request>>

\* Rows with no upstream id are failed in one statement.
FailNullTasks(p) ==
    /\ pc[p] = "next" /\ phase[p] = "poll"
    /\ todo[p] \cap NullTasks # {}
    /\ TaskBulkUpdateByID(p, todo[p] \cap NullTasks)
    /\ UNCHANGED chan

\* The tasks of one channel; the cache is asked for the channel once. A pass
\* does one channel after the other, as Suno passes do; the goroutines of the
\* video channels share no row, and overlap as two passes do.
ChannelTasks(p, c) == {t \in todo[p] : Channel[t] = c}

CacheGetChannel(p, c) ==
    /\ pc[p] = "next" /\ phase[p] = "poll"
    /\ todo[p] \cap NullTasks = {}
    /\ ChannelTasks(p, chan[p]) = {}
    /\ ChannelTasks(p, c) # {}
    /\ chan' = [chan EXCEPT ![p] = c]
    /\ UNCHANGED <<row, ledger, upstream, aged, pc, phase, todo, seen, seenQuota,
                   cur, new, target, request, failed>>

ChannelNotFound(p, c) ==
    /\ pc[p] = "next" /\ phase[p] = "poll" /\ c \in Gone
    /\ todo[p] \cap NullTasks = {}
    /\ ChannelTasks(p, chan[p]) = {}
    /\ ChannelTasks(p, c) # {}
    /\ TaskBulkUpdateByID(p, ChannelTasks(p, c))
    /\ chan' = [chan EXCEPT ![p] = NoChannel]

\* The provider's answer.  A video answer without a status that is not a rate
\* limit is taken for a failure, whatever the provider is really doing.
Answers(t) == {upstream[t], "FAILURE"}

\* Mutant: the difference is taken for the actual cost.
CorrectedByDifference(p, t, actual) ==
    IF t \in PerCall \/ actual = 0 THEN seenQuota[p][t] ELSE actual - seenQuota[p][t]

\* What a finished task's charge is corrected to: settleTaskBillingOnComplete.
Corrected(p, t, actual) ==
    IF t \in PerCall \/ actual = 0 THEN seenQuota[p][t] ELSE actual

FetchTask(p, t, answer, actual) ==
    /\ pc[p] = "next" /\ phase[p] = "poll"
    /\ t \in ChannelTasks(p, chan[p])
    /\ cur' = [cur EXCEPT ![p] = t]
    /\ new' = [new EXCEPT ![p] = answer]
    /\ target' = [target EXCEPT ![p] =
                    CASE answer = "SUCCESS" -> Corrected(p, t, actual)
                      [] answer = "FAILURE" -> 0
                      [] OTHER -> seenQuota[p][t]]
    /\ pc' = [pc EXCEPT ![p] = "cas"]
    /\ UNCHANGED <<row, ledger, upstream, aged, phase, todo, chan, seen, seenQuota,
                   request, failed>>

\* The request fails, is rate limited, has an unknown status or nothing new.
FetchNothing(p, t) ==
    /\ pc[p] = "next" /\ phase[p] = "poll"
    /\ t \in ChannelTasks(p, chan[p])
    /\ Done(p, t)
    /\ UNCHANGED <<row, ledger, upstream, aged, phase, chan, request, failed>>

\* Mutant: Save, the same write without the status in its WHERE clause.
Save(t, from, to, q, complete) ==
    /\ status' = [status EXCEPT ![t] = to]
    /\ quota' = [quota EXCEPT ![t] = q]
    /\ full' = IF complete THEN full \cup {t} ELSE full \ {t}

\* UPDATE tasks SET every column WHERE id = t AND status = from.
UpdateWithStatus(t, from, to, q, complete) ==
    /\ status[t] = from
    /\ status' = [status EXCEPT ![t] = to]
    /\ quota' = [quota EXCEPT ![t] = q]
    /\ full' = IF complete THEN full \cup {t} ELSE full \ {t}

\* The progress that goes with an answer: a finished task's is not looked at
\* any more, and an unfinished one's may be the upstream's own "100%".
Progresses(t, answer) ==
    IF answer \in Finished THEN {TRUE}
    ELSE IF t \in OwnProgress THEN BOOLEAN ELSE {FALSE}

\* Mutant: only a completed task is billed.
UpdateWithoutRefund(p) ==
    LET t == cur[p] IN
    /\ pc[p] = "cas"
    /\ \E complete \in Progresses(t, new[p]) :
          UpdateWithStatus(t, seen[p][t], new[p], seenQuota[p][t], complete)
    /\ IF target[p] # seenQuota[p][t] /\ new[p] = "SUCCESS"
       THEN /\ pc' = [pc EXCEPT ![p] = "fund"]
            /\ UNCHANGED <<todo, seen, seenQuota, cur, new, target>>
       ELSE Done(p, t)
    /\ UNCHANGED <<ledger, upstream, aged, phase, chan, request, failed>>

\* The pass wins the row and goes on to the billing its answer calls for.
UpdateTask(p) ==
    LET t == cur[p] IN
    /\ pc[p] = "cas"
    /\ \E complete \in Progresses(t, new[p]) :
          UpdateWithStatus(t, seen[p][t], new[p], seenQuota[p][t], complete)
    /\ IF target[p] # seenQuota[p][t]
       THEN /\ pc' = [pc EXCEPT ![p] = "fund"]
            /\ UNCHANGED <<todo, seen, seenQuota, cur, new, target>>
       ELSE Done(p, t)
    /\ UNCHANGED <<ledger, upstream, aged, phase, chan, request, failed>>

\* The row has moved on, or the statement fails: no billing.
UpdateTaskLost(p) ==
    /\ pc[p] = "cas"
    /\ \/ status[cur[p]] # seen[p][cur[p]] /\ UNCHANGED failed
       \/ Fault("cas", {})
    /\ Done(p, cur[p])
    /\ UNCHANGED <<row, ledger, upstream, aged, phase, chan, request>>

\* Mutant: every swept row has its quota cleared with its status.
SweepClearsQuota(p, t) ==
    /\ pc[p] = "next" /\ phase[p] = "sweep" /\ t \in todo[p]
    /\ UpdateWithStatus(t, seen[p][t], "FAILURE", 0, TRUE)
    /\ IF t \notin Legacy /\ seenQuota[p][t] # 0
       THEN /\ cur' = [cur EXCEPT ![p] = t]
            /\ pc' = [pc EXCEPT ![p] = "fund"]
            /\ UNCHANGED <<todo, seen, seenQuota, new, target>>
       ELSE Done(p, t)
    /\ UNCHANGED <<ledger, upstream, aged, phase, chan, request, failed>>

\* sweepTimedOutTasks, one task: legacy rows lose their quota unrefunded.
SweepTask(p, t) ==
    /\ pc[p] = "next" /\ phase[p] = "sweep" /\ t \in todo[p]
    /\ UpdateWithStatus(t, seen[p][t], "FAILURE",
                        IF t \in Legacy THEN 0 ELSE seenQuota[p][t], TRUE)
    /\ IF t \notin Legacy /\ seenQuota[p][t] # 0
       THEN /\ cur' = [cur EXCEPT ![p] = t]
            /\ pc' = [pc EXCEPT ![p] = "fund"]
            /\ UNCHANGED <<todo, seen, seenQuota, new, target>>
       ELSE Done(p, t)
    /\ UNCHANGED <<ledger, upstream, aged, phase, chan, request, failed>>

SweepTaskLost(p, t) ==
    /\ pc[p] = "next" /\ phase[p] = "sweep" /\ t \in todo[p]
    /\ \/ status[t] # seen[p][t] /\ UNCHANGED failed
       \/ Fault("cas", {})
    /\ Done(p, t)
    /\ UNCHANGED <<row, ledger, upstream, aged, phase, chan, request>>

-----------------------------------------------------------------------------
(* RefundTaskQuota (target 0) and RecalculateTaskQuota (target the actual  *)
(* cost): the funding source, then the token, then the quota column.       *)

\* Mutant: the whole cost is due, not what it differs by.
OwedInFull(p) == target[p]

Owed(p) == target[p] - seenQuota[p][cur[p]]

TaskAdjustFunding(p) ==
    /\ pc[p] = "fund"
    /\ paid' = [paid EXCEPT ![cur[p]] = @ + Owed(p)]
    /\ pc' = [pc EXCEPT ![p] = "token"]
    /\ UNCHANGED <<row, tokenPaid, upstream, aged, phase, todo, chan, seen, seenQuota,
                   cur, new, target, request, failed>>

\* The funding source refuses: the quota column is left as it is.
TaskAdjustFundingFails(p) ==
    /\ pc[p] = "fund"
    /\ Fault("fund", {cur[p]})
    /\ Done(p, cur[p])
    /\ UNCHANGED <<row, ledger, upstream, aged, phase, chan, request>>

\* Mutant: the token is charged but never given back.
TokenChargeOnly(p) ==
    /\ pc[p] = "token"
    /\ tokenPaid' = [tokenPaid EXCEPT ![cur[p]] = IF Owed(p) > 0 THEN @ + Owed(p) ELSE @]
    /\ pc' = [pc EXCEPT ![p] = "quota"]
    /\ UNCHANGED <<row, paid, upstream, aged, phase, todo, chan, seen, seenQuota,
                   cur, new, target, request, failed>>

\* The token is found by its id; a row without one is done, and a deleted
\* token, or a failing statement, is only logged.
TaskAdjustTokenQuota(p) ==
    /\ pc[p] = "token"
    /\ \/ /\ tokenPaid' = [tokenPaid EXCEPT ![cur[p]] = @ + TokenShare(cur[p], Owed(p))]
          /\ UNCHANGED failed
       \/ /\ cur[p] \notin NoToken
          /\ Fault("token", {cur[p]}) /\ UNCHANGED tokenPaid
    /\ pc' = [pc EXCEPT ![p] = "quota"]
    /\ UNCHANGED <<row, paid, upstream, aged, phase, todo, chan, seen, seenQuota,
                   cur, new, target, request>>

UpdateQuota(p) ==
    /\ pc[p] = "quota"
    /\ \/ quota' = [quota EXCEPT ![cur[p]] = target[p]] /\ UNCHANGED failed
       \/ Fault("quota", {cur[p]}) /\ UNCHANGED quota
    /\ Done(p, cur[p])
    /\ UNCHANGED <<status, full, ledger, upstream, aged, phase, chan, request>>

-----------------------------------------------------------------------------
(* A client fetches a Gemini or Vertex task: tryRealtimeFetch.             *)

RealtimeRead(r, t) ==
    /\ fetches < MaxFetches /\ fetches' = fetches + 1
    /\ rpc[r] = "idle" /\ t \in Realtime /\ status[t] \notin NoRow
    /\ rcur' = [rcur EXCEPT ![r] = t]
    /\ rseen' = [rseen EXCEPT ![r] = status[t]]
    /\ rquota' = [rquota EXCEPT ![r] = quota[t]]
    /\ rpc' = [rpc EXCEPT ![r] = "fetch"]
    /\ UNCHANGED <<row, ledger, upstream, aged, pass, rnew, failed>>

\* Gemini and Vertex only tell a finished operation from an unfinished one.
RealtimeFetch(r) ==
    /\ rpc[r] = "fetch"
    /\ rnew' = [rnew EXCEPT ![r] =
                  IF upstream[rcur[r]] \in Finished THEN upstream[rcur[r]] ELSE "IN_PROGRESS"]
    /\ rpc' = [rpc EXCEPT ![r] = "write"]
    /\ UNCHANGED <<row, ledger, upstream, aged, pass, rcur, rseen, rquota, fetches, failed>>

RealtimeDone(r) ==
    /\ rpc' = [rpc EXCEPT ![r] = "idle"]
    /\ rcur' = [rcur EXCEPT ![r] = NoTask]
    /\ rseen' = [rseen EXCEPT ![r] = "NOT_START"]
    /\ rquota' = [rquota EXCEPT ![r] = 0]
    /\ rnew' = [rnew EXCEPT ![r] = "NOT_START"]

\* The whole row is written back and the outcome ignored: no billing follows.
\* The two adaptors report 100% for a finished operation and 50% otherwise.
RealtimeWrite(r) ==
    /\ rpc[r] = "write"
    /\ UpdateWithStatus(rcur[r], rseen[r], rnew[r], rquota[r], rnew[r] \in Finished)
    /\ RealtimeDone(r)
    /\ UNCHANGED <<ledger, upstream, aged, pass, fetches, failed>>

\* The provider cannot be asked, nothing has changed, or the row has moved on.
RealtimeGivesUp(r) ==
    /\ \/ rpc[r] = "fetch"
       \/ rpc[r] = "write" /\ (status[rcur[r]] # rseen[r] \/ rnew[r] = rseen[r])
    /\ RealtimeDone(r)
    /\ UNCHANGED <<row, ledger, upstream, aged, pass, fetches, failed>>

-----------------------------------------------------------------------------
(* The environment.                                                        *)

\* The provider starts on a task, or finishes it for good.
UpstreamStarts(t) ==
    /\ status[t] # "unborn" /\ upstream[t] = "NOT_START"
    /\ upstream' = [upstream EXCEPT ![t] = "IN_PROGRESS"]
    /\ UNCHANGED <<row, ledger, aged, pass, request, failed>>

UpstreamFinishes(t, s) ==
    /\ status[t] # "unborn" /\ upstream[t] = "IN_PROGRESS"
    /\ upstream' = [upstream EXCEPT ![t] = s]
    /\ UNCHANGED <<row, ledger, aged, pass, request, failed>>

\* TaskTimeoutMinutes pass.
Age(t) ==
    /\ status[t] \notin NoRow /\ t \notin aged
    /\ aged' = aged \cup {t}
    /\ UNCHANGED <<row, ledger, upstream, pass, request, failed>>

PollerStep(p) ==
    \/ SweepRead(p) \/ ListRead(p) \/ PassEnds(p) \/ PassCancelled(p) \/ Crash(p) \/ FailNullTasks(p)
    \/ \E t \in Tasks :
          \/ CacheGetChannel(p, Channel[t]) \/ ChannelNotFound(p, Channel[t])
          \/ FetchNothing(p, t) \/ SweepTask(p, t) \/ SweepTaskLost(p, t)
          \/ \E answer \in Answers(t), actual \in Actuals :
                FetchTask(p, t, answer, actual)
    \/ UpdateTask(p) \/ UpdateTaskLost(p)
    \/ TaskAdjustFunding(p) \/ TaskAdjustFundingFails(p)
    \/ TaskAdjustTokenQuota(p) \/ UpdateQuota(p)

ReaderStep(r) ==
    \/ \E t \in Tasks : RealtimeRead(r, t)
    \/ RealtimeFetch(r) \/ RealtimeWrite(r) \/ RealtimeGivesUp(r)

Next ==
    \/ \E t \in Tasks :
          \/ Charge(t) \/ Insert(t) \/ InsertLost(t) \/ Age(t) \/ UpstreamStarts(t)
          \/ \E s \in Finished : UpstreamFinishes(t, s)
    \/ \E p \in Pollers : PollerStep(p)
    \/ \E r \in Readers : ReaderStep(r)

Spec == Init /\ [][Next]_vars

-----------------------------------------------------------------------------
(* Properties.                                                             *)

RowTypes ==
    /\ status \in [Tasks -> NoRow \cup Unfinished \cup Finished]
    /\ quota \in [Tasks -> Nat] /\ full \subseteq Tasks
    /\ upstream \in [Tasks -> Unfinished \cup Finished]
    /\ aged \subseteq Tasks
    /\ paid \in [Tasks -> Int] /\ tokenPaid \in [Tasks -> Int]

PassTypes ==
    /\ pc \in [Pollers -> PollerPCs] /\ phase \in [Pollers -> {"sweep", "poll"}]
    /\ todo \in [Pollers -> SUBSET Tasks]
    /\ chan \in [Pollers -> {Channel[t] : t \in Tasks} \cup {NoChannel}]
    /\ seen \in [Pollers -> [Tasks -> Unfinished]]
    /\ seenQuota \in [Pollers -> [Tasks -> Nat]]
    /\ cur \in [Pollers -> Tasks \cup {NoTask}]
    /\ new \in [Pollers -> Unfinished \cup Finished]
    /\ target \in [Pollers -> Nat]
    /\ \A p \in Pollers : cur[p] \in Tasks <=> pc[p] \notin {"idle", "next"}

RequestTypes ==
    /\ rpc \in [Readers -> ReaderPCs] /\ rcur \in [Readers -> Tasks \cup {NoTask}]
    /\ rseen \in [Readers -> Unfinished \cup Finished]
    /\ rquota \in [Readers -> Nat]
    /\ rnew \in [Readers -> Unfinished \cup Finished]
    /\ fetches \in 0..MaxFetches
    /\ \A r \in Readers : rcur[r] \in Tasks <=> rpc[r] # "idle"

FailedTypes == faults \in 0..MaxFaults /\ hurt \subseteq Tasks

\* Every variable has its type, and a pass or a client request holds a task
\* exactly while it works on it.
TypeOK == RowTypes /\ PassTypes /\ RequestTypes /\ FailedTypes

\* A pass is between winning the row of t and writing back its quota.
InHand(t) == \E p \in Pollers : pc[p] \in {"fund", "token", "quota"} /\ cur[p] = t

HasRow(t) == status[t] \notin NoRow

\* However passes overlap and wherever they stop, a task's refunds never
\* exceed what it was charged, on the funding source or the token: winning the
\* row in UpdateWithStatus is what entitles a pass to bill.
NeverOverRefunded == \A t \in Tasks : paid[t] >= 0 /\ tokenPaid[t] >= 0

\* The quota column says what the customer has paid for the task, on the
\* funding source and on the token, whenever no pass has its billing in hand:
\* the whole-row writes of passes with old copies never bring back a quota that
\* RefundTaskQuota or RecalculateTaskQuota has replaced.
QuotaIsPaid ==
    \A t \in Tasks \ (hurt \cup Legacy) :
        HasRow(t) /\ ~InHand(t) =>
            paid[t] = quota[t] /\ tokenPaid[t] = TokenShare(t, quota[t])

\* RefundTaskQuota clears the quota of a failed task only after the money is
\* back, so a failed row with quota 0 never hides a charge, even if the process
\* stops half way.  (Legacy rows are cleared unrefunded on purpose.)
ClearedMeansRefunded ==
    \A t \in Tasks \ Legacy : status[t] = "FAILURE" /\ quota[t] = 0 => paid[t] <= 0

\* The token of a row is adjusted by what the funding source was adjusted by;
\* no token's quota moves for a row that has no token id.
TokenFollowsFunding ==
    \A t \in Tasks \ hurt : ~InHand(t) => tokenPaid[t] = TokenShare(t, paid[t])

\* A failed task has cost nothing once the pass that failed it is done with it:
\* "when an async task fails, return the pre-consumed quota" (RefundTaskQuota).
FailedIsRefunded ==
    \A t \in Tasks \ (hurt \cup Legacy) :
        status[t] = "FAILURE" /\ ~InHand(t) => paid[t] = 0 /\ tokenPaid[t] = 0

\* No write overwrites a terminal status, which is what the compare-and-swap on
\* the status is for.
TerminalIsFinal ==
    [][\A t \in Tasks : status[t] \in Finished => status'[t] = status[t]]_vars

\* Handlers and passes go on unless the process stops, the runner schedules
\* passes while unfinished tasks remain, and time passes.  Providers, clients and
\* submissions promise nothing.
Fairness ==
    /\ \A t \in Tasks : WF_vars(Insert(t)) /\ WF_vars(Age(t))
    /\ \A p \in Pollers : WF_vars(PollerStep(p))

FairSpec == Spec /\ Fairness

\* Every submitted task ends, even if its provider never answers, the list is
\* longer than the query limit and passes are cancelled again and again: the
\* sweep gets to it, unless an upstream hides the row by reporting "100%" with
\* an unfinished status.
EveryTaskEnds ==
    \A t \in Tasks : IsUnfinished(t) ~> status[t] \in Finished \/ t \in full
=============================================================================
