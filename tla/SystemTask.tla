---------------------------- MODULE SystemTask ----------------------------
(***************************************************************************)
(* The lease-based system task runner: model/system_task.go (the task and  *)
(* lock tables) and service/system_task.go (the loop every master node     *)
(* runs).  One task type is modelled: the rows, the lock and the handlers  *)
(* of two types never touch each other.                                    *)
(*                                                                         *)
(* Every database statement is one step, because each is its own           *)
(* autocommitted transaction; between two of them the runner may be        *)
(* descheduled, crash, or see a database error.  A runner ID is random per *)
(* process start (service/system_task.go:129), so Runners are process      *)
(* incarnations: a crashed one never comes back, another one starts.       *)
(*                                                                         *)
(* Time is kept relative to the present, which makes it finite: lock.until *)
(* is locked_until minus the current time, age[r] is how long ago the      *)
(* runner read its clock.  Clocks of different nodes are assumed equal.    *)
(***************************************************************************)
EXTENDS Integers, FiniteSets

CONSTANTS
    Runners,    \* runner incarnations ("<node>-<random>")
    NoRunner,   \* the empty locked_by
    MaxTasks,   \* bound: task rows ever created
    TTL,        \* systemTaskLockTTL
    Interval,   \* Interval() of the scheduled handler
    MaxStall,   \* bound: longest time a claim or a stale-lock pass takes
    MaxErrors   \* bound: database errors

ASSUME SystemTaskAssumption ==
    /\ NoRunner \notin Runners
    /\ MaxTasks \in Nat \ {0} /\ TTL \in Nat \ {0} /\ Interval \in Nat
    /\ MaxStall \in Nat /\ MaxErrors \in Nat

Tasks == 1 .. MaxTasks   \* row ids, handed out in order
NoTask == 0

VARIABLES
    status,    \* status[t]: status column of row t, "none" before it exists
    lockedBy,  \* lockedBy[t]: locked_by column of row t
    lock,      \* the system_task_locks row of the type; task = NoTask: no row
    pc,        \* pc[r]: where runner r's loop is
    task,      \* task[r]: the row r is claiming
    seenTask,  \* seenTask[r], seenBy[r]: the lock row r has read
    seenBy,
    age,       \* age[r]: how long ago r read its clock
    handler,   \* handler[r][t]: the handler goroutine of task t on runner r
    quiet,     \* time since updated_at of the latest row, up to Interval
    starts,    \* history: how often a handler was dispatched for row t
    errors     \* database errors so far

loop == <<pc, task, seenTask, seenBy, age>>
vars == <<status, lockedBy, lock, loop, handler, quiet, starts, errors>>

Terminal == {"succeeded", "failed"}
Active(t) == status[t] \in {"pending", "running"}   \* active_key is not NULL

Row(t, r, u) == [task |-> t, by |-> r, until |-> u]
NoLock == Row(NoTask, NoRunner, 0)
HasLock(t, r) == lock.task = t /\ lock.by = r /\ t # NoTask
\* ... WHERE task_id = ? AND locked_by = ? AND locked_until >= now
HoldsLease(t, r) == HasLock(t, r) /\ lock.until >= 0
Floor == -(MaxStall + 1)   \* below every comparison the code can still make

\* Inside ClaimSystemTask and ExpireStaleSystemTaskLocks, which read the clock
\* once at the start and compare with that value throughout.
Timed == {"claim", "lock", "steal", "expire", "start", "reread", "release",
          "stale", "staleMark", "staleDelete"}
PCs == Timed \cup {"unborn", "idle", "sched", "create", "find", "down"}

Init ==
    /\ status = [t \in Tasks |-> "none"]
    /\ lockedBy = [t \in Tasks |-> NoRunner]
    /\ lock = NoLock
    /\ pc = [r \in Runners |-> "unborn"]
    /\ task = [r \in Runners |-> NoTask]
    /\ seenTask = [r \in Runners |-> NoTask]
    /\ seenBy = [r \in Runners |-> NoRunner]
    /\ age = [r \in Runners |-> 0]
    /\ handler = [r \in Runners |-> [t \in Tasks |-> "none"]]
    /\ quiet = 0
    /\ starts = [t \in Tasks |-> 0]
    /\ errors = 0

Goto(r, l) == pc' = [pc EXCEPT ![r] = l] /\ UNCHANGED <<task, seenTask, seenBy, age>>
\* Leave the function: its locals are gone.
Return(r, l) ==
    /\ pc' = [pc EXCEPT ![r] = l]
    /\ task' = [task EXCEPT ![r] = NoTask]
    /\ seenTask' = [seenTask EXCEPT ![r] = NoTask]
    /\ seenBy' = [seenBy EXCEPT ![r] = NoRunner]
    /\ age' = [age EXCEPT ![r] = 0]
DbError == errors < MaxErrors /\ errors' = errors + 1

-----------------------------------------------------------------------------
(* Rows *)

\* Mutant: no unique index on active_key.
CreateWithoutActiveKey ==
    \E t \in Tasks : /\ status[t] = "none"
                     /\ \A u \in Tasks : u < t => status[u] # "none"
                     /\ status' = [status EXCEPT ![t] = "pending"]

\* CreateSystemTask: the unique index on active_key refuses a second active
\* row.  When the MaxTasks rows are used up nothing is created.
CreateSystemTask ==
    LET fresh == {t \in Tasks : status[t] = "none"
                                /\ \A u \in Tasks : u < t => status[u] # "none"}
    IN  status' = [t \in Tasks |->
          IF t \in fresh /\ \A u \in Tasks : ~Active(u) THEN "pending" ELSE status[t]]

\* Mutant: the UPDATE does not ask for status = running.
MarkAnyStatus(t) ==
    /\ status' = [u \in Tasks |-> IF u = t THEN "failed" ELSE status[u]]
    /\ UNCHANGED quiet

\* MarkSystemTaskLeaseExpired: conditional on the row still being running.
MarkSystemTaskLeaseExpired(t) ==
    /\ status' = [u \in Tasks |->
                    IF u = t /\ status[u] = "running" THEN "failed" ELSE status[u]]
    /\ quiet' = IF t \in Tasks /\ status[t] = "running" THEN 0 ELSE quiet

\* ReleaseSystemTaskLock
ReleaseSystemTaskLock(t, r) == lock' = IF HasLock(t, r) THEN NoLock ELSE lock

\* EnqueueSystemTask, StartLogCleanupTask: an administrator asks for a run.
\* The read of the active row before the insert only shortens the path: the
\* insert alone decides.
EnqueueSystemTask ==
    /\ CreateSystemTask
    /\ status' # status
    /\ UNCHANGED <<lockedBy, lock, loop, handler, quiet, starts, errors>>

-----------------------------------------------------------------------------
(* The runner loop: stale locks, then the scheduler, then the claim pass.   *)
(* The first two are throttled by time, so a pass may skip them.            *)

StartSystemTaskRunner(r) ==
    /\ pc[r] = "unborn"
    /\ Goto(r, "stale")
    /\ UNCHANGED <<status, lockedBy, lock, handler, quiet, starts, errors>>

\* Mutant: a pass is skipped while the type is locked.
RunPassUnlocked(r, l) ==
    /\ pc[r] = "idle" /\ lock.task = NoTask
    /\ Goto(r, l)
    /\ UNCHANGED <<status, lockedBy, lock, handler, quiet, starts, errors>>

RunPass(r, l) ==
    /\ pc[r] = "idle"
    /\ Goto(r, l)
    /\ UNCHANGED <<status, lockedBy, lock, handler, quiet, starts, errors>>

\* ExpireStaleSystemTaskLocks, the SELECT ... WHERE locked_until < now.
StaleFind(r) ==
    /\ pc[r] = "stale"
    /\ IF lock.task # NoTask /\ lock.until < -age[r]
       THEN /\ pc' = [pc EXCEPT ![r] = "staleMark"]
            /\ seenTask' = [seenTask EXCEPT ![r] = lock.task]
            /\ seenBy' = [seenBy EXCEPT ![r] = lock.by]
            /\ UNCHANGED <<task, age>>
       ELSE \E l \in {"sched", "find"} : Return(r, l)
    /\ UNCHANGED <<status, lockedBy, lock, handler, quiet, starts, errors>>

\* Mutant: the stale lock is dropped without failing its task.
StaleMarkNothing(r) ==
    /\ pc[r] = "staleMark"
    /\ Goto(r, "staleDelete")
    /\ UNCHANGED <<status, lockedBy, lock, handler, quiet, starts, errors>>

StaleMark(r) ==
    /\ pc[r] = "staleMark"
    /\ MarkSystemTaskLeaseExpired(seenTask[r])
    /\ Goto(r, "staleDelete")
    /\ UNCHANGED <<lockedBy, lock, handler, starts, errors>>

\* DELETE ... WHERE the row is still the one read and locked_until < now.
StaleDelete(r) ==
    /\ pc[r] = "staleDelete"
    /\ lock' = IF HasLock(seenTask[r], seenBy[r]) /\ lock.until < -age[r]
               THEN NoLock ELSE lock
    /\ \E l \in {"sched", "find"} : Return(r, l)
    /\ UNCHANGED <<status, lockedBy, handler, quiet, starts, errors>>

\* runSystemTaskScheduler, GetLatestSystemTasks: due when there is no row, or
\* the latest is terminal and its updated_at is Interval old.
SchedulerRead(r) ==
    /\ pc[r] = "sched"
    /\ IF \A t \in Tasks : ~Active(t) /\ (status[t] # "none" => quiet >= Interval)
       THEN Goto(r, "create") ELSE Goto(r, "find")
    /\ UNCHANGED <<status, lockedBy, lock, handler, quiet, starts, errors>>

SchedulerCreate(r) ==
    /\ pc[r] = "create"
    /\ CreateSystemTask
    /\ Goto(r, "find")
    /\ UNCHANGED <<lockedBy, lock, handler, quiet, starts, errors>>

\* runSystemTaskClaimPass, FindEarliestPendingSystemTasks.
FindPending(r) ==
    /\ pc[r] = "find"
    /\ LET pending == {t \in Tasks : status[t] = "pending"}
       IN  IF pending = {} THEN Return(r, "idle")
           ELSE \E t \in pending :
                  /\ \A u \in pending : t <= u
                  /\ pc' = [pc EXCEPT ![r] = "claim"]
                  /\ task' = [task EXCEPT ![r] = t]
                  /\ UNCHANGED <<seenTask, seenBy, age>>
    /\ UNCHANGED <<status, lockedBy, lock, handler, quiet, starts, errors>>

-----------------------------------------------------------------------------
(* ClaimSystemTask: entered with the clock just read (age 0); lockUntil is  *)
(* now + TTL.                                                               *)

ClaimRead(r) ==
    /\ pc[r] = "claim"
    /\ IF status[task[r]] = "pending" THEN Goto(r, "lock") ELSE Return(r, "idle")
    /\ UNCHANGED <<status, lockedBy, lock, handler, quiet, starts, errors>>

\* Mutant: the lease is counted from the wrong end of the elapsed time.
NewLockTooLong(r) == Row(task[r], r, TTL + age[r])

NewLock(r) == Row(task[r], r, TTL - age[r])

\* acquireSystemTaskLock: insert the row, or read the one that is in the way.
LockInsert(r) ==
    /\ pc[r] = "lock"
    /\ \/ /\ lock.task = NoTask
          /\ lock' = NewLock(r)
          /\ Goto(r, "start")
       \/ /\ lock.task # NoTask /\ lock.until >= -age[r]
          /\ Return(r, "idle") /\ UNCHANGED lock
       \/ /\ lock.task # NoTask /\ lock.until < -age[r]
          /\ pc' = [pc EXCEPT ![r] = "steal"]
          /\ seenTask' = [seenTask EXCEPT ![r] = lock.task]
          /\ UNCHANGED <<lock, task, seenBy, age>>
    /\ UNCHANGED <<status, lockedBy, handler, quiet, starts, errors>>

\* acquireSystemTaskLock: UPDATE ... WHERE type = ? AND locked_until < now.
LockSteal(r) ==
    /\ pc[r] = "steal"
    /\ IF lock.task # NoTask /\ lock.until < -age[r]
       THEN /\ lock' = NewLock(r)
            /\ Goto(r, IF seenTask[r] # task[r] THEN "expire" ELSE "start")
       ELSE Return(r, "idle") /\ UNCHANGED lock
    /\ UNCHANGED <<status, lockedBy, handler, quiet, starts, errors>>

ClaimExpireOld(r) ==
    /\ pc[r] = "expire"
    /\ MarkSystemTaskLeaseExpired(seenTask[r])
    /\ Goto(r, "start")
    /\ UNCHANGED <<lockedBy, lock, handler, starts, errors>>

\* Mutant: the UPDATE does not ask for status = pending.
ClaimStartAnyStatus(r) ==
    /\ pc[r] = "start"
    /\ status' = [status EXCEPT ![task[r]] = "running"]
    /\ lockedBy' = [lockedBy EXCEPT ![task[r]] = r]
    /\ Goto(r, "reread")
    /\ UNCHANGED <<lock, handler, quiet, starts, errors>>

\* UPDATE ... SET status = running WHERE status = pending.
ClaimStart(r) ==
    /\ pc[r] = "start"
    /\ LET t == task[r]
       IN  IF status[t] = "pending"
           THEN /\ status' = [status EXCEPT ![t] = "running"]
                /\ lockedBy' = [lockedBy EXCEPT ![t] = r]
                /\ Goto(r, "reread")
           ELSE Goto(r, "release") /\ UNCHANGED <<status, lockedBy>>
    /\ UNCHANGED <<lock, handler, quiet, starts, errors>>

\* The row is read back and its handler dispatched in a goroutine of its own.
ClaimDispatch(r) ==
    /\ pc[r] = "reread"
    /\ handler' = [handler EXCEPT ![r][task[r]] = "running"]
    /\ starts' = [starts EXCEPT ![task[r]] = @ + 1]
    /\ Return(r, "idle")
    /\ UNCHANGED <<status, lockedBy, lock, quiet, errors>>

ClaimRelease(r) ==
    /\ pc[r] = "release"
    /\ ReleaseSystemTaskLock(task[r], r)
    /\ Return(r, "idle")
    /\ UNCHANGED <<status, lockedBy, handler, quiet, starts, errors>>

\* A statement of the loop fails: what the error path does next.
RunnerDbError(r) ==
    /\ DbError
    /\ \/ /\ pc[r] \in {"claim", "lock", "steal", "reread", "release", "find"}
          /\ Return(r, "idle")
       \/ /\ pc[r] \in {"expire", "start"}
          /\ Goto(r, "release")
       \/ /\ pc[r] \in {"stale", "staleMark", "staleDelete"}
          /\ \E l \in {"sched", "find"} : Return(r, l)
       \/ /\ pc[r] \in {"sched", "create"}
          /\ Return(r, "find")
    /\ UNCHANGED <<status, lockedBy, lock, handler, quiet, starts>>

-----------------------------------------------------------------------------
(* A dispatched handler and its heartbeat (runWithLeaseHeartbeat).          *)

\* "closing" is "releasing" after the heartbeat has ended.
Releasing == {"releasing", "closing"}
Live == {"running", "cancelled"} \cup Releasing

\* RenewSystemTaskLock; a renewal that finds no valid lease cancels the
\* handler's context and ends the heartbeat.
Heartbeat(r, t) ==
    /\ handler[r][t] \in {"running", "releasing"}
    /\ IF HoldsLease(t, r)
       THEN lock' = Row(t, r, TTL) /\ UNCHANGED handler
       ELSE /\ handler[r][t] = "running"
            /\ handler' = [handler EXCEPT ![r][t] = "cancelled"] /\ UNCHANGED lock
    /\ UNCHANGED <<status, lockedBy, loop, quiet, starts, errors>>

HeartbeatDbError(r, t) ==
    /\ DbError
    /\ handler[r][t] = "running"
    /\ handler' = [handler EXCEPT ![r][t] = "cancelled"]
    /\ UNCHANGED <<status, lockedBy, lock, loop, quiet, starts>>

\* Mutant: the UPDATE matches on task_id and the lease alone.
FinishWithoutStatus(r, t, result) ==
    /\ handler[r][t] \in {"running", "cancelled"}
    /\ HoldsLease(t, r)
    /\ status' = [status EXCEPT ![t] = result]
    /\ quiet' = 0
    /\ handler' = [handler EXCEPT ![r][t] = "releasing"]
    /\ UNCHANGED <<lockedBy, lock, loop, starts, errors>>

\* FinishSystemTask: the UPDATE requires the row running, locked by this
\* runner, and a valid lease; without them the handler just logs and returns.
FinishSystemTask(r, t, result) ==
    /\ handler[r][t] \in {"running", "cancelled"}
    /\ IF status[t] = "running" /\ lockedBy[t] = r /\ HoldsLease(t, r)
       THEN /\ status' = [status EXCEPT ![t] = result]
            /\ quiet' = 0
            /\ handler' = [handler EXCEPT ![r][t] = IF @ = "running" THEN "releasing" ELSE "closing"]
       ELSE handler' = [handler EXCEPT ![r][t] = "none"] /\ UNCHANGED <<status, quiet>>
    /\ UNCHANGED <<lockedBy, lock, loop, starts, errors>>

FinishRelease(r, t) ==
    /\ handler[r][t] \in Releasing
    /\ ReleaseSystemTaskLock(t, r)
    /\ handler' = [handler EXCEPT ![r][t] = "none"]
    /\ UNCHANGED <<status, lockedBy, loop, quiet, starts, errors>>

\* The handler ends without a terminal row: UpdateSystemTaskState or
\* FinishSystemTask fails, or the release after it does.
HandlerDbError(r, t) ==
    /\ DbError
    /\ handler[r][t] \in Live
    /\ handler' = [handler EXCEPT ![r][t] = "none"]
    /\ UNCHANGED <<status, lockedBy, lock, loop, quiet, starts>>

-----------------------------------------------------------------------------
(* The environment *)

\* A process dies with its loop and its handlers; the tables stay.  At least
\* one incarnation survives.
Crash(r) ==
    /\ pc[r] \notin {"unborn", "down"}
    /\ \E q \in Runners \ {r} : pc[q] # "down"
    /\ Return(r, "down")
    /\ handler' = [handler EXCEPT ![r] = [t \in Tasks |-> "none"]]
    /\ UNCHANGED <<status, lockedBy, lock, quiet, starts, errors>>

Tick ==
    /\ \A r \in Runners : pc[r] \in Timed => age[r] < MaxStall
    /\ age' = [r \in Runners |-> IF pc[r] \in Timed THEN age[r] + 1 ELSE age[r]]
    /\ lock' = IF lock.task # NoTask /\ lock.until > Floor
               THEN Row(lock.task, lock.by, lock.until - 1) ELSE lock
    /\ quiet' = IF quiet < Interval THEN quiet + 1 ELSE quiet
    /\ UNCHANGED <<status, lockedBy, pc, task, seenTask, seenBy, handler, starts, errors>>

LoopStep(r) ==
    \/ StartSystemTaskRunner(r)
    \/ \E l \in {"stale", "sched", "find"} : RunPass(r, l)
    \/ StaleFind(r) \/ StaleMark(r) \/ StaleDelete(r)
    \/ SchedulerRead(r) \/ SchedulerCreate(r)
    \/ FindPending(r) \/ ClaimRead(r) \/ LockInsert(r) \/ LockSteal(r)
    \/ ClaimExpireOld(r) \/ ClaimStart(r) \/ ClaimDispatch(r) \/ ClaimRelease(r)

HandlerStep(r, t) ==
    \/ \E result \in Terminal : FinishSystemTask(r, t, result)
    \/ FinishRelease(r, t)

Next ==
    \/ EnqueueSystemTask
    \/ Tick
    \/ \E r \in Runners :
         \/ LoopStep(r) \/ RunnerDbError(r) \/ Crash(r)
         \/ \E t \in Tasks : \/ HandlerStep(r, t) \/ HandlerDbError(r, t)
                             \/ Heartbeat(r, t) \/ HeartbeatDbError(r, t)

Spec == Init /\ [][Next]_vars

\* Time passes, the loop goroutine keeps looping and its throttle lets the
\* stale-lock pass through again and again, and a handler's work is finite
\* (one pass over channels, tasks or log rows).  No fairness on heartbeats.
Fairness ==
    /\ SF_vars(Tick)
    /\ \A r \in Runners :
         /\ WF_vars(LoopStep(r))
         /\ SF_vars(RunPass(r, "stale"))
         /\ \A t \in Tasks : WF_vars(HandlerStep(r, t))

FairSpec == Spec /\ Fairness

-----------------------------------------------------------------------------
(* Properties *)

LockRows == [task : Tasks \cup {NoTask}, by : Runners \cup {NoRunner}, until : Floor .. TTL]

LoopTypeOK ==
    /\ pc \in [Runners -> PCs]
    /\ task \in [Runners -> Tasks \cup {NoTask}]
    /\ seenTask \in [Runners -> Tasks \cup {NoTask}]
    /\ seenBy \in [Runners -> Runners \cup {NoRunner}]
    /\ age \in [Runners -> 0 .. MaxStall]

TypeOK ==
    /\ LoopTypeOK
    /\ status \in [Tasks -> {"none", "pending", "running"} \cup Terminal]
    /\ lockedBy \in [Tasks -> Runners \cup {NoRunner}]
    /\ lock \in LockRows
    /\ handler \in [Runners -> [Tasks -> {"none"} \cup Live]]
    /\ quiet \in 0 .. Interval /\ errors \in 0 .. MaxErrors
    /\ starts \in [Tasks -> Nat]

\* However many masters schedule and enqueue, a type has at most one pending
\* or running row (the active_key index, CreateSystemTask), and rows become
\* active in id order.
OneActiveRow ==
    \A t, u \in Tasks : Active(t) /\ status[u] # "none" /\ t # u =>
        u < t /\ status[u] \in Terminal

\* A row's handler is dispatched at most once, and only on the runner the row
\* names in locked_by, through every race of claims, lock takeovers, stale-lock
\* passes, crashes and errors ("the per-type lock guarantees only one runner
\* executes the task", service/system_task.go:262).
OneRunnerPerTask ==
    \A t \in Tasks :
        /\ starts[t] <= 1
        /\ \A r \in Runners : handler[r][t] # "none" => lockedBy[t] = r

\* While no claim takes longer than the lease, a running row always has its
\* own lock row, held by the runner that runs it: that row is the only thing
\* the crash detection of ExpireStaleSystemTaskLocks and of lock takeover
\* looks at.
RunningHasLock ==
    \A t \in Tasks : status[t] = "running" => HasLock(t, lockedBy[t])

\* A finished row never changes again: a handler that outlives its lease
\* cannot overwrite the "lease expired" failure, nor a stale-lock pass a
\* result (FinishSystemTask against MarkSystemTaskLeaseExpired).
TerminalIsFinal ==
    [][\A t \in Tasks : status[t] \in Terminal => status'[t] = status[t]]_vars

\* The tables with all their locks implement the abstract life cycle, under the
\* mapping that keeps the rows' status and owner and forgets the rest.
Abs == INSTANCE SystemTaskAbs WITH
           Runners <- Runners, NoRunner <- NoRunner, MaxTasks <- MaxTasks,
           status <- status, lockedBy <- lockedBy
AbsSpec == Abs!Spec

\* A running row nobody executes any more.
Orphan(t) ==
    /\ status[t] = "running"
    /\ \A r \in Runners : /\ handler[r][t] = "none"
                          /\ ~(pc[r] = "reread" /\ task[r] = t)

\* Crash detection: a running row whose runner died is eventually failed,
\* which frees the type for the next run.
OrphanFails == \A t \in Tasks : Orphan(t) ~> status[t] = "failed"

\* A pending row is eventually claimed, even when the runner that locked the
\* type for it, or for the row before it, died.
PendingClaimed == \A t \in Tasks : status[t] = "pending" ~> status[t] # "pending"
=============================================================================
