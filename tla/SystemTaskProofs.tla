-------------------------- MODULE SystemTaskProofs --------------------------
(***************************************************************************)
(* Proofs about SystemTask for any number of runners and rows, any lease,  *)
(* interval, stall and error bound.                                        *)
(***************************************************************************)
EXTENDS SystemTask, TLAPS

Claiming == {"claim", "lock", "steal", "expire", "start", "reread", "release"}

\* A claim has a row to claim.
ClaimTarget == \A r \in Runners : pc[r] \in Claiming => task[r] \in Tasks

LoopInv == LoopTypeOK /\ ClaimTarget
TypeInv == TypeOK /\ ClaimTarget

LEMMA ConstantTypes == Floor \in Int /\ Floor < 0 /\ TTL \in Nat /\ MaxStall \in Nat
  BY SystemTaskAssumption DEF Floor

LEMMA InitType == Init => TypeInv
  BY SystemTaskAssumption, ConstantTypes
  DEF Init, TypeInv, TypeOK, LoopTypeOK, LockRows, ClaimTarget, Claiming, NoLock, Row,
      PCs, Timed, Live, Releasing, Terminal

\* Where a function returns to, it claims nothing.
LEMMA ReturnType ==
  ASSUME LoopInv, NEW r \in Runners, NEW l \in PCs \ Claiming, Return(r, l)
  PROVE  LoopInv'
<1>1. pc' \in [Runners -> PCs] /\ task' \in [Runners -> Tasks \cup {NoTask}]
      /\ seenTask' \in [Runners -> Tasks \cup {NoTask}]
  BY DEF LoopInv, LoopTypeOK, Return
<1>2. seenBy' \in [Runners -> Runners \cup {NoRunner}] /\ age' \in [Runners -> 0 .. MaxStall]
  BY ConstantTypes DEF LoopInv, LoopTypeOK, Return
<1>3. ClaimTarget'
  BY DEF LoopInv, LoopTypeOK, ClaimTarget, Return
<1> QED
  BY <1>1, <1>2, <1>3 DEF LoopInv, LoopTypeOK

LEMMA GotoType ==
  ASSUME LoopInv, NEW r \in Runners, NEW l \in PCs, l \in Claiming => task[r] \in Tasks,
         Goto(r, l)
  PROVE  LoopInv'
  BY DEF LoopInv, LoopTypeOK, ClaimTarget, Goto

\* Only the loop moves: the tables and the handlers keep their types.
LEMMA LoopOnly ==
  ASSUME TypeInv, LoopInv', UNCHANGED <<status, lockedBy, lock, handler, quiet, starts, errors>>
  PROVE  TypeInv'
  BY DEF TypeInv, TypeOK, LoopInv

LEMMA RowType ==
  ASSUME NEW t \in Tasks \cup {NoTask}, NEW r \in Runners \cup {NoRunner}, NEW u \in Floor .. TTL
  PROVE  Row(t, r, u) \in LockRows
  BY DEF Row, LockRows

LEMMA LockFields ==
  ASSUME TypeOK
  PROVE  /\ lock \in LockRows /\ lock.task \in Tasks \cup {NoTask}
         /\ lock.by \in Runners \cup {NoRunner} /\ lock.until \in Floor .. TTL
  BY DEF TypeOK, LockRows

LEMMA NewLockType ==
  ASSUME TypeInv, NEW r \in Runners, task[r] \in Tasks
  PROVE  NewLock(r) \in LockRows
<1>1. TTL - age[r] \in Floor .. TTL
  BY SystemTaskAssumption DEF TypeInv, TypeOK, LoopTypeOK, Floor
<1> QED
  BY <1>1, RowType DEF NewLock

LEMMA ReleaseType ==
  ASSUME TypeOK, NEW t, NEW r, ReleaseSystemTaskLock(t, r)
  PROVE  lock' \in LockRows
<1>1. NoLock \in LockRows
  BY RowType, ConstantTypes DEF NoLock
<1> QED
  BY <1>1, LockFields DEF ReleaseSystemTaskLock

HandlerStates == [Runners -> [Tasks -> {"none"} \cup Live]]

LEMMA HandlerType ==
  ASSUME handler \in HandlerStates, NEW r \in Runners, NEW t \in Tasks,
         NEW h \in {"none"} \cup Live, handler' = [handler EXCEPT ![r][t] = h]
  PROVE  handler' \in HandlerStates
  BY DEF HandlerStates

LEMMA MarkType ==
  ASSUME TypeOK, NEW t, MarkSystemTaskLeaseExpired(t)
  PROVE  /\ status' \in [Tasks -> {"none", "pending", "running"} \cup Terminal]
         /\ quiet' \in 0 .. Interval
  BY SystemTaskAssumption DEF TypeOK, MarkSystemTaskLeaseExpired, Terminal

LEMMA LoopStepType ==
  ASSUME TypeInv, NEW r \in Runners, LoopStep(r)
  PROVE  TypeInv'
<1> USE DEF Claiming, PCs, Timed
<1>0. LoopInv
  BY DEF TypeInv, TypeOK, LoopInv
<1>1. CASE StartSystemTaskRunner(r)
  BY <1>0, <1>1, GotoType, LoopOnly DEF StartSystemTaskRunner
<1>2. CASE \E l \in {"stale", "sched", "find"} : RunPass(r, l)
  BY <1>0, <1>2, GotoType, LoopOnly DEF RunPass
<1>3. CASE StaleFind(r)
  <2>1. CASE \E l \in {"sched", "find"} : Return(r, l)
    BY <1>0, <1>3, <2>1, ReturnType, LoopOnly DEF StaleFind
  <2>2. CASE /\ pc' = [pc EXCEPT ![r] = "staleMark"]
             /\ seenTask' = [seenTask EXCEPT ![r] = lock.task]
             /\ seenBy' = [seenBy EXCEPT ![r] = lock.by]
             /\ UNCHANGED <<task, age>>
    BY <1>0, <1>3, <2>2, LockFields, LoopOnly
    DEF StaleFind, LoopInv, LoopTypeOK, ClaimTarget, TypeInv
  <2> QED
    BY <1>3, <2>1, <2>2 DEF StaleFind
<1>4. CASE StaleMark(r)
  BY <1>0, <1>4, GotoType, MarkType DEF StaleMark, TypeInv, TypeOK, LoopInv
<1>5. CASE StaleDelete(r)
  <2>1. LoopInv'
    BY <1>0, <1>5, ReturnType DEF StaleDelete
  <2>2. lock' \in LockRows
    <3>1. NoLock \in LockRows
      BY RowType, ConstantTypes DEF NoLock
    <3> QED
      BY <1>5, <3>1, LockFields DEF StaleDelete, TypeInv
  <2> QED
    BY <1>5, <2>1, <2>2 DEF StaleDelete, TypeInv, TypeOK, LoopInv
<1>6. CASE SchedulerRead(r)
  BY <1>0, <1>6, GotoType, LoopOnly DEF SchedulerRead
<1>7. CASE SchedulerCreate(r)
  <2>1. LoopInv'
    BY <1>0, <1>7, GotoType DEF SchedulerCreate
  <2> QED
    BY <1>7, <2>1 DEF SchedulerCreate, CreateSystemTask, TypeInv, TypeOK, LoopInv
<1>8. CASE FindPending(r)
  <2>1. CASE Return(r, "idle")
    BY <1>0, <1>8, <2>1, ReturnType, LoopOnly DEF FindPending
  <2>2. CASE \E t \in Tasks : /\ pc' = [pc EXCEPT ![r] = "claim"]
                              /\ task' = [task EXCEPT ![r] = t]
                              /\ UNCHANGED <<seenTask, seenBy, age>>
    BY <1>0, <1>8, <2>2, LoopOnly DEF FindPending, LoopInv, LoopTypeOK, ClaimTarget
  <2> QED
    BY <1>8, <2>1, <2>2 DEF FindPending
<1>9. CASE ClaimRead(r)
  BY <1>0, <1>9, GotoType, ReturnType, LoopOnly DEF ClaimRead, LoopInv, ClaimTarget
<1>10. CASE LockInsert(r)
  <2>1. task[r] \in Tasks
    BY <1>0, <1>10 DEF LockInsert, LoopInv, ClaimTarget
  <2>2. lock' \in LockRows
    BY <1>10, <2>1, NewLockType, LockFields DEF LockInsert, TypeInv
  <2>3. LoopInv'
    <3>1. CASE Goto(r, "start")
      BY <1>0, <2>1, <3>1, GotoType
    <3>2. CASE Return(r, "idle")
      BY <1>0, <3>2, ReturnType
    <3>3. CASE pc' = [pc EXCEPT ![r] = "steal"] /\ seenTask' = [seenTask EXCEPT ![r] = lock.task]
               /\ UNCHANGED <<task, seenBy, age>>
      BY <1>0, <2>1, <3>3, LockFields DEF LoopInv, LoopTypeOK, ClaimTarget, TypeInv
    <3> QED
      BY <1>10, <3>1, <3>2, <3>3 DEF LockInsert
  <2> QED
    BY <1>10, <2>2, <2>3 DEF LockInsert, TypeInv, TypeOK, LoopInv
<1>11. CASE LockSteal(r)
  <2>1. task[r] \in Tasks
    BY <1>0, <1>11 DEF LockSteal, LoopInv, ClaimTarget
  <2>2. lock' \in LockRows
    BY <1>11, <2>1, NewLockType, LockFields DEF LockSteal, TypeInv
  <2>3. LoopInv'
    BY <1>0, <1>11, <2>1, GotoType, ReturnType DEF LockSteal
  <2> QED
    BY <1>11, <2>2, <2>3 DEF LockSteal, TypeInv, TypeOK, LoopInv
<1>12. CASE ClaimExpireOld(r)
  <2>1. LoopInv'
    BY <1>0, <1>12, GotoType DEF ClaimExpireOld, LoopInv, ClaimTarget
  <2> QED
    BY <1>12, <2>1, MarkType DEF ClaimExpireOld, TypeInv, TypeOK, LoopInv
<1>13. CASE ClaimStart(r)
  <2>1. LoopInv'
    BY <1>0, <1>13, GotoType DEF ClaimStart, LoopInv, ClaimTarget
  <2> QED
    BY <1>13, <2>1 DEF ClaimStart, TypeInv, TypeOK, LoopInv
<1>14. CASE ClaimDispatch(r)
  <2>1. LoopInv'
    BY <1>0, <1>14, ReturnType DEF ClaimDispatch
  <2>2. handler' \in [Runners -> [Tasks -> {"none"} \cup Live]]
    BY <1>0, <1>14, HandlerType
    DEF ClaimDispatch, TypeInv, TypeOK, HandlerStates, Live, Releasing, LoopInv, ClaimTarget
  <2>3. starts' \in [Tasks -> Nat]
    BY <1>0, <1>14 DEF ClaimDispatch, TypeInv, TypeOK, LoopInv, ClaimTarget
  <2> QED
    BY <1>14, <2>1, <2>2, <2>3 DEF ClaimDispatch, TypeInv, TypeOK, LoopInv
<1>15. CASE ClaimRelease(r)
  <2>1. LoopInv'
    BY <1>0, <1>15, ReturnType DEF ClaimRelease
  <2> QED
    BY <1>15, <2>1, ReleaseType DEF ClaimRelease, TypeInv, TypeOK, LoopInv
<1> QED
  BY <1>1, <1>2, <1>3, <1>4, <1>5, <1>6, <1>7, <1>8, <1>9, <1>10, <1>11, <1>12,
     <1>13, <1>14, <1>15 DEF LoopStep

LEMMA NextType == TypeInv /\ [Next]_vars => TypeInv'
<1> SUFFICES ASSUME TypeInv, [Next]_vars PROVE TypeInv'
  OBVIOUS
<1>0. LoopInv
  BY DEF TypeInv, TypeOK, LoopInv
<1>1. CASE EnqueueSystemTask
  BY <1>1 DEF EnqueueSystemTask, CreateSystemTask, TypeInv, TypeOK, LoopTypeOK, ClaimTarget, loop
<1>2. CASE Tick
  <2>1. age' \in [Runners -> 0 .. MaxStall]
    BY <1>2, SystemTaskAssumption DEF Tick, TypeInv, TypeOK, LoopTypeOK
  <2>2. lock' \in LockRows
    BY <1>2, LockFields, RowType, ConstantTypes DEF Tick, TypeInv
  <2>3. quiet' \in 0 .. Interval
    BY <1>2, SystemTaskAssumption DEF Tick, TypeInv, TypeOK
  <2> QED
    BY <1>2, <2>1, <2>2, <2>3 DEF Tick, TypeInv, TypeOK, LoopTypeOK, ClaimTarget
<1>3. ASSUME NEW r \in Runners, LoopStep(r) PROVE TypeInv'
  BY <1>3, LoopStepType
<1>4. ASSUME NEW r \in Runners, RunnerDbError(r) PROVE TypeInv'
  <2>1. LoopInv'
    BY <1>0, <1>4, ReturnType, GotoType
    DEF RunnerDbError, Claiming, PCs, Timed, LoopInv, ClaimTarget
  <2>2. errors' \in 0 .. MaxErrors
    BY <1>4, SystemTaskAssumption DEF RunnerDbError, DbError, TypeInv, TypeOK
  <2> QED
    BY <1>4, <2>1, <2>2 DEF RunnerDbError, TypeInv, TypeOK, LoopInv
<1>5. ASSUME NEW r \in Runners, Crash(r) PROVE TypeInv'
  <2>1. LoopInv'
    BY <1>0, <1>5, ReturnType DEF Crash, Claiming, PCs
  <2> QED
    BY <1>5, <2>1 DEF Crash, TypeInv, TypeOK, LoopInv
<1>6. ASSUME NEW r \in Runners, NEW t \in Tasks, HandlerStep(r, t) PROVE TypeInv'
  <2>1. ASSUME NEW result \in Terminal, FinishSystemTask(r, t, result) PROVE TypeInv'
    <3>1. handler' \in HandlerStates
      BY <2>1, HandlerType DEF FinishSystemTask, TypeInv, TypeOK, HandlerStates, Live, Releasing, Releasing
    <3> QED
      BY <2>1, <3>1, SystemTaskAssumption
      DEF FinishSystemTask, TypeInv, TypeOK, LoopTypeOK, ClaimTarget, HandlerStates, loop
  <2>2. CASE FinishRelease(r, t)
    <3>1. handler' \in HandlerStates
      BY <2>2, HandlerType DEF FinishRelease, TypeInv, TypeOK, HandlerStates
    <3> QED
      BY <2>2, <3>1, ReleaseType
      DEF FinishRelease, TypeInv, TypeOK, LoopTypeOK, ClaimTarget, HandlerStates, loop
  <2> QED
    BY <1>6, <2>1, <2>2 DEF HandlerStep
<1>7. ASSUME NEW r \in Runners, NEW t \in Tasks,
             HandlerDbError(r, t) \/ HeartbeatDbError(r, t)
      PROVE  TypeInv'
  <2>1. handler' \in HandlerStates
    BY <1>7, HandlerType DEF HandlerDbError, HeartbeatDbError, TypeInv, TypeOK, HandlerStates, Live, Releasing, Releasing
  <2> QED
    BY <1>7, <2>1, SystemTaskAssumption
    DEF HandlerDbError, HeartbeatDbError, DbError, TypeInv, TypeOK, LoopTypeOK, ClaimTarget,
        HandlerStates, loop
<1>8. ASSUME NEW r \in Runners, NEW t \in Tasks, Heartbeat(r, t) PROVE TypeInv'
  <2>1. lock' \in LockRows
    <3>1. TTL \in Floor .. TTL
      BY ConstantTypes
    <3> QED
      BY <1>8, <3>1, LockFields, RowType DEF Heartbeat, TypeInv
  <2>2. handler' \in HandlerStates
    BY <1>8, HandlerType DEF Heartbeat, TypeInv, TypeOK, HandlerStates, Live, Releasing, Releasing
  <2> QED
    BY <1>8, <2>1, <2>2
    DEF Heartbeat, TypeInv, TypeOK, LoopTypeOK, ClaimTarget, HandlerStates, loop
<1>9. CASE UNCHANGED vars
  BY <1>9 DEF vars, loop, TypeInv, TypeOK, LoopTypeOK, ClaimTarget
<1> QED
  BY <1>1, <1>2, <1>3, <1>4, <1>5, <1>6, <1>7, <1>8, <1>9 DEF Next

\* Every reachable state is well typed: bounds on time, age and errors included.
THEOREM TypeCorrect == Spec => []TypeOK
<1>1. Spec => []TypeInv
  BY InitType, NextType, PTL DEF Spec
<1> QED
  BY <1>1, PTL DEF TypeInv

-----------------------------------------------------------------------------
(* Rows become active one at a time and in order; a dispatched handler is   *)
(* the only one of its row.                                                 *)

\* A row that exists has all earlier rows terminal.
RowOrder ==
    \A t, u \in Tasks : u < t /\ status[t] # "none" => status[u] \in Terminal

\* Before a claim has marked the row nobody works on it; afterwards only the
\* runner named in locked_by does, and it dispatches once.
Unclaimed(t) == status[t] \in {"none", "pending"}
Ownership ==
    /\ \A t \in Tasks : Unclaimed(t) => lockedBy[t] = NoRunner /\ starts[t] = 0
    /\ \A r \in Runners : pc[r] = "reread" => lockedBy[task[r]] = r /\ starts[task[r]] = 0
    /\ \A t \in Tasks : starts[t] <= 1
    /\ \A r \in Runners, t \in Tasks :
         handler[r][t] # "none" => lockedBy[t] = r /\ starts[t] = 1

RowInv == TypeInv /\ RowOrder /\ Ownership

LEMMA InitRow == Init => RowInv
  BY InitType DEF Init, RowInv, RowOrder, Ownership, Unclaimed

LEMMA CreateOrder ==
  ASSUME TypeInv, RowOrder, Ownership, CreateSystemTask,
         UNCHANGED <<lockedBy, starts, handler, task>>,
         \A r \in Runners : pc'[r] = "reread" => pc[r] = "reread"
  PROVE  RowOrder' /\ Ownership'
<1>1. RowOrder'
  BY DEF CreateSystemTask, RowOrder, Active, TypeInv, TypeOK, Terminal, Tasks
<1>2. Ownership'
  BY DEF CreateSystemTask, Ownership, Unclaimed, TypeInv, TypeOK, ClaimTarget, Claiming
<1> QED
  BY <1>1, <1>2
\* A step that neither creates, claims nor dispatches: rows may end, handlers
\* may stop, no claim reaches its dispatch.
Winding ==
    /\ \A t \in Tasks : status'[t] = status[t] \/ (status[t] = "running" /\ status'[t] \in Terminal)
    /\ \A r \in Runners, t \in Tasks : handler'[r][t] # "none" => handler[r][t] # "none"
    /\ \A r \in Runners : pc'[r] = "reread" => pc[r] = "reread" /\ task'[r] = task[r]
    /\ UNCHANGED <<lockedBy, starts>>

LEMMA WindingKeepsRows ==
  ASSUME TypeInv, RowOrder, Ownership, Winding
  PROVE  RowOrder' /\ Ownership'
<1>1. RowOrder'
  BY DEF Winding, RowOrder, Terminal
<1>2. Ownership'
  BY DEF Winding, Ownership, Unclaimed, Terminal
<1> QED
  BY <1>1, <1>2

LEMMA MarkWinds ==
  ASSUME TypeInv, NEW t, MarkSystemTaskLeaseExpired(t)
  PROVE  \A u \in Tasks : status'[u] = status[u] \/ (status[u] = "running" /\ status'[u] \in Terminal)
  BY DEF MarkSystemTaskLeaseExpired, Terminal

LEMMA LoopWinds ==
  ASSUME TypeInv, NEW r \in Runners, LoopStep(r),
         ~SchedulerCreate(r), ~ClaimStart(r), ~ClaimDispatch(r)
  PROVE  Winding
<1> USE DEF Winding, TypeInv, TypeOK, LoopTypeOK, Goto, Return
<1>1. CASE StartSystemTaskRunner(r)
  BY <1>1 DEF StartSystemTaskRunner
<1>2. CASE \E l \in {"stale", "sched", "find"} : RunPass(r, l)
  BY <1>2 DEF RunPass
<1>3. CASE StaleFind(r)
  BY <1>3 DEF StaleFind
<1>4. CASE StaleMark(r)
  BY <1>4, MarkWinds DEF StaleMark
<1>5. CASE StaleDelete(r)
  BY <1>5 DEF StaleDelete
<1>6. CASE SchedulerRead(r)
  BY <1>6 DEF SchedulerRead
<1>7. CASE FindPending(r)
  BY <1>7 DEF FindPending
<1>8. CASE ClaimRead(r)
  BY <1>8 DEF ClaimRead
<1>9. CASE LockInsert(r)
  BY <1>9 DEF LockInsert
<1>10. CASE LockSteal(r)
  BY <1>10 DEF LockSteal
<1>11. CASE ClaimExpireOld(r)
  BY <1>11, MarkWinds DEF ClaimExpireOld
<1>12. CASE ClaimRelease(r)
  BY <1>12 DEF ClaimRelease
<1> QED
  BY <1>1, <1>2, <1>3, <1>4, <1>5, <1>6, <1>7, <1>8, <1>9, <1>10, <1>11, <1>12 DEF LoopStep

LEMMA HandlerWinds ==
  ASSUME TypeInv, NEW r \in Runners, NEW t \in Tasks,
         \/ HandlerStep(r, t) \/ HandlerDbError(r, t)
         \/ Heartbeat(r, t) \/ HeartbeatDbError(r, t)
  PROVE  Winding
<1> USE DEF Winding, TypeInv, TypeOK, LoopTypeOK, loop
<1>1. ASSUME NEW result \in Terminal, FinishSystemTask(r, t, result) PROVE Winding
  <2>1. \A u \in Tasks : \/ status'[u] = status[u]
                         \/ status[u] = "running" /\ status'[u] \in Terminal
    BY <1>1 DEF FinishSystemTask
  <2>2. \A q \in Runners, u \in Tasks : handler'[q][u] # "none" => handler[q][u] # "none"
    BY <1>1 DEF FinishSystemTask
  <2>3. UNCHANGED <<pc, task, lockedBy, starts>>
    BY <1>1 DEF FinishSystemTask
  <2> QED
    BY <2>1, <2>2, <2>3
<1>2. CASE FinishRelease(r, t)
  BY <1>2 DEF FinishRelease
<1>3. CASE HandlerDbError(r, t)
  BY <1>3 DEF HandlerDbError, Live, Releasing
<1>4. CASE Heartbeat(r, t)
  BY <1>4 DEF Heartbeat
<1>5. CASE HeartbeatDbError(r, t)
  BY <1>5 DEF HeartbeatDbError
<1> QED
  BY <1>1, <1>2, <1>3, <1>4, <1>5 DEF HandlerStep

LEMMA NextRow == RowInv /\ [Next]_vars => RowInv'
<1> SUFFICES ASSUME RowInv, [Next]_vars PROVE RowOrder' /\ Ownership'
  BY NextType DEF RowInv
<1> USE DEF RowInv
<1>1. CASE EnqueueSystemTask
  BY <1>1, CreateOrder DEF EnqueueSystemTask, loop
<1>2. CASE Tick
  BY <1>2, WindingKeepsRows DEF Tick, Winding
<1>3. ASSUME NEW r \in Runners, LoopStep(r) PROVE RowOrder' /\ Ownership'
  <2>1. CASE SchedulerCreate(r)
    BY <2>1, CreateOrder DEF SchedulerCreate, Goto, TypeInv, TypeOK, LoopTypeOK
  <2>2. CASE ClaimStart(r)
    <3>1. task[r] \in Tasks
      BY <2>2 DEF ClaimStart, TypeInv, ClaimTarget, Claiming
    <3>2. RowOrder'
      BY <2>2, <3>1 DEF ClaimStart, RowOrder, TypeInv, TypeOK, Terminal
    <3>3. CASE status[task[r]] = "pending"
      <4>1. /\ status' = [status EXCEPT ![task[r]] = "running"]
            /\ lockedBy' = [lockedBy EXCEPT ![task[r]] = r]
            /\ pc' = [pc EXCEPT ![r] = "reread"]
            /\ UNCHANGED <<task, starts, handler>>
        BY <2>2, <3>3 DEF ClaimStart, Goto
      <4> QED
        <5>1. \A t \in Tasks : Unclaimed(t)' => Unclaimed(t) /\ t # task[r]
          BY <3>1, <4>1 DEF Unclaimed, TypeInv, TypeOK
        <5>2. lockedBy[task[r]] = NoRunner /\ starts[task[r]] = 0
          BY <3>1, <3>3 DEF Ownership, Unclaimed
        <5>3. \A q \in Runners : handler[q][task[r]] = "none"
          BY <3>1, <5>2 DEF Ownership
        <5>4. \A q \in Runners : pc'[q] = "reread" =>
                  lockedBy'[task[q]] = q /\ starts[task[q]] = 0
          BY <3>1, <4>1, <5>2, SystemTaskAssumption
          DEF Ownership, TypeInv, TypeOK, LoopTypeOK, ClaimTarget, Claiming
        <5> QED
          BY <3>1, <3>2, <4>1, <5>1, <5>2, <5>3, <5>4 DEF Ownership, TypeInv, TypeOK
    <3>4. CASE status[task[r]] # "pending"
      BY <2>2, <3>4, WindingKeepsRows DEF ClaimStart, Goto, Winding, TypeInv, TypeOK, LoopTypeOK
    <3> QED
      BY <3>2, <3>3, <3>4
  <2>3. CASE ClaimDispatch(r)
    <3>1. task[r] \in Tasks
      BY <2>3 DEF ClaimDispatch, TypeInv, ClaimTarget, Claiming
    <3>2. RowOrder'
      BY <2>3 DEF ClaimDispatch, RowOrder
    <3>3. /\ starts' = [starts EXCEPT ![task[r]] = 1]
          /\ handler' = [handler EXCEPT ![r][task[r]] = "running"]
          /\ UNCHANGED <<status, lockedBy>>
          /\ \A q \in Runners : pc'[q] = "reread" => q # r /\ pc[q] = "reread" /\ task'[q] = task[q]
      <4>1. starts[task[r]] + 1 = 1
        BY <2>3 DEF ClaimDispatch, Ownership
      <4> QED
        BY <2>3, <4>1 DEF ClaimDispatch, Return, TypeInv, TypeOK, LoopTypeOK
    <3>4. /\ lockedBy[task[r]] = r /\ ~Unclaimed(task[r])
      BY <2>3, <3>1, SystemTaskAssumption DEF ClaimDispatch, Ownership
    <3> QED
      BY <3>1, <3>2, <3>3, <3>4, SystemTaskAssumption
      DEF Ownership, Unclaimed, TypeInv, TypeOK, LoopTypeOK, ClaimTarget, Claiming
  <2> QED
    BY <1>3, <2>1, <2>2, <2>3, LoopWinds, WindingKeepsRows
<1>4. ASSUME NEW r \in Runners, RunnerDbError(r) \/ Crash(r) PROVE RowOrder' /\ Ownership'
  <2>1. Winding
    <3>1. CASE RunnerDbError(r)
      BY <3>1 DEF RunnerDbError, Goto, Return, Winding, TypeInv, TypeOK, LoopTypeOK
    <3>2. CASE Crash(r)
      BY <3>2 DEF Crash, Return, Winding, TypeInv, TypeOK, LoopTypeOK
    <3> QED
      BY <1>4, <3>1, <3>2
  <2> QED
    BY <2>1, WindingKeepsRows
<1>5. ASSUME NEW r \in Runners, NEW t \in Tasks,
             \/ HandlerStep(r, t) \/ HandlerDbError(r, t)
             \/ Heartbeat(r, t) \/ HeartbeatDbError(r, t)
      PROVE  RowOrder' /\ Ownership'
  BY <1>5, HandlerWinds, WindingKeepsRows
<1>6. CASE UNCHANGED vars
  BY <1>6, WindingKeepsRows DEF vars, loop, Winding
<1> QED
  BY <1>1, <1>2, <1>3, <1>4, <1>5, <1>6 DEF Next

LEMMA RowInvariant == Spec => []RowInv
  BY InitRow, NextRow, PTL DEF Spec

\* At most one row of the type is pending or running, whoever creates rows.
THEOREM OneActive == Spec => []OneActiveRow
<1>1. RowInv => OneActiveRow
  BY DEF RowInv, RowOrder, OneActiveRow, Active, Tasks, Terminal, TypeInv, TypeOK
<1> QED
  BY <1>1, RowInvariant, PTL

\* A row is executed by at most one runner and at most once.
THEOREM OneRunner == Spec => []OneRunnerPerTask
<1>1. RowInv => OneRunnerPerTask
  BY DEF RowInv, Ownership, OneRunnerPerTask
<1> QED
  BY <1>1, RowInvariant, PTL

\* A finished row is never written again.
THEOREM Finality == Spec => TerminalIsFinal
<1>1. RowInv /\ [Next]_vars => [\A t \in Tasks : status[t] \in Terminal => status'[t] = status[t]]_vars
  <2> SUFFICES ASSUME RowInv, Next
               PROVE  \A t \in Tasks : status[t] \in Terminal => status'[t] = status[t]
    BY DEF vars
  <2> USE DEF RowInv
  <2>1. ASSUME CreateSystemTask
        PROVE  \A t \in Tasks : status[t] \in Terminal => status'[t] = status[t]
    BY <2>1 DEF CreateSystemTask, Terminal
  <2>2. ASSUME Winding
        PROVE  \A t \in Tasks : status[t] \in Terminal => status'[t] = status[t]
    BY <2>2 DEF Winding, Terminal
  <2>3. ASSUME NEW r \in Runners, ClaimStart(r)
        PROVE  \A t \in Tasks : status[t] \in Terminal => status'[t] = status[t]
    BY <2>3 DEF ClaimStart, Terminal, TypeInv, TypeOK
  <2>4. ASSUME NEW r \in Runners, RunnerDbError(r) \/ Crash(r) \/ ClaimDispatch(r)
        PROVE  status' = status
    BY <2>4 DEF RunnerDbError, Crash, ClaimDispatch
  <2> QED
    BY <2>1, <2>2, <2>3, <2>4, LoopWinds, HandlerWinds
    DEF Next, EnqueueSystemTask, Tick, SchedulerCreate
<1> QED
  BY <1>1, RowInvariant, PTL DEF Spec, TerminalIsFinal

-----------------------------------------------------------------------------
(* The tables implement the abstract life cycle.                            *)

LEMMA AbsCreate ==
  ASSUME RowInv, CreateSystemTask, UNCHANGED lockedBy
  PROVE  Abs!Next \/ UNCHANGED <<status, lockedBy>>
<1>1. CASE \E u \in Tasks : Active(u)
  BY <1>1 DEF CreateSystemTask, RowInv, TypeInv, TypeOK
<1>2. CASE \A t \in Tasks : status[t] = "none" => \E u \in Tasks : u < t /\ status[u] = "none"
  BY <1>2 DEF CreateSystemTask, RowInv, TypeInv, TypeOK
<1>3. ASSUME \A u \in Tasks : ~Active(u),
             NEW t \in Tasks, status[t] = "none", \A u \in Tasks : u < t => status[u] # "none"
      PROVE  Abs!Create(t)
  <2>1. \A u \in Tasks : u > t => status[u] = "none"
    BY <1>3 DEF RowInv, RowOrder, Tasks, Terminal
  <2>2. \A u \in Tasks : u < t => status[u] \in {"succeeded", "failed"}
    BY <1>3 DEF RowInv, TypeInv, TypeOK, Active, Terminal
  <2>3. status' = [status EXCEPT ![t] = "pending"]
    <3>1. \A u \in Tasks : u # t => ~(status[u] = "none" /\ \A v \in Tasks : v < u => status[v] # "none")
      BY <1>3, <2>2 DEF Tasks
    <3>2. status' = [u \in Tasks |-> IF u = t THEN "pending" ELSE status[u]]
      BY <1>3, <3>1 DEF CreateSystemTask
    <3> QED
      BY <1>3, <3>2 DEF RowInv, TypeInv, TypeOK
  <2> QED
    BY <1>3, <2>1, <2>2, <2>3 DEF Abs!Create, Abs!Tasks, Tasks
<1> QED
  BY <1>1, <1>2, <1>3 DEF Abs!Next, Abs!Tasks, Tasks

LEMMA AbsMark ==
  ASSUME RowInv, NEW t, MarkSystemTaskLeaseExpired(t), UNCHANGED lockedBy
  PROVE  Abs!Next \/ UNCHANGED <<status, lockedBy>>
<1>1. CASE t \in Tasks /\ status[t] = "running"
  <2>1. status' = [status EXCEPT ![t] = "failed"]
    BY <1>1 DEF MarkSystemTaskLeaseExpired, RowInv, TypeInv, TypeOK
  <2> QED
    BY <1>1, <2>1 DEF Abs!Next, Abs!End, Abs!Tasks, Tasks
<1>2. CASE ~(t \in Tasks /\ status[t] = "running")
  BY <1>2 DEF MarkSystemTaskLeaseExpired, RowInv, TypeInv, TypeOK
<1> QED
  BY <1>1, <1>2

LEMMA AbsStart ==
  ASSUME RowInv, NEW r \in Runners, ClaimStart(r)
  PROVE  Abs!Next \/ UNCHANGED <<status, lockedBy>>
<1>1. task[r] \in Tasks
  BY DEF ClaimStart, RowInv, TypeInv, ClaimTarget, Claiming
<1>2. CASE status[task[r]] = "pending"
  <2>1. lockedBy[task[r]] = NoRunner
    BY <1>1, <1>2 DEF RowInv, Ownership, Unclaimed
  <2> QED
    BY <1>1, <1>2, <2>1 DEF ClaimStart, Abs!Next, Abs!Take, Abs!Tasks, Tasks
<1>3. CASE status[task[r]] # "pending"
  BY <1>3 DEF ClaimStart
<1> QED
  BY <1>2, <1>3

LEMMA AbsFinish ==
  ASSUME RowInv, NEW r \in Runners, NEW t \in Tasks, HandlerStep(r, t)
  PROVE  Abs!Next \/ UNCHANGED <<status, lockedBy>>
<1>1. ASSUME NEW result \in Terminal, FinishSystemTask(r, t, result)
      PROVE  Abs!Next \/ UNCHANGED <<status, lockedBy>>
  BY <1>1 DEF FinishSystemTask, Abs!Next, Abs!End, Abs!Tasks, Tasks, Terminal
<1>2. CASE FinishRelease(r, t)
  BY <1>2 DEF FinishRelease
<1> QED
  BY <1>1, <1>2 DEF HandlerStep

\* The lock table, the leases and the conditional updates together implement
\* SystemTaskAbs: rows in order, one runner per row, one end per row.
THEOREM Refinement == Spec => AbsSpec
<1>1. Init => Abs!Init
  BY DEF Init, Abs!Init, Tasks, Abs!Tasks
<1>2. RowInv /\ [Next]_vars => [Abs!Next]_(Abs!absVars)
  <2> SUFFICES ASSUME RowInv, [Next]_vars
               PROVE  Abs!Next \/ UNCHANGED <<status, lockedBy>>
    BY DEF Abs!absVars
  <2>1. CASE EnqueueSystemTask
    BY <2>1, AbsCreate DEF EnqueueSystemTask
  <2>2. ASSUME NEW r \in Runners, LoopStep(r)
        PROVE  Abs!Next \/ UNCHANGED <<status, lockedBy>>
    BY <2>2, AbsCreate, AbsMark, AbsStart
    DEF LoopStep, SchedulerCreate, StaleMark, ClaimExpireOld, StartSystemTaskRunner, RunPass,
        StaleFind, StaleDelete, SchedulerRead, FindPending, ClaimRead, LockInsert, LockSteal,
        ClaimDispatch, ClaimRelease
  <2>3. ASSUME NEW r \in Runners, NEW t \in Tasks, HandlerStep(r, t)
        PROVE  Abs!Next \/ UNCHANGED <<status, lockedBy>>
    BY <2>3, AbsFinish
  <2>4. ASSUME NEW r \in Runners, NEW t \in Tasks,
               HandlerDbError(r, t) \/ Heartbeat(r, t) \/ HeartbeatDbError(r, t)
        PROVE  UNCHANGED <<status, lockedBy>>
    BY <2>4 DEF HandlerDbError, Heartbeat, HeartbeatDbError
  <2>5. ASSUME NEW r \in Runners, RunnerDbError(r) \/ Crash(r)
        PROVE  UNCHANGED <<status, lockedBy>>
    BY <2>5 DEF RunnerDbError, Crash
  <2> QED
    BY <2>1, <2>2, <2>3, <2>4, <2>5 DEF Next, Tick, vars
<1> QED
  BY <1>1, <1>2, RowInvariant, PTL DEF Spec, AbsSpec, Abs!Spec

-----------------------------------------------------------------------------
(* While no claim takes longer than the lease, every running row has its    *)
(* lock row.  The claim takes the lock before it marks the row, so the      *)
(* invariant must say why nobody can take the lock away in between          *)
(* (ClaimCovered), why whoever saw an expired lock did not see that of a    *)
(* running row (StealHarmless, DeleteHarmless), and why a release is never  *)
(* that of a running row (NotMine, Released).                               *)

ClaimCovered ==
    \A r \in Runners : pc[r] \in {"expire", "start"} =>
        HasLock(task[r], r) /\ lock.until >= TTL - age[r]
StealHarmless ==
    \A r \in Runners, t \in Tasks : pc[r] \in {"lock", "steal"} /\ status[t] = "running" =>
        lock.until >= -age[r]
DeleteHarmless ==
    \A r \in Runners : /\ pc[r] = "staleDelete" /\ HasLock(seenTask[r], seenBy[r])
                      /\ lock.until < -age[r]
                      => status[seenTask[r]] # "running"
NotMine ==
    \A r \in Runners : pc[r] \in {"lock", "steal", "expire", "start", "release"} =>
        lockedBy[task[r]] # r
Released ==
    \A r \in Runners, t \in Tasks : handler[r][t] \in Releasing => status[t] \in Terminal

CoverInv ==
    ClaimCovered /\ RunningHasLock /\ StealHarmless /\ DeleteHarmless /\ NotMine /\ Released

LEMMA InitCover == Init => CoverInv
  BY DEF Init, CoverInv, ClaimCovered, RunningHasLock, StealHarmless, DeleteHarmless, NotMine, Released, Releasing

LEMMA Facts ==
  ASSUME TypeInv
  PROVE  /\ pc \in [Runners -> PCs] /\ task \in [Runners -> Tasks \cup {NoTask}]
         /\ seenTask \in [Runners -> Tasks \cup {NoTask}]
         /\ seenBy \in [Runners -> Runners \cup {NoRunner}]
         /\ DOMAIN age = Runners /\ DOMAIN status = Tasks /\ DOMAIN lockedBy = Tasks
         /\ \A q \in Runners : age[q] \in Int /\ 0 <= age[q] /\ age[q] <= MaxStall
         /\ lock.until \in Int /\ lock.task \in Tasks \cup {NoTask}
         /\ NoTask \notin Tasks /\ TTL \in Nat /\ MaxStall \in Nat
  BY LockFields, ConstantTypes DEF TypeInv, TypeOK, LoopTypeOK, Tasks, NoTask

\* The loop moves to a place outside the claim and the stale-lock pass, or
\* keeps its locals; tables and handlers are untouched.
LEMMA CoverLoopOnly ==
  ASSUME TypeInv, CoverInv, UNCHANGED <<status, lockedBy, lock, handler>>, NEW r \in Runners,
         \/ \E l \in PCs \ {"lock", "steal", "expire", "start", "release", "staleDelete"} :
              Return(r, l) \/ Goto(r, l)
         \/ pc[r] \in {"expire", "start"} /\ Goto(r, "release")
  PROVE  CoverInv'
<1> USE Facts DEF Return, Goto
<1>1. ClaimCovered'
  BY DEF CoverInv, ClaimCovered, HasLock
<1>2. RunningHasLock'
  BY DEF CoverInv, RunningHasLock, HasLock
<1>3. StealHarmless'
  BY DEF CoverInv, StealHarmless
<1>4. DeleteHarmless'
  BY DEF CoverInv, DeleteHarmless, HasLock
<1>5. NotMine'
  BY DEF CoverInv, NotMine
<1>6. Released'
  BY DEF CoverInv, Released
<1> QED
  BY <1>1, <1>2, <1>3, <1>4, <1>5, <1>6 DEF CoverInv

\* A row ends or is created; lock and loop as they were.
RowsOnly ==
    /\ \A t \in Tasks : \/ status'[t] = status[t]
                        \/ status[t] = "running" /\ status'[t] \in Terminal
                        \/ status[t] = "none" /\ status'[t] = "pending"
    /\ \A r \in Runners, t \in Tasks :
         handler'[r][t] \in Releasing => handler[r][t] \in Releasing \/ status'[t] \in Terminal
    /\ UNCHANGED <<lockedBy, lock, pc, task, seenTask, seenBy, age>>

LEMMA CoverRows ==
  ASSUME RowInv, CoverInv, RowsOnly
  PROVE  CoverInv'
<1> USE Facts DEF RowInv, RowsOnly
<1>1. ClaimCovered'
  BY DEF CoverInv, ClaimCovered, HasLock
<1>2. RunningHasLock'
  BY DEF CoverInv, RunningHasLock, HasLock, Terminal
<1>3. StealHarmless'
  BY DEF CoverInv, StealHarmless, Terminal
<1>4. DeleteHarmless'
  <2> SUFFICES ASSUME NEW r \in Runners, pc[r] = "staleDelete", HasLock(seenTask[r], seenBy[r]),
                      lock.until < -age[r]
               PROVE  status'[seenTask[r]] # "running"
    BY DEF DeleteHarmless, HasLock
  <2>1. seenTask[r] \in Tasks /\ status[seenTask[r]] # "running"
    BY DEF CoverInv, DeleteHarmless, HasLock
  <2> QED
    BY <2>1 DEF Terminal
<1>5. NotMine'
  BY DEF CoverInv, NotMine
<1>6. Released'
  BY DEF CoverInv, Released, Terminal
<1> QED
  BY <1>1, <1>2, <1>3, <1>4, <1>5, <1>6 DEF CoverInv

LEMMA TickCover ==
  ASSUME MaxStall <= TTL, TypeInv, CoverInv, Tick
  PROVE  CoverInv'
<1> USE Facts
<1>1. lock'.task = lock.task /\ lock'.by = lock.by
      /\ lock'.until = (IF lock.task # NoTask /\ lock.until > Floor THEN lock.until - 1 ELSE lock.until)
  BY DEF Tick, Row
<1>2. \A r \in Runners : age'[r] = IF pc[r] \in Timed THEN age[r] + 1 ELSE age[r]
  BY DEF Tick
<1>3. \A r \in Runners : pc[r] \in Timed => age[r] < MaxStall
  BY DEF Tick
<1>4. UNCHANGED <<status, lockedBy, pc, task, seenTask, seenBy, handler>>
  BY DEF Tick
<1>5. Floor = -(MaxStall + 1)
  BY DEF Floor
<1>6. ClaimCovered'
  BY <1>1, <1>2, <1>3, <1>4, <1>5 DEF CoverInv, ClaimCovered, HasLock, Timed
<1>7. RunningHasLock'
  BY <1>1, <1>4 DEF CoverInv, RunningHasLock, HasLock
<1>8. StealHarmless'
  BY <1>1, <1>2, <1>3, <1>4, <1>5 DEF CoverInv, StealHarmless, Timed
<1>9. DeleteHarmless'
  BY <1>1, <1>2, <1>3, <1>4, <1>5 DEF CoverInv, DeleteHarmless, HasLock, Timed
<1>10. NotMine' /\ Released'
  BY <1>4 DEF CoverInv, NotMine, Released
<1> QED
  BY <1>6, <1>7, <1>8, <1>9, <1>10 DEF CoverInv

\* Nothing is running while a row is pending.
LEMMA PendingAlone ==
  ASSUME RowInv, NEW t \in Tasks, status[t] = "pending"
  PROVE  \A u \in Tasks : status[u] # "running"
  BY DEF RowInv, RowOrder, Tasks, Terminal

\* The lock row is replaced by a new one, or deleted, while nothing runs.
LEMMA LockIdle ==
  ASSUME RowInv, CoverInv, \A t \in Tasks : status[t] # "running", NEW r \in Runners,
         UNCHANGED <<status, lockedBy, handler>>,
         \A q \in Runners \ {r} : pc[q] \notin {"expire", "start"},
         \/ lock' = NoLock /\ \E l \in {"sched", "find", "idle"} : Return(r, l)
         \/ /\ pc[r] \in {"lock", "steal"} /\ lock' = NewLock(r)
            /\ \E l \in {"expire", "start"} : Goto(r, l)
  PROVE  CoverInv'
<1> USE Facts DEF RowInv, Return, Goto
<1>1. ClaimCovered'
  BY DEF CoverInv, ClaimCovered, HasLock, NewLock, Row, TypeInv, ClaimTarget, Claiming
<1>2. RunningHasLock' /\ StealHarmless'
  BY DEF RunningHasLock, StealHarmless
<1>3. DeleteHarmless'
  BY DEF CoverInv, DeleteHarmless, HasLock, NoLock, Row
<1>4. NotMine'
  BY DEF CoverInv, NotMine
<1>5. Released'
  BY DEF CoverInv, Released
<1> QED
  BY <1>1, <1>2, <1>3, <1>4, <1>5 DEF CoverInv

LEMMA LoopCover ==
  ASSUME MaxStall <= TTL, RowInv, CoverInv, NEW r \in Runners, LoopStep(r)
  PROVE  CoverInv'
<1> USE Facts DEF RowInv
<1>0. ASSUME NEW q \in Runners, pc[q] \in {"expire", "start"}
      PROVE  lock.task # NoTask /\ lock.by = q /\ lock.until >= 0
  BY <1>0 DEF CoverInv, ClaimCovered, HasLock
<1>1. CASE \/ StartSystemTaskRunner(r) \/ SchedulerRead(r)
           \/ \E l \in {"stale", "sched", "find"} : RunPass(r, l)
  BY <1>1, CoverLoopOnly DEF StartSystemTaskRunner, RunPass, SchedulerRead, PCs, Timed
<1>2. CASE StaleFind(r)
  <2>1. CASE \E l \in {"sched", "find"} : Return(r, l)
    BY <1>2, <2>1, CoverLoopOnly DEF StaleFind, PCs, Timed
  <2>2. CASE /\ pc' = [pc EXCEPT ![r] = "staleMark"]
             /\ seenTask' = [seenTask EXCEPT ![r] = lock.task]
             /\ seenBy' = [seenBy EXCEPT ![r] = lock.by]
             /\ UNCHANGED <<task, age>>
    <3>1. UNCHANGED <<status, lockedBy, lock, handler>>
      BY <1>2 DEF StaleFind
    <3> QED
      BY <2>2, <3>1 DEF CoverInv, ClaimCovered, RunningHasLock, StealHarmless, DeleteHarmless,
                        NotMine, Released, HasLock
  <2> QED
    BY <1>2, <2>1, <2>2 DEF StaleFind
<1>3. CASE StaleMark(r)
  <2>0. /\ \A t \in Tasks : status'[t] = IF t = seenTask[r] /\ status[t] = "running"
                                         THEN "failed" ELSE status[t]
        /\ pc' = [pc EXCEPT ![r] = "staleDelete"]
        /\ UNCHANGED <<task, seenTask, seenBy, age, lockedBy, lock, handler>>
    BY <1>3 DEF StaleMark, MarkSystemTaskLeaseExpired, Goto
  <2>1. ClaimCovered' /\ NotMine'
    BY <2>0 DEF CoverInv, ClaimCovered, NotMine, HasLock
  <2>2. RunningHasLock' /\ StealHarmless' /\ Released'
    BY <2>0 DEF CoverInv, RunningHasLock, StealHarmless, Released, HasLock, Terminal
  <2>3. DeleteHarmless'
    BY <2>0 DEF CoverInv, DeleteHarmless, HasLock
  <2> QED
    BY <2>1, <2>2, <2>3 DEF CoverInv
<1>4. CASE StaleDelete(r)
  <2>1. CASE HasLock(seenTask[r], seenBy[r]) /\ lock.until < -age[r]
    <3>1. \A t \in Tasks : status[t] # "running"
      BY <1>4, <2>1 DEF StaleDelete, CoverInv, DeleteHarmless, RunningHasLock, HasLock
    <3>2. \A q \in Runners : pc[q] \notin {"expire", "start"}
      BY <1>0, <2>1
    <3> QED
      BY <1>4, <2>1, <3>1, <3>2, LockIdle DEF StaleDelete
  <2>2. CASE ~(HasLock(seenTask[r], seenBy[r]) /\ lock.until < -age[r])
    BY <1>4, <2>2, CoverLoopOnly DEF StaleDelete, PCs, Timed
  <2> QED
    BY <2>1, <2>2
<1>5. CASE SchedulerCreate(r)
  <2>0. /\ \A t \in Tasks : status'[t] = status[t] \/ (status[t] = "none" /\ status'[t] = "pending")
        /\ pc' = [pc EXCEPT ![r] = "find"]
        /\ UNCHANGED <<task, seenTask, seenBy, age, lockedBy, lock, handler>>
    BY <1>5 DEF SchedulerCreate, CreateSystemTask, Goto
  <2>1. ClaimCovered' /\ NotMine'
    BY <2>0 DEF CoverInv, ClaimCovered, NotMine, HasLock
  <2>2. RunningHasLock' /\ StealHarmless' /\ Released'
    BY <2>0 DEF CoverInv, RunningHasLock, StealHarmless, Released, HasLock, Terminal
  <2>3. DeleteHarmless'
    BY <2>0 DEF CoverInv, DeleteHarmless, HasLock
  <2> QED
    BY <2>1, <2>2, <2>3 DEF CoverInv
<1>6. CASE FindPending(r)
  <2>1. CASE Return(r, "idle")
    BY <1>6, <2>1, CoverLoopOnly DEF FindPending, PCs
  <2>2. CASE \E t \in Tasks : /\ pc' = [pc EXCEPT ![r] = "claim"]
                              /\ task' = [task EXCEPT ![r] = t]
                              /\ UNCHANGED <<seenTask, seenBy, age>>
    <3>1. UNCHANGED <<status, lockedBy, lock, handler>>
      BY <1>6 DEF FindPending
    <3> QED
      BY <2>2, <3>1 DEF CoverInv, ClaimCovered, RunningHasLock, StealHarmless, DeleteHarmless,
                        NotMine, Released, HasLock
  <2> QED
    BY <1>6, <2>1, <2>2 DEF FindPending
<1>7. CASE ClaimRead(r)
  <2>1. CASE status[task[r]] = "pending"
    <3>1. pc' = [pc EXCEPT ![r] = "lock"]
          /\ UNCHANGED <<task, seenTask, seenBy, age, status, lockedBy, lock, handler>>
      BY <1>7, <2>1 DEF ClaimRead, Goto
    <3>2. task[r] \in Tasks
      BY <1>7 DEF ClaimRead, TypeInv, ClaimTarget, Claiming
    <3>3. \A t \in Tasks : status[t] # "running"
      BY <2>1, <3>2, PendingAlone
    <3>4. lockedBy[task[r]] # r
      BY <2>1, <3>2, SystemTaskAssumption DEF Ownership, Unclaimed
    <3> QED
      BY <3>1, <3>2, <3>3, <3>4 DEF CoverInv, ClaimCovered, RunningHasLock, StealHarmless,
                                    DeleteHarmless, NotMine, Released, HasLock
  <2>2. CASE status[task[r]] # "pending"
    BY <1>7, <2>2, CoverLoopOnly DEF ClaimRead, PCs
  <2> QED
    BY <2>1, <2>2
<1>8. CASE LockInsert(r)
  <2>1. CASE lock.task = NoTask
    <3>1. \A t \in Tasks : status[t] # "running"
      BY <2>1 DEF CoverInv, RunningHasLock, HasLock
    <3>2. \A q \in Runners : pc[q] \notin {"expire", "start"}
      BY <1>0, <2>1
    <3> QED
      BY <1>8, <2>1, <3>1, <3>2, LockIdle DEF LockInsert
  <2>2. CASE lock.task # NoTask /\ lock.until >= -age[r]
    BY <1>8, <2>2, CoverLoopOnly DEF LockInsert, PCs
  <2>3. CASE lock.task # NoTask /\ lock.until < -age[r]
    <3>1. /\ pc[r] = "lock" /\ pc' = [pc EXCEPT ![r] = "steal"]
          /\ seenTask' = [seenTask EXCEPT ![r] = lock.task]
          /\ UNCHANGED <<lock, task, seenBy, age, status, lockedBy, handler>>
      BY <1>8, <2>3 DEF LockInsert
    <3>2. ClaimCovered' /\ NotMine'
      BY <3>1 DEF CoverInv, ClaimCovered, NotMine, HasLock
    <3>3. RunningHasLock' /\ StealHarmless' /\ Released'
      BY <3>1 DEF CoverInv, RunningHasLock, StealHarmless, Released, HasLock
    <3>4. DeleteHarmless'
      BY <3>1 DEF CoverInv, DeleteHarmless, HasLock
    <3> QED
      BY <3>2, <3>3, <3>4 DEF CoverInv
  <2> QED
    BY <2>1, <2>2, <2>3
<1>9. CASE LockSteal(r)
  <2>1. CASE lock.task # NoTask /\ lock.until < -age[r]
    <3>1. \A t \in Tasks : status[t] # "running"
      BY <1>9, <2>1 DEF LockSteal, CoverInv, StealHarmless
    <3>2. \A q \in Runners : pc[q] \notin {"expire", "start"}
      BY <1>0, <2>1
    <3> QED
      BY <1>9, <2>1, <3>1, <3>2, LockIdle DEF LockSteal
  <2>2. CASE ~(lock.task # NoTask /\ lock.until < -age[r])
    BY <1>9, <2>2, CoverLoopOnly DEF LockSteal, PCs
  <2> QED
    BY <2>1, <2>2
<1>10. CASE ClaimExpireOld(r)
  <2>0. /\ \A t \in Tasks : status'[t] = status[t] \/ status'[t] = "failed"
        /\ pc[r] = "expire" /\ pc' = [pc EXCEPT ![r] = "start"]
        /\ UNCHANGED <<task, seenTask, seenBy, age, lockedBy, lock, handler>>
    BY <1>10 DEF ClaimExpireOld, MarkSystemTaskLeaseExpired, Goto
  <2>1. ClaimCovered' /\ NotMine'
    BY <2>0 DEF CoverInv, ClaimCovered, NotMine, HasLock
  <2>2. RunningHasLock' /\ StealHarmless' /\ Released'
    BY <2>0 DEF CoverInv, RunningHasLock, StealHarmless, Released, HasLock, Terminal
  <2>3. DeleteHarmless'
    BY <2>0 DEF CoverInv, DeleteHarmless, HasLock
  <2> QED
    BY <2>1, <2>2, <2>3 DEF CoverInv
<1>11. CASE ClaimStart(r)
  <2>0. task[r] \in Tasks
    BY <1>11 DEF ClaimStart, TypeInv, ClaimTarget, Claiming
  <2>1. CASE status[task[r]] = "pending"
    <3>0. /\ status' = [status EXCEPT ![task[r]] = "running"]
          /\ lockedBy' = [lockedBy EXCEPT ![task[r]] = r]
          /\ pc[r] = "start" /\ pc' = [pc EXCEPT ![r] = "reread"]
          /\ UNCHANGED <<task, seenTask, seenBy, age, lock, handler>>
      BY <1>11, <2>1 DEF ClaimStart, Goto
    <3>1. HasLock(task[r], r) /\ lock.until >= 0
      BY <3>0 DEF CoverInv, ClaimCovered
    <3>2. ClaimCovered'
      BY <3>0 DEF CoverInv, ClaimCovered, HasLock
    <3>3. RunningHasLock'
      <4>1. \A t \in Tasks : status[t] # "running"
        BY <2>0, <2>1, PendingAlone
      <4> QED
        BY <2>0, <3>0, <3>1, <4>1 DEF RunningHasLock, HasLock
    <3>4. StealHarmless'
      BY <3>0, <3>1 DEF StealHarmless
    <3>5. DeleteHarmless'
      BY <3>0, <3>1 DEF DeleteHarmless, HasLock
    <3>6. NotMine'
      BY <2>0, <3>0 DEF CoverInv, NotMine, TypeInv, ClaimTarget, Claiming
    <3>7. Released'
      BY <2>0, <2>1, <3>0 DEF CoverInv, Released, Terminal
    <3> QED
      BY <3>2, <3>3, <3>4, <3>5, <3>6, <3>7 DEF CoverInv
  <2>2. CASE status[task[r]] # "pending"
    BY <1>11, <2>2, CoverLoopOnly DEF ClaimStart
  <2> QED
    BY <2>1, <2>2
<1>12. CASE ClaimDispatch(r)
  <2>0. /\ \A q \in Runners, t \in Tasks : handler'[q][t] \in Releasing => handler[q][t] \in Releasing
        /\ Return(r, "idle") /\ UNCHANGED <<status, lockedBy, lock>>
    BY <1>12 DEF ClaimDispatch, TypeInv, TypeOK, Releasing
  <2>1. ClaimCovered' /\ NotMine'
    BY <2>0 DEF CoverInv, ClaimCovered, NotMine, HasLock, Return
  <2>2. RunningHasLock' /\ StealHarmless' /\ Released'
    BY <2>0 DEF CoverInv, RunningHasLock, StealHarmless, Released, HasLock, Return
  <2>3. DeleteHarmless'
    BY <2>0 DEF CoverInv, DeleteHarmless, HasLock, Return
  <2> QED
    BY <2>1, <2>2, <2>3 DEF CoverInv
<1>13. CASE ClaimRelease(r)
  <2>1. CASE HasLock(task[r], r)
    <3>1. \A t \in Tasks : status[t] # "running"
      BY <1>13, <2>1 DEF ClaimRelease, CoverInv, NotMine, RunningHasLock, HasLock
    <3>2. \A q \in Runners : pc[q] \notin {"expire", "start"}
      BY <1>0, <1>13, <2>1 DEF HasLock, ClaimRelease
    <3> QED
      BY <1>13, <2>1, <3>1, <3>2, LockIdle DEF ClaimRelease, ReleaseSystemTaskLock
  <2>2. CASE ~HasLock(task[r], r)
    BY <1>13, <2>2, CoverLoopOnly DEF ClaimRelease, ReleaseSystemTaskLock, PCs
  <2> QED
    BY <2>1, <2>2
<1> QED
  BY <1>1, <1>2, <1>3, <1>4, <1>5, <1>6, <1>7, <1>8, <1>9, <1>10, <1>11, <1>12, <1>13 DEF LoopStep

LEMMA HandlerCover ==
  ASSUME MaxStall <= TTL, RowInv, CoverInv, NEW r \in Runners, NEW t \in Tasks,
         \/ HandlerStep(r, t) \/ HandlerDbError(r, t)
         \/ Heartbeat(r, t) \/ HeartbeatDbError(r, t)
  PROVE  CoverInv'
<1> USE Facts DEF RowInv
<1>1. ASSUME NEW result \in Terminal, FinishSystemTask(r, t, result) PROVE CoverInv'
  <2>1. RowsOnly
    <3>1. CASE UNCHANGED status /\ handler' = [handler EXCEPT ![r][t] = "none"]
      BY <1>1, <3>1 DEF FinishSystemTask, TypeInv, TypeOK, RowsOnly, loop, Releasing
    <3>2. CASE /\ status[t] = "running" /\ status' = [status EXCEPT ![t] = result]
               /\ \E h \in Releasing : handler' = [handler EXCEPT ![r][t] = h]
      <4>1. \A q \in Runners, u \in Tasks :
              handler'[q][u] \in Releasing => handler[q][u] \in Releasing \/ status'[u] \in Terminal
        BY <3>2 DEF TypeInv, TypeOK
      <4> QED
        BY <1>1, <3>2, <4>1 DEF FinishSystemTask, RowsOnly, loop
    <3> QED
      BY <1>1, <3>1, <3>2 DEF FinishSystemTask, Releasing
  <2> QED
    BY <2>1, CoverRows
<1>2. CASE HandlerDbError(r, t) \/ HeartbeatDbError(r, t)
  <2>1. RowsOnly
    <3>1. \A q \in Runners, u \in Tasks : handler'[q][u] \in Releasing => handler[q][u] \in Releasing
      <4>1. CASE HandlerDbError(r, t)
        BY <4>1 DEF HandlerDbError, TypeInv, TypeOK, Releasing
      <4>2. CASE HeartbeatDbError(r, t)
        BY <4>2 DEF HeartbeatDbError, TypeInv, TypeOK, Releasing
      <4> QED
        BY <1>2, <4>1, <4>2
    <3> QED
      BY <1>2, <3>1 DEF HandlerDbError, HeartbeatDbError, RowsOnly, loop
  <2> QED
    BY <2>1, CoverRows
<1>3. CASE FinishRelease(r, t)
  <2>0. \A q \in Runners, u \in Tasks : handler'[q][u] \in Releasing => handler[q][u] \in Releasing
    BY <1>3 DEF FinishRelease, TypeInv, TypeOK
  <2>1. CASE HasLock(t, r)
    <3>0. lock' = NoLock /\ UNCHANGED <<status, lockedBy, loop>>
      BY <1>3, <2>1 DEF FinishRelease, ReleaseSystemTaskLock
    <3>1. status[t] \in Terminal /\ lockedBy[t] = r
      BY <1>3 DEF FinishRelease, CoverInv, Released, Ownership, Releasing
    <3>2. \A u \in Tasks : status[u] # "running"
      BY <2>1, <3>1 DEF CoverInv, RunningHasLock, HasLock, Terminal
    <3>3. \A q \in Runners : pc[q] \notin {"expire", "start"}
      BY <2>1, <3>1 DEF CoverInv, ClaimCovered, NotMine, HasLock
    <3> QED
      BY <2>0, <3>0, <3>2, <3>3
      DEF CoverInv, ClaimCovered, RunningHasLock, StealHarmless, DeleteHarmless, NotMine,
          Released, HasLock, NoLock, Row, loop
  <2>2. CASE ~HasLock(t, r)
    <3>1. RowsOnly
      BY <1>3, <2>0, <2>2 DEF FinishRelease, ReleaseSystemTaskLock, RowsOnly, loop
    <3> QED
      BY <3>1, CoverRows
  <2> QED
    BY <2>1, <2>2
<1>4. CASE Heartbeat(r, t)
  <2>1. CASE HoldsLease(t, r)
    <3>0. lock' = Row(t, r, TTL) /\ UNCHANGED <<status, lockedBy, loop, handler>>
      BY <1>4, <2>1 DEF Heartbeat
    <3>1. lock.task = t /\ lock.by = r /\ lock'.task = t /\ lock'.by = r /\ lock'.until = TTL
      BY <2>1, <3>0 DEF HoldsLease, HasLock, Row
    <3>2. ClaimCovered' /\ NotMine'
      BY <3>0, <3>1 DEF CoverInv, ClaimCovered, NotMine, HasLock, loop
    <3>3. RunningHasLock' /\ Released'
      BY <3>0, <3>1 DEF CoverInv, RunningHasLock, Released, HasLock
    <3>4. StealHarmless' /\ DeleteHarmless'
      BY <3>0, <3>1 DEF StealHarmless, DeleteHarmless, loop
    <3> QED
      BY <3>2, <3>3, <3>4 DEF CoverInv
  <2>2. CASE ~HoldsLease(t, r)
    <3>1. RowsOnly
      BY <1>4, <2>2 DEF Heartbeat, TypeInv, TypeOK, RowsOnly, loop, Releasing
    <3> QED
      BY <3>1, CoverRows
  <2> QED
    BY <2>1, <2>2
<1> QED
  BY <1>1, <1>2, <1>3, <1>4 DEF HandlerStep

LEMMA NextCover ==
  ASSUME MaxStall <= TTL
  PROVE  RowInv /\ CoverInv /\ [Next]_vars => CoverInv'
<1> SUFFICES ASSUME RowInv, CoverInv, [Next]_vars PROVE CoverInv'
  OBVIOUS
<1> USE Facts DEF RowInv
<1>1. CASE EnqueueSystemTask
  <2>1. RowsOnly
    BY <1>1 DEF EnqueueSystemTask, CreateSystemTask, RowsOnly, loop
  <2> QED
    BY <2>1, CoverRows
<1>2. CASE Tick
  BY <1>2, TickCover
<1>3. ASSUME NEW r \in Runners, LoopStep(r) PROVE CoverInv'
  BY <1>3, LoopCover
<1>4. ASSUME NEW r \in Runners, RunnerDbError(r) PROVE CoverInv'
  BY <1>4, CoverLoopOnly DEF RunnerDbError, PCs, Timed
<1>5. ASSUME NEW r \in Runners, Crash(r) PROVE CoverInv'
  <2>1. /\ \A q \in Runners, t \in Tasks : handler'[q][t] \in Releasing => handler[q][t] \in Releasing
        /\ Return(r, "down") /\ UNCHANGED <<status, lockedBy, lock>>
    BY <1>5 DEF Crash, TypeInv, TypeOK, Releasing
  <2>2. ClaimCovered' /\ NotMine'
    BY <2>1 DEF CoverInv, ClaimCovered, NotMine, HasLock, Return
  <2>3. RunningHasLock' /\ StealHarmless' /\ Released'
    BY <2>1 DEF CoverInv, RunningHasLock, StealHarmless, Released, HasLock, Return
  <2>4. DeleteHarmless'
    BY <2>1 DEF CoverInv, DeleteHarmless, HasLock, Return
  <2> QED
    BY <2>2, <2>3, <2>4 DEF CoverInv
<1>6. ASSUME NEW r \in Runners, NEW t \in Tasks,
             \/ HandlerStep(r, t) \/ HandlerDbError(r, t)
             \/ Heartbeat(r, t) \/ HeartbeatDbError(r, t)
      PROVE  CoverInv'
  BY <1>6, HandlerCover
<1>7. CASE UNCHANGED vars
  <2>1. RowsOnly
    BY <1>7 DEF vars, loop, RowsOnly
  <2> QED
    BY <2>1, CoverRows
<1> QED
  BY <1>1, <1>2, <1>3, <1>4, <1>5, <1>6, <1>7 DEF Next

\* As long as no claim takes longer than the lease, every running row is
\* covered by a lock row of the runner that runs it, so that a crash of that
\* runner is always detected.  (Without the assumption it is false: see the
\* README's known behaviours.)
THEOREM RunningCovered ==
  ASSUME MaxStall <= TTL
  PROVE  Spec => []RunningHasLock
<1>1. Init => RowInv /\ CoverInv
  BY InitRow, InitCover
<1>2. (RowInv /\ CoverInv) /\ [Next]_vars => (RowInv /\ CoverInv)'
  BY NextRow, NextCover
<1>3. RowInv /\ CoverInv => RunningHasLock
  BY DEF CoverInv
<1> QED
  BY <1>1, <1>2, <1>3, PTL DEF Spec
=============================================================================
