------------------------- MODULE TaskBillingProofs -------------------------
(***************************************************************************)
(* Proofs about TaskBilling for any number of tasks, passes and channels.  *)
(*                                                                         *)
(* The argument: while a row is unfinished it carries the price the        *)
(* customer has paid (Rows), every copy of a row that a pass holds was     *)
(* taken then (Copies), and the pass whose update moved the row out of     *)
(* its unfinished status is the only one with the billing in hand          *)
(* (Holders).  Clients must not write rows behind the passes' back:        *)
(* Realtime = {}.                                                          *)
(***************************************************************************)
EXTENDS TaskBilling, TLAPS

Busy == {"fund", "token", "quota"}

\* What the customer has paid follows from the row, until it is finished.
Rows ==
    \A t \in Tasks :
        /\ status[t] = "unborn" => paid[t] = 0 /\ tokenPaid[t] = 0
        /\ status[t] \in {"charged", "lost"} => paid[t] = Price /\ tokenPaid[t] = TokenShare(t, Price)
        /\ IsUnfinished(t) => quota[t] = Price /\ paid[t] = Price /\ tokenPaid[t] = TokenShare(t, Price)
        /\ paid[t] \in Nat /\ tokenPaid[t] \in Nat

\* A pass's copy of a row has the price, and the task in hand is on its list.
Copy(p) ==
    /\ \A t \in todo[p] : HasRow(t) /\ seenQuota[p][t] = Price
    /\ cur[p] \in Tasks => cur[p] \in todo[p]
    /\ pc[p] \in {"idle", "next"} => target[p] = 0
    /\ pc[p] = "cas" =>
          /\ new[p] = "FAILURE" => target[p] = 0
          /\ new[p] = "SUCCESS" => target[p] # 0
          /\ new[p] \in Unfinished => target[p] = Price

Copies == \A p \in Pollers : Copy(p)

\* How far the pass is with the billing of the finished row it holds.
Holder(p) ==
    pc[p] \in Busy =>
        /\ status[cur[p]] \in Finished
        /\ quota[cur[p]] = Price
        /\ paid[cur[p]] = IF pc[p] = "fund" THEN Price ELSE target[p]
        /\ pc[p] # "quota" => tokenPaid[cur[p]] = TokenShare(cur[p], Price)
        /\ pc[p] = "quota" => tokenPaid[cur[p]] = TokenShare(cur[p], target[p]) \/ cur[p] \in hurt

\* No two passes bill one task.
Apart == \A p, q \in Pollers : pc[p] \in Busy /\ pc[q] \in Busy /\ cur[p] = cur[q] => p = q

Holders == (\A p \in Pollers : Holder(p)) /\ Apart

\* The rows whose billing is over.
Billed ==
    \A t \in Tasks \ Legacy : HasRow(t) =>
        /\ quota[t] = 0 => paid[t] = 0
        /\ t \notin hurt /\ ~InHand(t) => paid[t] = quota[t] /\ tokenPaid[t] = TokenShare(t, quota[t])

\* No client request is under way.
Quiet == \A r \in Readers : rpc[r] = "idle"

Core == Rows /\ Copies /\ Holders /\ Billed

IInv == TypeOK /\ Core /\ Quiet

-----------------------------------------------------------------------------
(* Type correctness, for every step of every actor.                        *)

LEMMA TypeInit == Init => TypeOK
  BY TaskBillingAssumption DEF Init, TypeOK, RowTypes, PassTypes, RequestTypes, FailedTypes,
     Unfinished, NoRow, PollerPCs, ReaderPCs, TokenShare

\* What the four helpers on a pass's variables do to their types.
LEMMA DoneTypes ==
  ASSUME TypeOK, NEW p \in Pollers, NEW t \in Tasks, Done(p, t), UNCHANGED <<phase, chan>>
  PROVE  PassTypes'
  BY TaskBillingAssumption DEF TypeOK, PassTypes, Done, Unfinished, PollerPCs

LEMMA ForgetTypes ==
  ASSUME TypeOK, NEW p \in Pollers, Forget(p)
  PROVE  PassTypes'
  BY TaskBillingAssumption DEF TypeOK, PassTypes, Forget, Unfinished, PollerPCs

LEMMA LoadTypes ==
  ASSUME TypeOK, NEW p \in Pollers, NEW S \in SUBSET Tasks, \A t \in S : IsUnfinished(t), Load(p, S)
  PROVE  /\ todo' \in [Pollers -> SUBSET Tasks]
         /\ seen' \in [Pollers -> [Tasks -> Unfinished]]
         /\ seenQuota' \in [Pollers -> [Tasks -> Nat]]
  BY DEF TypeOK, PassTypes, RowTypes, Load, IsUnfinished, Unfinished

LEMMA FaultTypes ==
  ASSUME TypeOK, NEW kind, NEW ts \in SUBSET Tasks, Fault(kind, ts)
  PROVE  FailedTypes'
  BY TaskBillingAssumption DEF TypeOK, FailedTypes, Fault

LEMMA UpdateTypes ==
  ASSUME TypeOK, NEW t \in Tasks, NEW from, NEW to \in Unfinished \cup Finished, NEW q \in Nat,
         NEW complete, UpdateWithStatus(t, from, to, q, complete)
  PROVE  /\ status' \in [Tasks -> NoRow \cup Unfinished \cup Finished]
         /\ quota' \in [Tasks -> Nat]
         /\ full' \subseteq Tasks
  BY DEF TypeOK, RowTypes, UpdateWithStatus

\* A pass that works on a task has one, with numbers to work with.
LEMMA CurTypes ==
  ASSUME TypeOK, NEW p \in Pollers, pc[p] \notin {"idle", "next"}
  PROVE  /\ cur[p] \in Tasks
         /\ seenQuota[p][cur[p]] \in Nat
         /\ seen[p][cur[p]] \in Unfinished
         /\ target[p] \in Nat
         /\ new[p] \in Unfinished \cup Finished
         /\ Owed(p) \in Int
<1>1. cur[p] \in Tasks /\ target[p] \in Nat /\ new[p] \in Unfinished \cup Finished
  BY DEF TypeOK, PassTypes
<1>2. seenQuota[p][cur[p]] \in Nat /\ seen[p][cur[p]] \in Unfinished
  BY <1>1 DEF TypeOK, PassTypes
<1>3. QED
  BY <1>1, <1>2 DEF Owed

LEMMA BulkTypes ==
  ASSUME TypeOK, NEW p \in Pollers, NEW S \in SUBSET Tasks, TaskBulkUpdateByID(p, S)
  PROVE  /\ todo' \in [Pollers -> SUBSET Tasks]
         /\ seen' \in [Pollers -> [Tasks -> Unfinished]]
         /\ seenQuota' \in [Pollers -> [Tasks -> Nat]]
         /\ RowTypes'
         /\ FailedTypes'
         /\ RequestTypes'
<1>1. RowTypes' /\ RequestTypes'
  BY DEF TypeOK, RowTypes, RequestTypes, TaskBulkUpdateByID, ledger, request, Finished
<1>6. FailedTypes'
  BY FaultTypes DEF TypeOK, FailedTypes, TaskBulkUpdateByID, failed
<1>2. todo' \in [Pollers -> SUBSET Tasks]
  BY DEF TypeOK, PassTypes, TaskBulkUpdateByID
<1>3. seen' \in [Pollers -> [Tasks -> Unfinished]]
  BY DEF TypeOK, PassTypes, TaskBulkUpdateByID, Unfinished
<1>4. seenQuota' \in [Pollers -> [Tasks -> Nat]]
  BY DEF TypeOK, PassTypes, TaskBulkUpdateByID
<1>5. QED
  BY <1>1, <1>2, <1>3, <1>4, <1>6

LEMMA LimitSubset == ASSUME NEW S, NEW n PROVE Limit(S, n) \subseteq S
  BY DEF Limit

\* A part none of whose variables changes keeps its type.
LEMMA TypesUntouched ==
  ASSUME TypeOK
  PROVE  /\ UNCHANGED <<row, ledger, upstream, aged>> => RowTypes'
         /\ UNCHANGED pass => PassTypes'
         /\ UNCHANGED request => RequestTypes'
         /\ UNCHANGED failed => FailedTypes'
  BY DEF TypeOK, RowTypes, PassTypes, RequestTypes, FailedTypes, row, ledger, pass, request,
     failed

LEMMA TypeNext == TypeOK /\ [Next]_vars => TypeOK'
<1> SUFFICES ASSUME TypeOK, [Next]_vars PROVE TypeOK'
  OBVIOUS
<1> USE TaskBillingAssumption
<1>1. ASSUME NEW t \in Tasks, Charge(t) PROVE TypeOK'
  <2>1. RowTypes'
    BY <1>1 DEF Charge, TypeOK, RowTypes, NoRow, TokenShare
  <2>2. QED
    BY <1>1, <2>1, TypesUntouched DEF Charge, TypeOK
<1>2. ASSUME NEW t \in Tasks, Insert(t) PROVE TypeOK'
  <2>1. RowTypes'
    BY <1>2 DEF Insert, TypeOK, RowTypes, ledger, Unfinished
  <2>2. QED
    BY <1>2, <2>1, TypesUntouched DEF Insert, TypeOK
<1>3. ASSUME NEW t \in Tasks, InsertLost(t) PROVE TypeOK'
  <2>1. RowTypes'
    BY <1>3 DEF InsertLost, TypeOK, RowTypes, ledger, NoRow
  <2>2. FailedTypes'
    BY <1>3, FaultTypes DEF InsertLost
  <2>3. QED
    BY <1>3, <2>1, <2>2, TypesUntouched DEF InsertLost, TypeOK
<1>4. ASSUME NEW t \in Tasks, Age(t) PROVE TypeOK'
  <2>1. RowTypes'
    BY <1>4 DEF Age, TypeOK, RowTypes, row, ledger
  <2>2. QED
    BY <1>4, <2>1, TypesUntouched DEF Age, TypeOK
<1>5. ASSUME NEW t \in Tasks, UpstreamStarts(t) PROVE TypeOK'
  <2>1. RowTypes'
    BY <1>5 DEF UpstreamStarts, TypeOK, RowTypes, row, ledger, Unfinished
  <2>2. QED
    BY <1>5, <2>1, TypesUntouched DEF UpstreamStarts, TypeOK
<1>6. ASSUME NEW t \in Tasks, NEW s \in Finished, UpstreamFinishes(t, s) PROVE TypeOK'
  <2>1. RowTypes'
    BY <1>6 DEF UpstreamFinishes, TypeOK, RowTypes, row, ledger
  <2>2. QED
    BY <1>6, <2>1, TypesUntouched DEF UpstreamFinishes, TypeOK
<1>7. ASSUME NEW p \in Pollers, SweepRead(p) PROVE TypeOK'
  <2>1. Load(p, Limit({t \in aged : IsListed(t)}, SweepLimit))
    BY <1>7 DEF SweepRead
  <2>2. Limit({t \in aged : IsListed(t)}, SweepLimit) \in SUBSET Tasks /\ \A t \in Limit({t \in aged : IsListed(t)}, SweepLimit) : IsUnfinished(t)
    BY LimitSubset DEF TypeOK, RowTypes, IsListed
  <2>3. /\ todo' \in [Pollers -> SUBSET Tasks]
         /\ seen' \in [Pollers -> [Tasks -> Unfinished]]
         /\ seenQuota' \in [Pollers -> [Tasks -> Nat]]
    BY <2>1, <2>2, LoadTypes
  <2>4. PassTypes'
    BY <1>7, <2>3 DEF SweepRead, TypeOK, PassTypes, PollerPCs
  <2>5. QED
    BY <1>7, <2>4, TypesUntouched DEF SweepRead, TypeOK
<1>8. ASSUME NEW p \in Pollers, ListRead(p) PROVE TypeOK'
  <2>1. Load(p, Limit({t \in Tasks : IsListed(t)}, QueryLimit))
    BY <1>8 DEF ListRead
  <2>2. Limit({t \in Tasks : IsListed(t)}, QueryLimit) \in SUBSET Tasks /\ \A t \in Limit({t \in Tasks : IsListed(t)}, QueryLimit) : IsUnfinished(t)
    BY LimitSubset DEF TypeOK, RowTypes, IsListed
  <2>3. /\ todo' \in [Pollers -> SUBSET Tasks]
         /\ seen' \in [Pollers -> [Tasks -> Unfinished]]
         /\ seenQuota' \in [Pollers -> [Tasks -> Nat]]
    BY <2>1, <2>2, LoadTypes
  <2>4. PassTypes'
    BY <1>8, <2>3 DEF ListRead, TypeOK, PassTypes, PollerPCs
  <2>5. QED
    BY <1>8, <2>4, TypesUntouched DEF ListRead, TypeOK
<1>9. ASSUME NEW p \in Pollers, PassEnds(p) PROVE TypeOK'
  <2>1. PassTypes'
    BY <1>9, ForgetTypes DEF PassEnds
  <2>2. QED
    BY <1>9, <2>1, TypesUntouched DEF PassEnds, TypeOK
<1>10. ASSUME NEW p \in Pollers, PassCancelled(p) PROVE TypeOK'
  <2>1. PassTypes'
    BY <1>10, ForgetTypes DEF PassCancelled
  <2>2. QED
    BY <1>10, <2>1, TypesUntouched DEF PassCancelled, TypeOK
<1>11. ASSUME NEW p \in Pollers, Crash(p) PROVE TypeOK'
  <2>1. PassTypes'
    BY <1>11, ForgetTypes DEF Crash
  <2>2. FailedTypes'
    BY <1>11, FaultTypes DEF Crash, TypeOK, PassTypes, PollerPCs
  <2>3. QED
    BY <1>11, <2>1, <2>2, TypesUntouched DEF Crash, TypeOK
<1>12. ASSUME NEW p \in Pollers, FailNullTasks(p) PROVE TypeOK'
  <2>1. todo[p] \cap NullTasks \in SUBSET Tasks /\ TaskBulkUpdateByID(p, todo[p] \cap NullTasks)
    BY <1>12 DEF FailNullTasks, ChannelTasks, TypeOK, PassTypes
  <2>2. /\ todo' \in [Pollers -> SUBSET Tasks]
         /\ seen' \in [Pollers -> [Tasks -> Unfinished]]
         /\ seenQuota' \in [Pollers -> [Tasks -> Nat]]
         /\ RowTypes'
         /\ FailedTypes'
         /\ RequestTypes'
    BY <2>1, BulkTypes
  <2>3. PassTypes'
    BY <1>12, <2>1, <2>2 DEF FailNullTasks, TaskBulkUpdateByID, TypeOK, PassTypes
  <2>4. QED
    BY <2>2, <2>3 DEF TypeOK
<1>13. ASSUME NEW p \in Pollers, UpdateTask(p) PROVE TypeOK'
  <2>1. RowTypes'
    BY <1>13, CurTypes, UpdateTypes DEF UpdateTask, TypeOK, RowTypes, ledger
  <2>2. cur[p] \in Tasks
    BY <1>13 DEF UpdateTask, TypeOK, PassTypes
  <2>3. target[p] # seenQuota[p][cur[p]] => PassTypes'
    BY <1>13, <2>2 DEF UpdateTask, TypeOK, PassTypes, PollerPCs
  <2>4. target[p] = seenQuota[p][cur[p]] => PassTypes'
    BY <1>13, <2>2, DoneTypes DEF UpdateTask
  <2>5. PassTypes'
    BY <2>3, <2>4
  <2>6. QED
    BY <1>13, <2>1, <2>5, TypesUntouched DEF UpdateTask, TypeOK
<1>14. ASSUME NEW p \in Pollers, UpdateTaskLost(p) PROVE TypeOK'
  <2>1. cur[p] \in Tasks
    BY <1>14 DEF UpdateTaskLost, TypeOK, PassTypes
  <2>2. PassTypes'
    BY <1>14, <2>1, DoneTypes DEF UpdateTaskLost
  <2>3. FailedTypes'
    BY <1>14 DEF UpdateTaskLost, Fault, TypeOK, PassTypes, FailedTypes, failed
  <2>4. QED
    BY <1>14, <2>2, <2>3, TypesUntouched DEF UpdateTaskLost, TypeOK
<1>15. ASSUME NEW p \in Pollers, TaskAdjustFunding(p) PROVE TypeOK'
  <2>1. RowTypes'
    <3>1. cur[p] \in Tasks /\ Owed(p) \in Int
      BY <1>15, CurTypes DEF TaskAdjustFunding
    <3>5. paid[cur[p]] \in Int
      BY <3>1 DEF TypeOK, RowTypes
    <3>2. paid[cur[p]] + Owed(p) \in Int
      BY <3>1, <3>5
    <3>3. paid' \in [Tasks -> Int]
      BY <1>15, <3>1, <3>2 DEF TaskAdjustFunding, TypeOK, RowTypes
    <3>4. QED
      BY <1>15, <3>3 DEF TaskAdjustFunding, TypeOK, RowTypes, row
  <2>2. PassTypes'
    BY <1>15 DEF TaskAdjustFunding, TypeOK, PassTypes, PollerPCs
  <2>3. QED
    BY <1>15, <2>1, <2>2, TypesUntouched DEF TaskAdjustFunding, TypeOK
<1>16. ASSUME NEW p \in Pollers, TaskAdjustFundingFails(p) PROVE TypeOK'
  <2>1. cur[p] \in Tasks
    BY <1>16 DEF TaskAdjustFundingFails, TypeOK, PassTypes
  <2>2. PassTypes'
    BY <1>16, <2>1, DoneTypes DEF TaskAdjustFundingFails
  <2>3. FailedTypes'
    BY <1>16, FaultTypes, <2>1 DEF TaskAdjustFundingFails
  <2>4. QED
    BY <1>16, <2>2, <2>3, TypesUntouched DEF TaskAdjustFundingFails, TypeOK
<1>17. ASSUME NEW p \in Pollers, TaskAdjustTokenQuota(p) PROVE TypeOK'
  <2>1. RowTypes'
    BY <1>17 DEF TaskAdjustTokenQuota, Owed, TokenShare, TypeOK, RowTypes, PassTypes, row
  <2>2. PassTypes'
    BY <1>17 DEF TaskAdjustTokenQuota, TypeOK, PassTypes, PollerPCs
  <2>5. cur[p] \in Tasks
    BY <1>17 DEF TaskAdjustTokenQuota, TypeOK, PassTypes
  <2>3. FailedTypes'
    <3>1. CASE UNCHANGED failed
      BY <3>1 DEF TypeOK, FailedTypes, failed
    <3>2. CASE Fault("token", {cur[p]})
      BY <3>2, <2>5, FaultTypes
    <3>3. QED
      BY <1>17, <3>1, <3>2 DEF TaskAdjustTokenQuota
  <2>4. QED
    BY <1>17, <2>1, <2>2, <2>3, TypesUntouched DEF TaskAdjustTokenQuota, TypeOK
<1>18. ASSUME NEW p \in Pollers, UpdateQuota(p) PROVE TypeOK'
  <2>1. RowTypes'
    BY <1>18, CurTypes DEF UpdateQuota, TypeOK, RowTypes, ledger
  <2>2. cur[p] \in Tasks
    BY <1>18 DEF UpdateQuota, TypeOK, PassTypes
  <2>3. PassTypes'
    BY <1>18, <2>2, DoneTypes DEF UpdateQuota
  <2>4. FailedTypes'
    BY <1>18, <2>2, FaultTypes, TypesUntouched DEF UpdateQuota
  <2>5. QED
    BY <1>18, <2>1, <2>3, <2>4, TypesUntouched DEF UpdateQuota, TypeOK
<1>19. ASSUME NEW p \in Pollers, NEW t \in Tasks, CacheGetChannel(p, Channel[t]) PROVE TypeOK'
  <2>1. PassTypes'
    BY <1>19 DEF CacheGetChannel, TypeOK, PassTypes
  <2>2. QED
    BY <1>19, <2>1, TypesUntouched DEF CacheGetChannel, TypeOK
<1>20. ASSUME NEW p \in Pollers, NEW t \in Tasks, ChannelNotFound(p, Channel[t]) PROVE TypeOK'
  <2>1. ChannelTasks(p, Channel[t]) \in SUBSET Tasks /\ TaskBulkUpdateByID(p, ChannelTasks(p, Channel[t]))
    BY <1>20 DEF ChannelNotFound, ChannelTasks, TypeOK, PassTypes
  <2>2. /\ todo' \in [Pollers -> SUBSET Tasks]
         /\ seen' \in [Pollers -> [Tasks -> Unfinished]]
         /\ seenQuota' \in [Pollers -> [Tasks -> Nat]]
         /\ RowTypes'
         /\ FailedTypes'
         /\ RequestTypes'
    BY <2>1, BulkTypes
  <2>3. PassTypes'
    BY <1>20, <2>1, <2>2 DEF ChannelNotFound, TaskBulkUpdateByID, TypeOK, PassTypes
  <2>4. QED
    BY <2>2, <2>3 DEF TypeOK
<1>21. ASSUME NEW p \in Pollers, NEW t \in Tasks, FetchNothing(p, t) PROVE TypeOK'
  <2>1. PassTypes'
    BY <1>21, DoneTypes DEF FetchNothing
  <2>2. QED
    BY <1>21, <2>1, TypesUntouched DEF FetchNothing, TypeOK
<1>22. ASSUME NEW p \in Pollers, NEW t \in Tasks, SweepTask(p, t) PROVE TypeOK'
  <2>1. RowTypes'
    BY <1>22 DEF SweepTask, UpdateWithStatus, TypeOK, RowTypes, PassTypes, ledger, Finished
  <2>2. t \notin Legacy /\ seenQuota[p][t] # 0 => PassTypes'
    <3> SUFFICES ASSUME t \notin Legacy, seenQuota[p][t] # 0 PROVE PassTypes'
      OBVIOUS
    <3>1. /\ cur' = [cur EXCEPT ![p] = t]
          /\ pc' = [pc EXCEPT ![p] = "fund"]
          /\ UNCHANGED <<todo, seen, seenQuota, new, target, phase, chan>>
      BY <1>22 DEF SweepTask
    <3>2. QED
      BY <3>1 DEF TypeOK, PassTypes, PollerPCs
  <2>3. ~(t \notin Legacy /\ seenQuota[p][t] # 0) => PassTypes'
    BY <1>22, DoneTypes DEF SweepTask
  <2>4. PassTypes'
    BY <2>2, <2>3
  <2>5. QED
    BY <1>22, <2>1, <2>4, TypesUntouched DEF SweepTask, TypeOK
<1>23. ASSUME NEW p \in Pollers, NEW t \in Tasks, SweepTaskLost(p, t) PROVE TypeOK'
  <2>1. PassTypes'
    BY <1>23, DoneTypes DEF SweepTaskLost
  <2>2. FailedTypes'
    BY <1>23, FaultTypes, TypesUntouched DEF SweepTaskLost
  <2>3. QED
    BY <1>23, <2>1, <2>2, TypesUntouched DEF SweepTaskLost, TypeOK
<1>24. ASSUME NEW p \in Pollers, NEW t \in Tasks, NEW answer \in Answers(t), NEW actual \in Actuals, FetchTask(p, t, answer, actual) PROVE TypeOK'
  <2>1. PassTypes'
    BY <1>24 DEF FetchTask, Answers, Corrected, TypeOK, RowTypes, PassTypes, PollerPCs, Finished
  <2>2. QED
    BY <1>24, <2>1, TypesUntouched DEF FetchTask, TypeOK
<1>25. ASSUME NEW r \in Readers, NEW t \in Tasks, RealtimeRead(r, t) PROVE TypeOK'
  <2>1. RequestTypes'
    BY <1>25 DEF RealtimeRead, TypeOK, RowTypes, RequestTypes, ReaderPCs
  <2>2. QED
    BY <1>25, <2>1, TypesUntouched DEF RealtimeRead, TypeOK
<1>26. ASSUME NEW r \in Readers, RealtimeFetch(r) PROVE TypeOK'
  <2>1. RequestTypes'
    BY <1>26 DEF RealtimeFetch, TypeOK, RequestTypes, ReaderPCs, Unfinished
  <2>2. QED
    BY <1>26, <2>1, TypesUntouched DEF RealtimeFetch, TypeOK
<1>27. ASSUME NEW r \in Readers, RealtimeWrite(r) PROVE TypeOK'
  <2>1. RowTypes'
    BY <1>27 DEF RealtimeWrite, UpdateWithStatus, TypeOK, RowTypes, RequestTypes, ledger
  <2>2. RequestTypes'
    BY <1>27 DEF RealtimeWrite, RealtimeDone, TypeOK, RequestTypes, ReaderPCs, Unfinished
  <2>3. QED
    BY <1>27, <2>1, <2>2, TypesUntouched DEF RealtimeWrite, TypeOK
<1>28. ASSUME NEW r \in Readers, RealtimeGivesUp(r) PROVE TypeOK'
  <2>1. RequestTypes'
    BY <1>28 DEF RealtimeGivesUp, RealtimeDone, TypeOK, RequestTypes, ReaderPCs, Unfinished
  <2>2. QED
    BY <1>28, <2>1, TypesUntouched DEF RealtimeGivesUp, TypeOK
<1>29. CASE UNCHANGED vars
  BY <1>29, TypesUntouched DEF TypeOK, vars
<1>30. QED
  BY <1>1, <1>2, <1>3, <1>4, <1>5, <1>6, <1>7, <1>8, <1>9, <1>10, <1>11, <1>12, <1>13, <1>14,
     <1>15, <1>16, <1>17, <1>18, <1>19, <1>20, <1>21, <1>22, <1>23, <1>24, <1>25, <1>26, <1>27,
     <1>28, <1>29 DEF Next, PollerStep, ReaderStep

\* The type invariant holds whatever clients, passes and failures do.
THEOREM TypeCorrect == Spec => []TypeOK
<1>1. Init => TypeOK
  BY TypeInit
<1>2. TypeOK /\ [Next]_vars => TypeOK'
  BY TypeNext
<1>3. QED
  BY <1>1, <1>2, PTL DEF Spec

-----------------------------------------------------------------------------
(* The inductive invariant.                                                *)

LEMMA CoreInit == Init => Core /\ Quiet
  BY TaskBillingAssumption DEF Init, Core, Rows, Copies, Copy, Holders, Holder, Apart, Billed,
     Quiet, IsUnfinished, Busy, Unfinished, TokenShare

LEMMA CoreUntouched ==
  ASSUME Core, UNCHANGED <<row, ledger, pass, hurt>> PROVE Core'
  BY DEF Core, Rows, Copies, Copy, Holders, Holder, Apart, Billed, HasRow, InHand, IsUnfinished,
     row, ledger, pass


\* An unfinished row has its price, and no pass has its billing in hand.
LEMMA Unbilled ==
  ASSUME IInv, NEW t \in Tasks, IsUnfinished(t)
  PROVE  /\ quota[t] = Price /\ paid[t] = Price /\ tokenPaid[t] = TokenShare(t, Price)
         /\ \A q \in Pollers : pc[q] \in Busy => cur[q] # t
  BY DEF IInv, Core, Rows, Holders, Holder, IsUnfinished, Unfinished, Finished

\* The copy a pass works with, and what it makes of it.
LEMMA HeldCopy ==
  ASSUME IInv, NEW p \in Pollers, pc[p] \notin {"idle", "next"}
  PROVE  /\ cur[p] \in Tasks /\ cur[p] \in todo[p]
         /\ seenQuota[p][cur[p]] = Price
         /\ Owed(p) = target[p] - Price
         /\ target[p] \in Nat
<1>1. cur[p] \in Tasks /\ target[p] \in Nat
  BY CurTypes DEF IInv
<1>2. cur[p] \in todo[p] /\ seenQuota[p][cur[p]] = Price
  BY <1>1 DEF IInv, Core, Copies, Copy
<1>3. QED
  BY <1>1, <1>2 DEF Owed

LEMMA BusyCur ==
  ASSUME TypeOK, NEW p \in Pollers, pc[p] \in Busy
  PROVE  cur[p] \in Tasks
  BY DEF TypeOK, PassTypes, Busy

\* Loading unfinished rows into a pass with no task in hand.
LEMMA LoadCopies ==
  ASSUME IInv, NEW p \in Pollers, NEW S \in SUBSET Tasks, \A t \in S : IsUnfinished(t),
         pc[p] \in {"idle", "next"}, Load(p, S),
         pc' = [pc EXCEPT ![p] = "next"], UNCHANGED <<status, cur, new, target>>
  PROVE  Copies'
<1>1. todo' = [todo EXCEPT ![p] = S]
  BY DEF Load
<1>2. \A t \in S : seenQuota'[p][t] = Price
  <2> SUFFICES ASSUME NEW t \in S PROVE seenQuota'[p][t] = Price
    OBVIOUS
  <2>1. quota[t] = Price
    BY Unbilled
  <2>2. seenQuota'[p] = [u \in Tasks |-> IF u \in S THEN quota[u] ELSE 0]
    BY DEF Load, IInv, TypeOK, PassTypes
  <2>3. QED
    BY <2>1, <2>2
<1>3. \A q \in Pollers \ {p} : seenQuota'[q] = seenQuota[q]
  BY DEF Load, IInv, TypeOK, PassTypes
<1>4. \A t \in S : HasRow(t)
  BY DEF HasRow, IsUnfinished, Unfinished, NoRow
<1>5. cur[p] \notin Tasks
  BY DEF IInv, TypeOK, PassTypes
<1>6. QED
  BY <1>1, <1>2, <1>3, <1>4, <1>5 DEF IInv, Core, Copies, Copy, HasRow, TypeOK, PassTypes

\* TaskBulkUpdateByID leaves the ledger and the passes' holdings alone.
LEMMA BulkHolders ==
  ASSUME IInv, NEW p \in Pollers, NEW S \in SUBSET todo[p], TaskBulkUpdateByID(p, S)
  PROVE  Holders' /\ Billed'
<1>1. \A t \in Tasks : status'[t] = status[t] \/ (status'[t] = "FAILURE" /\ t \in S)
  <2>1. \/ status' = [t \in Tasks |-> IF t \in S THEN "FAILURE" ELSE status[t]]
        \/ UNCHANGED status
    BY DEF TaskBulkUpdateByID
  <2>2. CASE UNCHANGED status
    BY <2>2
  <2>3. CASE status' = [t \in Tasks |-> IF t \in S THEN "FAILURE" ELSE status[t]]
    <3>1. \A t \in Tasks : status'[t] = IF t \in S THEN "FAILURE" ELSE status[t]
      BY <2>3
    <3>2. QED
      BY <3>1
  <2>4. QED
    BY <2>1, <2>2, <2>3
<1>2. hurt' = hurt /\ UNCHANGED <<quota, paid, tokenPaid, pc, cur, target>>
  BY DEF TaskBulkUpdateByID, Fault, failed, ledger
<1>3. \A q \in Pollers : pc[q] \in Busy => cur[q] \in Tasks
  BY BusyCur DEF IInv
<1>4. \A q \in Pollers : pc[q] \in Busy => status'[cur[q]] \in Finished
  BY <1>1, <1>3 DEF IInv, Core, Holders, Holder, Finished
<1>5. Holders'
  BY <1>2, <1>4 DEF IInv, Core, Holders, Holder, Apart
<1>6. \A t \in Tasks : HasRow(t)' => HasRow(t)
  BY <1>1 DEF IInv, Core, Copies, Copy, HasRow
<1>7. \A t \in Tasks : InHand(t)' <=> InHand(t)
  BY <1>2 DEF InHand
<1>8. Billed'
  BY <1>2, <1>6, <1>7 DEF IInv, Core, Billed
<1>9. QED
  BY <1>5, <1>8

\* A pass keeps its holding when its own variables and its row stay as they are.
LEMMA HolderKept ==
  ASSUME Holders, NEW q \in Pollers,
         pc'[q] = pc[q], cur'[q] = cur[q], target'[q] = target[q], hurt \subseteq hurt',
         pc[q] \in Busy => /\ status'[cur[q]] = status[cur[q]] /\ quota'[cur[q]] = quota[cur[q]]
                           /\ paid'[cur[q]] = paid[cur[q]] /\ tokenPaid'[cur[q]] = tokenPaid[cur[q]]
  PROVE  Holder(q)'
  BY DEF Holders, Holder

LEMMA CoreNext == Realtime = {} /\ IInv /\ [Next]_vars => Core' /\ Quiet'
<1> SUFFICES ASSUME Realtime = {}, IInv, [Next]_vars PROVE Core' /\ Quiet'
  OBVIOUS
<1> USE TaskBillingAssumption DEF IInv, Core
<1>0. TypeOK'
  BY TypeNext
<1>1. ASSUME NEW t \in Tasks, Charge(t) PROVE Core' /\ Quiet'
  <2>1. Rows'
    BY <1>1 DEF Charge, Rows, IsUnfinished, TokenShare, TypeOK, RowTypes, Unfinished
  <2>2. Copies'
    <3>1. \A u \in Tasks : HasRow(u) => HasRow(u)'
      BY <1>1 DEF Charge, HasRow, NoRow, TypeOK, RowTypes
    <3>2. UNCHANGED <<pc, todo, seenQuota, cur, new, target>>
      BY <1>1 DEF Charge, pass
    <3>3. QED
      BY <3>1, <3>2 DEF Copies, Copy, TypeOK, PassTypes
  <2>3. Holders'
    BY <1>1 DEF Charge, Holders, Holder, Apart, Finished, pass, failed
  <2>4. Billed'
    BY <1>1 DEF Charge, Billed, HasRow, InHand, NoRow, pass, failed
  <2>5. QED
    BY <1>1, <2>1, <2>2, <2>3, <2>4 DEF Charge, Quiet, request
<1>2. ASSUME NEW t \in Tasks, Insert(t) PROVE Core' /\ Quiet'
  <2>1. Rows'
    BY <1>2 DEF Insert, Rows, IsUnfinished, TypeOK, RowTypes, ledger
  <2>2. Copies'
    BY <1>2 DEF Insert, Copies, Copy, HasRow, TypeOK, RowTypes, Unfinished, Finished, pass
  <2>3. Holders'
    BY <1>2 DEF Insert, Holders, Holder, Apart, Finished, ledger, pass, failed
  <2>4. Billed'
    <3>1. quota' = [quota EXCEPT ![t] = Price] /\ paid[t] = Price /\ tokenPaid[t] = TokenShare(t, Price)
      BY <1>2 DEF Insert, Rows
    <3>2. status' = [status EXCEPT ![t] = "NOT_START"] /\ UNCHANGED <<paid, tokenPaid, pc, cur, hurt>>
      BY <1>2 DEF Insert, ledger, pass, failed
    <3>3. QED
      BY <3>1, <3>2 DEF Billed, HasRow, InHand, TypeOK, RowTypes
  <2>5. QED
    BY <1>2, <2>1, <2>2, <2>3, <2>4 DEF Insert, Quiet, request
<1>3. ASSUME NEW t \in Tasks, InsertLost(t) PROVE Core' /\ Quiet'
  <2>1. Rows'
    BY <1>3 DEF InsertLost, Rows, IsUnfinished, Unfinished, ledger
  <2>2. Copies'
    BY <1>3 DEF InsertLost, Copies, Copy, HasRow, TypeOK, RowTypes, Unfinished, Finished, pass
  <2>3. Holders'
    BY <1>3 DEF InsertLost, Fault, Holders, Holder, Apart, Finished, ledger, pass
  <2>4. Billed'
    BY <1>3 DEF InsertLost, Fault, Billed, HasRow, InHand, NoRow, ledger, pass
  <2>5. QED
    BY <1>3, <2>1, <2>2, <2>3, <2>4 DEF InsertLost, Fault, Quiet, request
<1>4. ASSUME NEW t \in Tasks, Age(t) PROVE Core' /\ Quiet'
  BY <1>4, CoreUntouched DEF Age, Quiet, request, failed
<1>5. ASSUME NEW t \in Tasks, UpstreamStarts(t) PROVE Core' /\ Quiet'
  BY <1>5, CoreUntouched DEF UpstreamStarts, Quiet, request, failed
<1>6. ASSUME NEW t \in Tasks, NEW s \in Finished, UpstreamFinishes(t, s) PROVE Core' /\ Quiet'
  BY <1>6, CoreUntouched DEF UpstreamFinishes, Quiet, request, failed
<1>7. ASSUME NEW p \in Pollers, SweepRead(p) PROVE Core' /\ Quiet'
  <2>1. Rows'
    BY <1>7 DEF SweepRead, Rows, IsUnfinished, row, ledger
  <2>2. Copies'
    <3>1. Load(p, Limit({t \in aged : IsListed(t)}, SweepLimit))
      BY <1>7 DEF SweepRead
    <3>2. Limit({t \in aged : IsListed(t)}, SweepLimit) \in SUBSET Tasks /\ \A t \in Limit({t \in aged : IsListed(t)}, SweepLimit) : IsUnfinished(t)
      BY LimitSubset DEF TypeOK, RowTypes, IsListed
    <3>3. pc[p] \in {"idle", "next"} /\ pc' = [pc EXCEPT ![p] = "next"] /\ UNCHANGED <<status, cur, new, target>>
      BY <1>7 DEF SweepRead, row, TypeOK, PassTypes
    <3>4. QED
      BY <3>1, <3>2, <3>3, LoadCopies
  <2>3. Holders'
    BY <1>7 DEF SweepRead, Holders, Holder, Apart, Busy, row, ledger, failed
  <2>4. Billed'
    BY <1>7 DEF SweepRead, Billed, HasRow, InHand, row, ledger, failed
  <2>5. QED
    BY <1>7, <2>1, <2>2, <2>3, <2>4 DEF SweepRead, Load, Limit, Quiet, request
<1>8. ASSUME NEW p \in Pollers, ListRead(p) PROVE Core' /\ Quiet'
  <2>1. Rows'
    BY <1>8 DEF ListRead, Rows, IsUnfinished, row, ledger
  <2>2. Copies'
    <3>1. Load(p, Limit({t \in Tasks : IsListed(t)}, QueryLimit))
      BY <1>8 DEF ListRead
    <3>2. Limit({t \in Tasks : IsListed(t)}, QueryLimit) \in SUBSET Tasks /\ \A t \in Limit({t \in Tasks : IsListed(t)}, QueryLimit) : IsUnfinished(t)
      BY LimitSubset DEF TypeOK, RowTypes, IsListed
    <3>3. pc[p] \in {"idle", "next"} /\ pc' = [pc EXCEPT ![p] = "next"] /\ UNCHANGED <<status, cur, new, target>>
      BY <1>8 DEF ListRead, row, TypeOK, PassTypes
    <3>4. QED
      BY <3>1, <3>2, <3>3, LoadCopies
  <2>3. Holders'
    BY <1>8 DEF ListRead, Holders, Holder, Apart, row, ledger, failed
  <2>4. Billed'
    BY <1>8 DEF ListRead, Billed, HasRow, InHand, row, ledger, failed
  <2>5. QED
    BY <1>8, <2>1, <2>2, <2>3, <2>4 DEF ListRead, Load, Limit, Quiet, request
<1>9. ASSUME NEW p \in Pollers, PassEnds(p) PROVE Core' /\ Quiet'
  <2>1. Rows'
    BY <1>9 DEF PassEnds, Rows, IsUnfinished, row, ledger
  <2>2. Copies'
    BY <1>9 DEF PassEnds, Forget, Copies, Copy, HasRow, Unfinished, row
  <2>3. Holders'
    BY <1>9 DEF PassEnds, Forget, Holders, Holder, Apart, Busy, row, ledger, failed
  <2>4. Billed'
    BY <1>9 DEF PassEnds, Forget, Billed, HasRow, InHand, row, ledger, failed
  <2>5. QED
    BY <1>9, <2>1, <2>2, <2>3, <2>4 DEF PassEnds, Forget, Quiet, request
<1>10. ASSUME NEW p \in Pollers, PassCancelled(p) PROVE Core' /\ Quiet'
  <2>1. Rows'
    BY <1>10 DEF PassCancelled, Rows, IsUnfinished, row, ledger
  <2>2. Copies'
    BY <1>10 DEF PassCancelled, Forget, Copies, Copy, HasRow, TypeOK, PassTypes, row
  <2>3. Holders'
    BY <1>10 DEF PassCancelled, Forget, Holders, Holder, Apart, Busy, row, ledger, failed
  <2>4. Billed'
    BY <1>10 DEF PassCancelled, Forget, Billed, HasRow, InHand, row, ledger, failed
  <2>5. QED
    BY <1>10, <2>1, <2>2, <2>3, <2>4 DEF PassCancelled, Forget, Quiet, request
<1>11. ASSUME NEW p \in Pollers, Crash(p) PROVE Core' /\ Quiet'
  <2>1. Rows'
    BY <1>11 DEF Crash, Rows, IsUnfinished, row, ledger
  <2>2. Copies'
    BY <1>11 DEF Crash, Forget, Copies, Copy, HasRow, TypeOK, PassTypes, row
  <2>3. Holders'
    BY <1>11 DEF Crash, Forget, Fault, Holders, Holder, Apart, Busy, TypeOK, PassTypes, row,
       ledger
  <2>4. Billed'
    BY <1>11 DEF Crash, Forget, Fault, Billed, HasRow, InHand, row, ledger
  <2>5. QED
    BY <1>11, <2>1, <2>2, <2>3, <2>4 DEF Crash, Forget, Fault, Quiet, request
<1>12. ASSUME NEW p \in Pollers, FailNullTasks(p) PROVE Core' /\ Quiet'
  <2>0. todo[p] \cap NullTasks \in SUBSET todo[p] /\ TaskBulkUpdateByID(p, todo[p] \cap NullTasks)
    BY <1>12 DEF FailNullTasks, ChannelTasks
  <2>6. todo[p] \subseteq Tasks
    BY DEF TypeOK, PassTypes
  <2>1. Rows'
    BY <1>12, <2>0 DEF TaskBulkUpdateByID, Rows, IsUnfinished, Unfinished, ledger
  <2>2. Copies'
    BY <1>12, <2>0 DEF FailNullTasks, TaskBulkUpdateByID, Copies, Copy, HasRow, TypeOK, RowTypes,
       PassTypes, NoRow
  <2>3. Holders'
    BY <2>0, <2>6, BulkHolders DEF TypeOK, PassTypes
  <2>4. Billed'
    BY <2>0, <2>6, BulkHolders DEF TypeOK, PassTypes
  <2>5. QED
    BY <1>12, <2>1, <2>2, <2>3, <2>4 DEF FailNullTasks, TaskBulkUpdateByID, Fault, Quiet, request
<1>13. ASSUME NEW p \in Pollers, UpdateTask(p) PROVE Core' /\ Quiet'
  <2>0. /\ cur[p] \in Tasks /\ cur[p] \in todo[p] /\ pc[p] = "cas"
        /\ seenQuota[p][cur[p]] = Price /\ target[p] \in Nat
        /\ IsUnfinished(cur[p])
        /\ status' = [status EXCEPT ![cur[p]] = new[p]]
        /\ quota' = [quota EXCEPT ![cur[p]] = Price]
    BY <1>13, HeldCopy, CurTypes DEF UpdateTask, UpdateWithStatus, IsUnfinished
  <2>6. /\ quota[cur[p]] = Price /\ paid[cur[p]] = Price /\ tokenPaid[cur[p]] = TokenShare(cur[p], Price)
        /\ \A q \in Pollers : pc[q] \in Busy => cur[q] # cur[p]
    BY <2>0, Unbilled
  <2>7. quota' = quota
    BY <2>0, <2>6 DEF TypeOK, RowTypes
  <2>8. UNCHANGED <<paid, tokenPaid, hurt>>
    BY <1>13 DEF UpdateTask, ledger, failed
  <2>9. /\ new[p] = "FAILURE" => target[p] = 0
        /\ new[p] = "SUCCESS" => target[p] # 0
        /\ new[p] \in Unfinished => target[p] = Price
        /\ new[p] \in Unfinished \cup Finished
    BY <2>0, CurTypes DEF Copies, Copy
  <2>10. \/ target[p] # Price /\ pc' = [pc EXCEPT ![p] = "fund"] /\ UNCHANGED <<cur, target>>
         \/ /\ target[p] = Price /\ pc' = [pc EXCEPT ![p] = "next"]
            /\ cur' = [cur EXCEPT ![p] = NoTask] /\ target' = [target EXCEPT ![p] = 0]
    BY <1>13, <2>0 DEF UpdateTask, Done
  <2>1. Rows'
    BY <2>0, <2>6, <2>7, <2>8, <2>9 DEF Rows, IsUnfinished, Unfinished, Finished
  <2>2. Copies'
    <3>1. \A q \in Pollers : q # p => /\ todo'[q] = todo[q] /\ seenQuota'[q] = seenQuota[q]
                                     /\ pc'[q] = pc[q] /\ cur'[q] = cur[q]
                                     /\ new'[q] = new[q] /\ target'[q] = target[q]
      BY <1>13 DEF UpdateTask, Done, TypeOK, PassTypes
    <3>2. \A u \in Tasks : HasRow(u) => HasRow(u)'
      BY <2>0, <2>9 DEF HasRow, NoRow, TypeOK, RowTypes, Unfinished, Finished
    <3>3. todo[p] \subseteq Tasks
      BY DEF TypeOK, PassTypes
    <3>4. \/ /\ pc'[p] = "fund"
             /\ todo'[p] = todo[p] /\ seenQuota'[p] = seenQuota[p] /\ cur'[p] = cur[p]
          \/ /\ todo'[p] = todo[p] \ {cur[p]} /\ pc'[p] = "next"
             /\ cur'[p] = NoTask /\ target'[p] = 0
             /\ \A u \in todo'[p] : seenQuota'[p][u] = seenQuota[p][u]
      BY <1>13, <2>0, <3>3 DEF UpdateTask, Done, TypeOK, PassTypes
    <3>5. Copy(p)'
      BY <3>2, <3>3, <3>4, TaskBillingAssumption DEF Copies, Copy
    <3>6. ASSUME NEW q \in Pollers, q # p PROVE Copy(q)'
      <4>1. Copy(q) /\ todo[q] \subseteq Tasks
        BY DEF Copies, TypeOK, PassTypes
      <4>2. QED
        BY <3>1, <3>2, <3>6, <4>1 DEF Copy
    <3>7. QED
      BY <3>5, <3>6 DEF Copies
  <2>3. Holders'
    <3>1. \A q \in Pollers : pc[q] \in Busy => cur[q] \in Tasks
      BY BusyCur
    <3>2. \A q \in Pollers : q # p => pc'[q] = pc[q] /\ cur'[q] = cur[q] /\ target'[q] = target[q]
      BY <2>10 DEF TypeOK, PassTypes
    <3>3. \A t \in Tasks : t # cur[p] => status'[t] = status[t]
      BY <2>0 DEF TypeOK, RowTypes
    <3>4. status'[cur[p]] = new[p]
      BY <2>0 DEF TypeOK, RowTypes
    <3>5. pc'[p] \in Busy => /\ pc'[p] = "fund" /\ cur'[p] = cur[p] /\ target'[p] = target[p]
                             /\ new[p] \in Finished
      BY <2>9, <2>10 DEF TypeOK, PassTypes, Busy
    <3>6. \A q \in Pollers : q # p => Holder(q)'
      BY <2>6, <2>7, <2>8, <3>1, <3>2, <3>3, HolderKept
    <3>7. Holder(p)'
      BY <2>6, <2>7, <2>8, <3>4, <3>5 DEF Holder
    <3>8. Apart'
      BY <2>6, <3>2, <3>5 DEF Holders, Apart
    <3>9. QED
      BY <3>6, <3>7, <3>8 DEF Holders
  <2>4. Billed'
    <3>1. \A q \in Pollers : q # p => pc'[q] = pc[q] /\ cur'[q] = cur[q]
      BY <2>10 DEF TypeOK, PassTypes
    <3>2. \A t \in Tasks : t # cur[p] => status'[t] = status[t]
      BY <2>0 DEF TypeOK, RowTypes
    <3>3. \A t \in Tasks : t # cur[p] => (InHand(t)' <=> InHand(t))
      BY <2>0, <2>10, <3>1 DEF InHand, TypeOK, PassTypes
    <3>4. QED
      BY <2>0, <2>6, <2>7, <2>8, <3>2, <3>3 DEF Billed, HasRow
  <2>5. QED
    BY <1>13, <2>1, <2>2, <2>3, <2>4 DEF UpdateTask, UpdateWithStatus, Done, Quiet, request
<1>14. ASSUME NEW p \in Pollers, UpdateTaskLost(p) PROVE Core' /\ Quiet'
  <2>1. Rows'
    BY <1>14 DEF UpdateTaskLost, Rows, IsUnfinished, row, ledger
  <2>2. Copies'
    BY <1>14 DEF UpdateTaskLost, Done, Copies, Copy, HasRow, TypeOK, RowTypes, PassTypes,
       FailedTypes, row
  <2>3. Holders'
    BY <1>14 DEF UpdateTaskLost, Done, Fault, Holders, Holder, Apart, Busy, row, ledger, failed
  <2>4. Billed'
    BY <1>14 DEF UpdateTaskLost, Done, Fault, Billed, HasRow, InHand, row, ledger, failed
  <2>5. QED
    BY <1>14, <2>1, <2>2, <2>3, <2>4 DEF UpdateTaskLost, Done, Fault, Quiet, request
<1>15. ASSUME NEW p \in Pollers, TaskAdjustFunding(p) PROVE Core' /\ Quiet'
  <2>0. /\ cur[p] \in Tasks /\ pc[p] = "fund" /\ target[p] \in Nat /\ Owed(p) = target[p] - Price
        /\ pc' = [pc EXCEPT ![p] = "token"]
        /\ UNCHANGED <<status, quota, tokenPaid, cur, target, hurt>>
    BY <1>15, HeldCopy DEF TaskAdjustFunding, row, failed
  <2>6. /\ paid[cur[p]] = Price /\ tokenPaid[cur[p]] = TokenShare(cur[p], Price) /\ quota[cur[p]] = Price
        /\ status[cur[p]] \in Finished
        /\ \A q \in Pollers : pc[q] \in Busy /\ q # p => cur[q] # cur[p]
    BY <2>0 DEF Holders, Holder, Apart, Busy
  <2>7. paid'[cur[p]] = target[p] /\ \A t \in Tasks : t # cur[p] => paid'[t] = paid[t]
    <3>1. paid' = [paid EXCEPT ![cur[p]] = paid[cur[p]] + Owed(p)]
      BY <1>15 DEF TaskAdjustFunding
    <3>2. paid[cur[p]] + Owed(p) = target[p]
      BY <2>0, <2>6
    <3>3. QED
      BY <2>0, <3>1, <3>2 DEF TypeOK, RowTypes
  <2>8. \A q \in Pollers : q # p => pc'[q] = pc[q]
    BY <2>0 DEF TypeOK, PassTypes
  <2>9. pc'[p] = "token"
    BY <2>0 DEF TypeOK, PassTypes
  <2>1. Rows'
    BY <2>0, <2>6, <2>7 DEF Rows, IsUnfinished, Unfinished, Finished
  <2>2. Copies'
    BY <1>15, <2>0 DEF TaskAdjustFunding, Copies, Copy, HasRow
  <2>3. Holders'
    <3>1. \A q \in Pollers : pc[q] \in Busy => cur[q] \in Tasks
      BY BusyCur
    <3>2. \A q \in Pollers : q # p => Holder(q)'
      BY <2>0, <2>6, <2>7, <2>8, <3>1, HolderKept
    <3>3. Holder(p)'
      BY <2>0, <2>6, <2>7, <2>9 DEF Holder, Busy
    <3>4. Apart'
      BY <2>0, <2>6, <2>8, <2>9 DEF Holders, Apart, Busy
    <3>5. QED
      BY <3>2, <3>3, <3>4 DEF Holders
  <2>4. Billed'
    <3>1. \A t \in Tasks : InHand(t)' <=> InHand(t)
      BY <2>0, <2>8, <2>9 DEF InHand
    <3>2. InHand(cur[p])
      BY <2>0 DEF InHand
    <3>3. QED
      BY <2>0, <2>6, <2>7, <3>1, <3>2 DEF Billed, HasRow
  <2>5. QED
    BY <1>15, <2>1, <2>2, <2>3, <2>4 DEF TaskAdjustFunding, Owed, Quiet, request
<1>16. ASSUME NEW p \in Pollers, TaskAdjustFundingFails(p) PROVE Core' /\ Quiet'
  <2>1. Rows'
    BY <1>16 DEF TaskAdjustFundingFails, Rows, IsUnfinished, row, ledger
  <2>2. Copies'
    BY <1>16 DEF TaskAdjustFundingFails, Done, Copies, Copy, HasRow, TypeOK, PassTypes, row
  <2>3. Holders'
    BY <1>16 DEF TaskAdjustFundingFails, Fault, Done, Holders, Holder, Apart, Busy, TypeOK,
       PassTypes, row, ledger
  <2>4. Billed'
    BY <1>16 DEF TaskAdjustFundingFails, Fault, Done, Billed, HasRow, InHand, row, ledger
  <2>5. QED
    BY <1>16, <2>1, <2>2, <2>3, <2>4 DEF TaskAdjustFundingFails, Fault, Done, Quiet, request
<1>17. ASSUME NEW p \in Pollers, TaskAdjustTokenQuota(p) PROVE Core' /\ Quiet'
  <2>0. /\ cur[p] \in Tasks /\ pc[p] = "token" /\ target[p] \in Nat /\ Owed(p) = target[p] - Price
        /\ pc' = [pc EXCEPT ![p] = "quota"]
        /\ UNCHANGED <<status, quota, paid, cur, target>>
        /\ hurt \subseteq hurt'
    BY <1>17, HeldCopy DEF TaskAdjustTokenQuota, row, failed, Fault
  <2>6. /\ paid[cur[p]] = target[p] /\ tokenPaid[cur[p]] = TokenShare(cur[p], Price) /\ quota[cur[p]] = Price
        /\ status[cur[p]] \in Finished
        /\ \A q \in Pollers : pc[q] \in Busy /\ q # p => cur[q] # cur[p]
    BY <2>0 DEF Holders, Holder, Apart, Busy
  <2>7. /\ tokenPaid'[cur[p]] = TokenShare(cur[p], target[p]) \/ cur[p] \in hurt'
        /\ tokenPaid'[cur[p]] \in Nat
        /\ \A t \in Tasks : t # cur[p] => tokenPaid'[t] = tokenPaid[t]
    <3>1. CASE tokenPaid' = [tokenPaid EXCEPT ![cur[p]] = @ + TokenShare(cur[p], Owed(p))]
      <4>1. /\ tokenPaid[cur[p]] + TokenShare(cur[p], Owed(p)) = TokenShare(cur[p], target[p])
            /\ TokenShare(cur[p], target[p]) \in Nat
        BY <2>0, <2>6 DEF TokenShare
      <4>2. QED
        BY <2>0, <3>1, <4>1 DEF TypeOK, RowTypes
    <3>2. CASE Fault("token", {cur[p]}) /\ UNCHANGED tokenPaid
      BY <2>0, <2>6, <3>2 DEF Fault, TokenShare
    <3>3. QED
      BY <1>17, <3>1, <3>2 DEF TaskAdjustTokenQuota
  <2>8. \A q \in Pollers : q # p => pc'[q] = pc[q]
    BY <2>0 DEF TypeOK, PassTypes
  <2>9. pc'[p] = "quota"
    BY <2>0 DEF TypeOK, PassTypes
  <2>1. Rows'
    BY <2>0, <2>6, <2>7 DEF Rows, IsUnfinished, Unfinished, Finished
  <2>2. Copies'
    BY <1>17, <2>0 DEF TaskAdjustTokenQuota, Copies, Copy, HasRow
  <2>3. Holders'
    <3>1. \A q \in Pollers : pc[q] \in Busy => cur[q] \in Tasks
      BY BusyCur
    <3>2. \A q \in Pollers : q # p => Holder(q)'
      BY <2>0, <2>6, <2>7, <2>8, <3>1, HolderKept
    <3>3. Holder(p)'
      BY <2>0, <2>6, <2>7, <2>9 DEF Holder, Busy
    <3>4. Apart'
      BY <2>0, <2>6, <2>8, <2>9 DEF Holders, Apart, Busy
    <3>5. QED
      BY <3>2, <3>3, <3>4 DEF Holders
  <2>4. Billed'
    <3>1. \A t \in Tasks : InHand(t)' <=> InHand(t)
      BY <2>0, <2>8, <2>9 DEF InHand
    <3>2. InHand(cur[p])
      BY <2>0 DEF InHand
    <3>3. QED
      BY <2>0, <2>6, <2>7, <3>1, <3>2 DEF Billed, HasRow
  <2>5. QED
    BY <1>17, <2>1, <2>2, <2>3, <2>4 DEF TaskAdjustTokenQuota, Fault, Owed, Quiet, request
<1>18. ASSUME NEW p \in Pollers, UpdateQuota(p) PROVE Core' /\ Quiet'
  <2>0. /\ cur[p] \in Tasks /\ pc[p] = "quota" /\ target[p] \in Nat
        /\ pc' = [pc EXCEPT ![p] = "next"] /\ cur' = [cur EXCEPT ![p] = NoTask]
        /\ target' = [target EXCEPT ![p] = 0]
        /\ UNCHANGED <<status, paid, tokenPaid>>
        /\ hurt \subseteq hurt'
    BY <1>18, HeldCopy DEF UpdateQuota, Done, ledger, failed, Fault
  <2>6. /\ paid[cur[p]] = target[p] /\ quota[cur[p]] = Price
        /\ tokenPaid[cur[p]] = TokenShare(cur[p], target[p]) \/ cur[p] \in hurt
        /\ status[cur[p]] \in Finished
        /\ \A q \in Pollers : pc[q] \in Busy /\ q # p => cur[q] # cur[p]
    BY <2>0 DEF Holders, Holder, Apart, Busy
  <2>7. /\ quota'[cur[p]] = target[p] \/ (quota'[cur[p]] = Price /\ cur[p] \in hurt')
        /\ \A t \in Tasks : t # cur[p] => quota'[t] = quota[t]
    <3>1. CASE quota' = [quota EXCEPT ![cur[p]] = target[p]]
      <4>1. cur[p] \in Tasks /\ quota \in [Tasks -> Nat]
        BY <2>0 DEF TypeOK, RowTypes
      <4>2. QED
        BY <3>1, <4>1
    <3>2. CASE Fault("quota", {cur[p]}) /\ UNCHANGED quota
      BY <2>6, <3>2 DEF Fault
    <3>3. QED
      BY <1>18, <3>1, <3>2 DEF UpdateQuota
  <2>8. \A q \in Pollers : q # p => pc'[q] = pc[q] /\ cur'[q] = cur[q] /\ target'[q] = target[q]
    BY <2>0 DEF TypeOK, PassTypes
  <2>9. pc'[p] = "next"
    BY <2>0 DEF TypeOK, PassTypes
  <2>1. Rows'
    BY <2>0, <2>6, <2>7 DEF Rows, IsUnfinished, Unfinished, Finished
  <2>2. Copies'
    BY <1>18, <2>0 DEF UpdateQuota, Done, Copies, Copy, HasRow, TypeOK, PassTypes
  <2>3. Holders'
    <3>1. \A q \in Pollers : pc[q] \in Busy => cur[q] \in Tasks
      BY BusyCur
    <3>2. \A q \in Pollers : q # p => Holder(q)'
      BY <2>0, <2>6, <2>7, <2>8, <3>1, HolderKept
    <3>3. Holder(p)'
      BY <2>0, <2>6, <2>7, <2>9 DEF Holder, Busy
    <3>4. Apart'
      BY <2>0, <2>6, <2>8, <2>9 DEF Holders, Apart, Busy
    <3>5. QED
      BY <3>2, <3>3, <3>4 DEF Holders
  <2>4. Billed'
    <3>1. \A t \in Tasks : t # cur[p] => (InHand(t)' <=> InHand(t))
      BY <2>0, <2>8, <2>9 DEF InHand
    <3>2. \A t \in Tasks \ Legacy : t # cur[p] /\ HasRow(t)' =>
             /\ quota'[t] = 0 => paid'[t] = 0
             /\ t \notin hurt' /\ ~InHand(t)' => paid'[t] = quota'[t] /\ tokenPaid'[t] = TokenShare(t, quota'[t])
      BY <2>0, <2>7, <3>1 DEF Billed, HasRow
    <3>3. /\ quota'[cur[p]] = 0 => paid'[cur[p]] = 0
          /\ cur[p] \notin hurt' => paid'[cur[p]] = quota'[cur[p]] /\ tokenPaid'[cur[p]] = TokenShare(cur[p], quota'[cur[p]])
      BY <2>0, <2>6, <2>7
    <3>4. QED
      BY <3>2, <3>3 DEF Billed
  <2>5. QED
    BY <1>18, <2>1, <2>2, <2>3, <2>4 DEF UpdateQuota, Fault, Done, Quiet, request
<1>19. ASSUME NEW p \in Pollers, NEW t \in Tasks, CacheGetChannel(p, Channel[t]) PROVE Core' /\ Quiet'
  <2>1. Rows'
    BY <1>19 DEF CacheGetChannel, Rows, IsUnfinished, row, ledger
  <2>2. Copies'
    BY <1>19 DEF CacheGetChannel, Copies, Copy, HasRow, row
  <2>3. Holders'
    BY <1>19 DEF CacheGetChannel, Holders, Holder, Apart, row, ledger, failed
  <2>4. Billed'
    BY <1>19 DEF CacheGetChannel, Billed, HasRow, InHand, row, ledger, failed
  <2>5. QED
    BY <1>19, <2>1, <2>2, <2>3, <2>4 DEF CacheGetChannel, ChannelTasks, Quiet, request
<1>20. ASSUME NEW p \in Pollers, NEW t \in Tasks, ChannelNotFound(p, Channel[t]) PROVE Core' /\ Quiet'
  <2>0. ChannelTasks(p, Channel[t]) \in SUBSET todo[p] /\ TaskBulkUpdateByID(p, ChannelTasks(p, Channel[t]))
    BY <1>20 DEF ChannelNotFound, ChannelTasks
  <2>6. todo[p] \subseteq Tasks
    BY DEF TypeOK, PassTypes
  <2>1. Rows'
    BY <1>20, <2>0 DEF TaskBulkUpdateByID, Rows, IsUnfinished, Unfinished, ledger
  <2>2. Copies'
    BY <1>20, <2>0 DEF ChannelNotFound, TaskBulkUpdateByID, Copies, Copy, HasRow, TypeOK,
       RowTypes, PassTypes, NoRow
  <2>3. Holders'
    BY <2>0, <2>6, BulkHolders DEF TypeOK, PassTypes
  <2>4. Billed'
    BY <2>0, <2>6, BulkHolders DEF TypeOK, PassTypes
  <2>5. QED
    BY <1>20, <2>1, <2>2, <2>3, <2>4 DEF ChannelNotFound, TaskBulkUpdateByID, Quiet, request
<1>21. ASSUME NEW p \in Pollers, NEW t \in Tasks, FetchNothing(p, t) PROVE Core' /\ Quiet'
  <2>1. Rows'
    BY <1>21 DEF FetchNothing, Rows, IsUnfinished, row, ledger
  <2>2. Copies'
    BY <1>21 DEF FetchNothing, Done, Copies, Copy, HasRow, TypeOK, PassTypes, row
  <2>3. Holders'
    BY <1>21 DEF FetchNothing, Done, Holders, Holder, Apart, Busy, row, ledger, failed
  <2>4. Billed'
    BY <1>21 DEF FetchNothing, Done, Billed, HasRow, InHand, row, ledger, failed
  <2>5. QED
    BY <1>21, <2>1, <2>2, <2>3, <2>4 DEF FetchNothing, Done, ChannelTasks, Quiet, request
<1>22. ASSUME NEW p \in Pollers, NEW t \in Tasks, SweepTask(p, t) PROVE Core' /\ Quiet'
  <2>0. /\ t \in todo[p] /\ pc[p] = "next"
        /\ IsUnfinished(t) /\ seenQuota[p][t] = Price
        /\ status' = [status EXCEPT ![t] = "FAILURE"]
        /\ quota' = [quota EXCEPT ![t] = IF t \in Legacy THEN 0 ELSE Price]
    <3>1. t \in todo[p] /\ pc[p] = "next" /\ seenQuota[p][t] = Price
      BY <1>22 DEF SweepTask, Copies, Copy
    <3>2. seen[p][t] \in Unfinished
      BY DEF TypeOK, PassTypes
    <3>3. QED
      BY <1>22, <3>1, <3>2 DEF SweepTask, UpdateWithStatus, IsUnfinished
  <2>6. /\ quota[t] = Price /\ paid[t] = Price /\ tokenPaid[t] = TokenShare(t, Price)
        /\ \A q \in Pollers : pc[q] \in Busy => cur[q] # t
    BY <2>0, Unbilled
  <2>8. UNCHANGED <<paid, tokenPaid, hurt>>
    BY <1>22 DEF SweepTask, ledger, failed
  <2>10. \/ /\ t \notin Legacy /\ pc' = [pc EXCEPT ![p] = "fund"]
            /\ cur' = [cur EXCEPT ![p] = t] /\ UNCHANGED target
         \/ /\ t \in Legacy /\ pc' = [pc EXCEPT ![p] = "next"]
            /\ cur' = [cur EXCEPT ![p] = NoTask] /\ target' = [target EXCEPT ![p] = 0]
    BY <1>22, <2>0 DEF SweepTask, Done
  <2>1. Rows'
    BY <2>0, <2>6, <2>8 DEF Rows, IsUnfinished, TypeOK, RowTypes, Unfinished
  <2>2. Copies'
    <3>1. \A q \in Pollers : q # p => /\ todo'[q] = todo[q] /\ seenQuota'[q] = seenQuota[q]
                                     /\ pc'[q] = pc[q] /\ cur'[q] = cur[q]
                                     /\ new'[q] = new[q] /\ target'[q] = target[q]
      BY <1>22 DEF SweepTask, Done, TypeOK, PassTypes
    <3>2. \A u \in Tasks : HasRow(u) => HasRow(u)'
      BY <2>0 DEF HasRow, NoRow, TypeOK, RowTypes
    <3>3. todo[p] \subseteq Tasks /\ target[p] = 0
      BY <2>0 DEF Copies, Copy, TypeOK, PassTypes
    <3>4. /\ todo'[p] \subseteq todo[p]
          /\ \A u \in todo'[p] : seenQuota'[p][u] = seenQuota[p][u]
      BY <1>22 DEF SweepTask, Done, TypeOK, PassTypes
    <3>5. /\ pc'[p] \in {"fund", "next"} /\ target'[p] = 0
          /\ cur'[p] \in Tasks => cur'[p] \in todo'[p]
      BY <1>22, <2>0, <2>10, <3>3 DEF SweepTask, TypeOK, PassTypes
    <3>6. ASSUME NEW q \in Pollers, q # p PROVE Copy(q)'
      <4>1. Copy(q) /\ todo[q] \subseteq Tasks
        BY DEF Copies, TypeOK, PassTypes
      <4>2. QED
        BY <3>1, <3>2, <3>6, <4>1 DEF Copy
    <3>7. Copy(p)'
      <4>1. Copy(p)
        BY DEF Copies
      <4>2. QED
        BY <3>2, <3>3, <3>4, <3>5, <4>1 DEF Copy
    <3>8. QED
      BY <3>6, <3>7 DEF Copies
  <2>3. Holders'
    <3>1. \A q \in Pollers : pc[q] \in Busy => cur[q] \in Tasks
      BY BusyCur
    <3>2. \A q \in Pollers : q # p => pc'[q] = pc[q] /\ cur'[q] = cur[q] /\ target'[q] = target[q]
      BY <2>10 DEF TypeOK, PassTypes
    <3>3. \A u \in Tasks : u # t => status'[u] = status[u] /\ quota'[u] = quota[u]
      BY <2>0 DEF TypeOK, RowTypes
    <3>4. status'[t] = "FAILURE" /\ (t \notin Legacy => quota'[t] = Price)
      BY <2>0 DEF TypeOK, RowTypes
    <3>5. pc'[p] \in Busy => pc'[p] = "fund" /\ cur'[p] = t /\ t \notin Legacy
      BY <2>10 DEF TypeOK, PassTypes, Busy
    <3>6. \A q \in Pollers : q # p => Holder(q)'
      BY <2>6, <2>8, <3>1, <3>2, <3>3, HolderKept
    <3>7. Holder(p)'
      BY <2>6, <2>8, <3>4, <3>5 DEF Holder, Finished
    <3>8. Apart'
      BY <2>6, <3>2, <3>5 DEF Holders, Apart
    <3>9. QED
      BY <3>6, <3>7, <3>8 DEF Holders
  <2>4. Billed'
    <3>1. \A q \in Pollers : q # p => pc'[q] = pc[q] /\ cur'[q] = cur[q]
      BY <2>10 DEF TypeOK, PassTypes
    <3>2. \A u \in Tasks : u # t => status'[u] = status[u] /\ quota'[u] = quota[u]
      BY <2>0 DEF TypeOK, RowTypes
    <3>3. \A u \in Tasks : u # t => (InHand(u)' <=> InHand(u))
      BY <2>0, <2>10, <3>1 DEF InHand, TypeOK, PassTypes
    <3>5. t \notin Legacy => quota'[t] = Price
      BY <2>0 DEF TypeOK, RowTypes
    <3>4. QED
      BY <2>0, <2>6, <2>8, <3>2, <3>3, <3>5 DEF Billed, HasRow
  <2>5. QED
    BY <1>22, <2>1, <2>2, <2>3, <2>4 DEF SweepTask, UpdateWithStatus, Done, Quiet, request
<1>23. ASSUME NEW p \in Pollers, NEW t \in Tasks, SweepTaskLost(p, t) PROVE Core' /\ Quiet'
  <2>1. Rows'
    BY <1>23 DEF SweepTaskLost, Rows, IsUnfinished, row, ledger
  <2>2. Copies'
    BY <1>23 DEF SweepTaskLost, Done, Copies, Copy, HasRow, TypeOK, PassTypes, row
  <2>3. Holders'
    BY <1>23 DEF SweepTaskLost, Done, Fault, Holders, Holder, Apart, Busy, row, ledger, failed
  <2>4. Billed'
    BY <1>23 DEF SweepTaskLost, Done, Fault, Billed, HasRow, InHand, row, ledger, failed
  <2>5. QED
    BY <1>23, <2>1, <2>2, <2>3, <2>4 DEF SweepTaskLost, Done, Fault, Quiet, request
<1>24. ASSUME NEW p \in Pollers, NEW t \in Tasks, NEW answer \in Answers(t), NEW actual \in Actuals, FetchTask(p, t, answer, actual) PROVE Core' /\ Quiet'
  <2>1. Rows'
    BY <1>24 DEF FetchTask, Rows, IsUnfinished, row, ledger
  <2>2. Copies'
    BY <1>24 DEF FetchTask, Corrected, ChannelTasks, Copies, Copy, HasRow, TypeOK, PassTypes,
       Unfinished, row
  <2>3. Holders'
    BY <1>24 DEF FetchTask, Holders, Holder, Apart, Busy, row, ledger, failed
  <2>4. Billed'
    BY <1>24 DEF FetchTask, Billed, HasRow, InHand, row, ledger, failed
  <2>5. QED
    BY <1>24, <2>1, <2>2, <2>3, <2>4 DEF FetchTask, Quiet, request
<1>25. ASSUME NEW r \in Readers, NEW t \in Tasks, RealtimeRead(r, t) PROVE Core' /\ Quiet'
  BY <1>25 DEF RealtimeRead
<1>26. ASSUME NEW r \in Readers, RealtimeFetch(r) PROVE Core' /\ Quiet'
  BY <1>26 DEF RealtimeFetch, Quiet
<1>27. ASSUME NEW r \in Readers, RealtimeWrite(r) PROVE Core' /\ Quiet'
  BY <1>27 DEF RealtimeWrite, Quiet
<1>28. ASSUME NEW r \in Readers, RealtimeGivesUp(r) PROVE Core' /\ Quiet'
  BY <1>28 DEF RealtimeGivesUp, Quiet
<1>29. CASE UNCHANGED vars
  BY <1>29, CoreUntouched DEF Quiet, vars, request, failed
<1>30. QED
  BY <1>1, <1>2, <1>3, <1>4, <1>5, <1>6, <1>7, <1>8, <1>9, <1>10, <1>11, <1>12, <1>13, <1>14,
     <1>15, <1>16, <1>17, <1>18, <1>19, <1>20, <1>21, <1>22, <1>23, <1>24, <1>25, <1>26, <1>27,
     <1>28, <1>29 DEF Next, PollerStep, ReaderStep

LEMMA Inductive == ASSUME Realtime = {} PROVE Spec => []IInv
<1>1. Init => IInv
  BY TypeInit, CoreInit DEF IInv
<1>2. IInv /\ [Next]_vars => IInv'
  BY TypeNext, CoreNext DEF IInv
<1>3. QED
  BY <1>1, <1>2, PTL DEF Spec

-----------------------------------------------------------------------------
(* What the invariant gives.                                               *)

\* With no client writing rows, overlapping passes never return more than a
\* task was charged, whatever statement fails and wherever a pass stops.
THEOREM RefundsBounded == ASSUME Realtime = {} PROVE Spec => []NeverOverRefunded
<1>1. IInv => NeverOverRefunded
  BY DEF IInv, Core, Rows, NeverOverRefunded
<1>2. QED
  BY <1>1, Inductive, PTL

\* With no client writing rows, the quota column of an unhurt task that is in
\* no pass's hands is what the customer has paid.
THEOREM RowTellsCharge == ASSUME Realtime = {} PROVE Spec => []QuotaIsPaid
<1>1. IInv => QuotaIsPaid
  BY DEF IInv, Core, Billed, QuotaIsPaid
<1>2. QED
  BY <1>1, Inductive, PTL

\* With no client writing rows, a failed row with quota 0 hides no charge, even
\* after failures and crashes.
THEOREM ClearedLast == ASSUME Realtime = {} PROVE Spec => []ClearedMeansRefunded
<1>1. IInv => ClearedMeansRefunded
  BY DEF IInv, Core, Billed, ClearedMeansRefunded, HasRow, NoRow
<1>2. QED
  BY <1>1, Inductive, PTL

\* With no client writing rows and no unguarded bulk update (every row has an
\* upstream id and every channel is found), a terminal status is final.
THEOREM TerminalStays ==
  ASSUME Realtime = {}, Gone = {}, NullTasks = {}
  PROVE  Spec => TerminalIsFinal
<1> DEFINE Stays == \A t \in Tasks : status[t] \in Finished => status'[t] = status[t]
<1>1. IInv /\ [Next]_vars => [Stays]_vars
  <2> SUFFICES ASSUME IInv, [Next]_vars PROVE [Stays]_vars
    OBVIOUS
  <2> USE TaskBillingAssumption DEF IInv
  <2>1. UNCHANGED status => Stays
    OBVIOUS
  <2>2. ASSUME NEW t \in Tasks, NEW from \in NoRow \cup Unfinished, NEW to,
               status[t] = from, status' = [status EXCEPT ![t] = to]
        PROVE  Stays
    BY <2>2 DEF TypeOK, RowTypes, NoRow, Unfinished, Finished
  <2>3. ASSUME NEW t \in Tasks, Charge(t) \/ Insert(t) \/ InsertLost(t) PROVE Stays
    BY <2>2, <2>3 DEF Charge, Insert, InsertLost, NoRow
  <2>4. ASSUME NEW p \in Pollers, UpdateTask(p) PROVE Stays
    <3>1. cur[p] \in Tasks /\ seen[p][cur[p]] \in Unfinished
      BY <2>4, CurTypes DEF UpdateTask
    <3>2. status[cur[p]] = seen[p][cur[p]] /\ status' = [status EXCEPT ![cur[p]] = new[p]]
      BY <2>4 DEF UpdateTask, UpdateWithStatus
    <3>3. QED
      BY <2>2, <3>1, <3>2
  <2>5. ASSUME NEW p \in Pollers, NEW t \in Tasks, SweepTask(p, t) PROVE Stays
    <3>4. seen \in [Pollers -> [Tasks -> Unfinished]]
      BY DEF TypeOK, PassTypes
    <3>1. seen[p][t] \in Unfinished
      BY <3>4
    <3>2. status[t] = seen[p][t] /\ status' = [status EXCEPT ![t] = "FAILURE"]
      BY <2>5 DEF SweepTask, UpdateWithStatus
    <3>3. QED
      BY <2>2, <3>1, <3>2
  <2>6. ASSUME NEW p \in Pollers, FailNullTasks(p) PROVE FALSE
    BY <2>6 DEF FailNullTasks
  <2>7. ASSUME NEW p \in Pollers, NEW c, ChannelNotFound(p, c) PROVE FALSE
    BY <2>7 DEF ChannelNotFound
  <2>8. ASSUME NEW r \in Readers, RealtimeWrite(r) PROVE FALSE
    BY <2>8 DEF RealtimeWrite, Quiet
  <2>9. ASSUME NEW t \in Tasks,
               Age(t) \/ UpstreamStarts(t) \/ \E s \in Finished : UpstreamFinishes(t, s)
        PROVE  UNCHANGED status
    BY <2>9 DEF Age, UpstreamStarts, UpstreamFinishes, row
  <2>10. ASSUME NEW p \in Pollers,
                \/ SweepRead(p) \/ ListRead(p) \/ PassEnds(p) \/ PassCancelled(p) \/ Crash(p)
                \/ UpdateTaskLost(p) \/ TaskAdjustFunding(p) \/ TaskAdjustFundingFails(p)
                \/ TaskAdjustTokenQuota(p) \/ UpdateQuota(p)
         PROVE  UNCHANGED status
    BY <2>10 DEF SweepRead, ListRead, PassEnds, PassCancelled, Crash, UpdateTaskLost,
       TaskAdjustFunding, TaskAdjustFundingFails, TaskAdjustTokenQuota, UpdateQuota, row
  <2>11. ASSUME NEW p \in Pollers, NEW t \in Tasks,
                \/ CacheGetChannel(p, Channel[t]) \/ FetchNothing(p, t) \/ SweepTaskLost(p, t)
                \/ \E answer \in Answers(t), actual \in Actuals : FetchTask(p, t, answer, actual)
         PROVE  UNCHANGED status
    BY <2>11 DEF CacheGetChannel, FetchNothing, SweepTaskLost, FetchTask, row
  <2>12. ASSUME NEW r \in Readers,
                (\E t \in Tasks : RealtimeRead(r, t)) \/ RealtimeFetch(r) \/ RealtimeGivesUp(r)
         PROVE  UNCHANGED status
    BY <2>12 DEF RealtimeRead, RealtimeFetch, RealtimeGivesUp, row
  <2>13. CASE Next
    BY <2>1, <2>3, <2>4, <2>5, <2>6, <2>7, <2>8, <2>9, <2>10, <2>11, <2>12, <2>13 DEF Next,
       PollerStep, ReaderStep
  <2>14. QED
    BY <2>13
<1>2. QED
  BY <1>1, Inductive, PTL DEF Spec, TerminalIsFinal

-----------------------------------------------------------------------------
(* A step that neither wins a row nor finishes its billing leaves the      *)
(* tasks in hand in the same hands, or hurts them.                         *)

KeepsHands ==
    /\ hurt \subseteq hurt'
    /\ \A q \in Pollers : pc[q] \in Busy =>
          (pc'[q] \in Busy /\ cur'[q] = cur[q]) \/ cur[q] \in hurt'

NoNewHands ==
    \A q \in Pollers : pc'[q] \in Busy =>
        pc[q] \in Busy /\ cur'[q] = cur[q] /\ target'[q] = target[q]

Calm == KeepsHands /\ NoNewHands

LEMMA CalmUntouched ==
  ASSUME UNCHANGED <<pc, cur, target>>, hurt \subseteq hurt'
  PROVE  Calm
  BY DEF Calm, KeepsHands, NoNewHands

\* A pass that was not billing anything and still is not.
LEMMA CalmIdle ==
  ASSUME TypeOK, NEW p \in Pollers, pc[p] \notin Busy, hurt \subseteq hurt',
         pc'[p] \notin Busy,
         \A q \in Pollers \ {p} : pc'[q] = pc[q] /\ cur'[q] = cur[q] /\ target'[q] = target[q]
  PROVE  Calm
  BY DEF Calm, KeepsHands, NoNewHands

\* A pass that lets go of a task it has hurt.
LEMMA CalmHurt ==
  ASSUME TypeOK, NEW p \in Pollers, pc[p] \in Busy => cur[p] \in hurt', hurt \subseteq hurt',
         pc'[p] \notin Busy,
         \A q \in Pollers \ {p} : pc'[q] = pc[q] /\ cur'[q] = cur[q] /\ target'[q] = target[q]
  PROVE  Calm
  BY DEF Calm, KeepsHands, NoNewHands

\* A pass that goes on with the task it has.
LEMMA CalmOn ==
  ASSUME TypeOK, NEW p \in Pollers, NEW next \in Busy, pc[p] \in Busy, hurt \subseteq hurt',
         pc' = [pc EXCEPT ![p] = next], UNCHANGED <<cur, target>>
  PROVE  Calm
  BY DEF Calm, KeepsHands, NoNewHands, TypeOK, PassTypes

LEMMA FaultHurts == ASSUME NEW kind, NEW ts, Fault(kind, ts) PROVE hurt \subseteq hurt' /\ ts \subseteq hurt'
  BY DEF Fault

\* Every step but the two that win a row and the one that ends its billing.
LEMMA CalmStep ==
  ASSUME TypeOK, [Next]_vars,
         ~\E p \in Pollers : UpdateTask(p) \/ UpdateQuota(p) \/ \E t \in Tasks : SweepTask(p, t)
  PROVE  Calm
<1>1. ASSUME NEW t \in Tasks,
             \/ Charge(t) \/ Insert(t) \/ InsertLost(t) \/ Age(t) \/ UpstreamStarts(t)
             \/ \E s \in Finished : UpstreamFinishes(t, s)
      PROVE  Calm
  <2>1. UNCHANGED pass /\ hurt \subseteq hurt'
    BY <1>1, FaultHurts DEF Charge, Insert, InsertLost, Age, UpstreamStarts, UpstreamFinishes, failed
  <2>2. QED
    BY <2>1, CalmUntouched DEF pass
<1>2. ASSUME NEW r \in Readers, ReaderStep(r) PROVE Calm
  <2>1. UNCHANGED pass /\ hurt \subseteq hurt'
    BY <1>2 DEF ReaderStep, RealtimeRead, RealtimeFetch, RealtimeWrite, RealtimeGivesUp, failed
  <2>2. QED
    BY <2>1, CalmUntouched DEF pass
<1>3. ASSUME NEW p \in Pollers, SweepRead(p) \/ ListRead(p) PROVE Calm
  <2>1. pc[p] \notin Busy /\ pc' = [pc EXCEPT ![p] = "next"] /\ UNCHANGED <<cur, target, hurt>>
    BY <1>3 DEF SweepRead, ListRead, Busy, failed, TypeOK, PassTypes
  <2>2. QED
    BY <2>1, CalmIdle DEF Busy, TypeOK, PassTypes
<1>4. ASSUME NEW p \in Pollers, PassEnds(p) \/ PassCancelled(p) PROVE Calm
  <2>1. pc[p] \notin Busy /\ Forget(p) /\ UNCHANGED hurt
    BY <1>4 DEF PassEnds, PassCancelled, Busy, failed
  <2>2. QED
    BY <2>1, CalmIdle DEF Forget, Busy, TypeOK, PassTypes
<1>5. ASSUME NEW p \in Pollers, Crash(p) PROVE Calm
  <2>1. Forget(p) /\ hurt \subseteq hurt' /\ (pc[p] \in Busy => cur[p] \in hurt')
    BY <1>5, FaultHurts DEF Crash, Busy
  <2>2. QED
    BY <2>1, CalmHurt DEF Forget, Busy, TypeOK, PassTypes
<1>6. ASSUME NEW p \in Pollers, NEW c, FailNullTasks(p) \/ ChannelNotFound(p, c) PROVE Calm
  <2>1. UNCHANGED <<pc, cur, target>> /\ hurt \subseteq hurt'
    BY <1>6, FaultHurts DEF FailNullTasks, ChannelNotFound, TaskBulkUpdateByID, failed
  <2>2. QED
    BY <2>1, CalmUntouched
<1>7. ASSUME NEW p \in Pollers, NEW c, CacheGetChannel(p, c) PROVE Calm
  BY <1>7, CalmUntouched DEF CacheGetChannel, failed
<1>8. ASSUME NEW p \in Pollers, NEW t \in Tasks, FetchNothing(p, t) \/ SweepTaskLost(p, t)
      PROVE  Calm
  <2>1. pc[p] \notin Busy /\ Done(p, t) /\ hurt \subseteq hurt'
    BY <1>8, FaultHurts DEF FetchNothing, SweepTaskLost, Busy, failed
  <2>2. QED
    BY <2>1, CalmIdle DEF Done, Busy, TypeOK, PassTypes
<1>9. ASSUME NEW p \in Pollers, NEW t \in Tasks, NEW answer, NEW actual,
             FetchTask(p, t, answer, actual)
      PROVE  Calm
  <2>1. /\ pc[p] \notin Busy /\ pc'[p] \notin Busy /\ UNCHANGED hurt
        /\ \A q \in Pollers \ {p} : pc'[q] = pc[q] /\ cur'[q] = cur[q] /\ target'[q] = target[q]
    BY <1>9 DEF FetchTask, Busy, failed, TypeOK, PassTypes
  <2>2. QED
    BY <2>1, CalmIdle
<1>10. ASSUME NEW p \in Pollers, UpdateTaskLost(p) PROVE Calm
  <2>1. pc[p] \notin Busy /\ Done(p, cur[p]) /\ hurt \subseteq hurt'
    BY <1>10, FaultHurts DEF UpdateTaskLost, Busy, failed
  <2>2. QED
    BY <2>1, CalmIdle DEF Done, Busy, TypeOK, PassTypes
<1>11. ASSUME NEW p \in Pollers, TaskAdjustFunding(p) PROVE Calm
  BY <1>11, CalmOn DEF TaskAdjustFunding, Busy, failed
<1>12. ASSUME NEW p \in Pollers, TaskAdjustTokenQuota(p) PROVE Calm
  <2>1. hurt \subseteq hurt'
    BY <1>12, FaultHurts DEF TaskAdjustTokenQuota, failed
  <2>2. QED
    BY <1>12, <2>1, CalmOn DEF TaskAdjustTokenQuota, Busy
<1>13. ASSUME NEW p \in Pollers, TaskAdjustFundingFails(p) PROVE Calm
  <2>1. Done(p, cur[p]) /\ hurt \subseteq hurt' /\ cur[p] \in hurt'
    BY <1>13, FaultHurts DEF TaskAdjustFundingFails
  <2>2. QED
    BY <2>1, CalmHurt DEF Done, Busy, TypeOK, PassTypes
<1>14. CASE UNCHANGED vars
  BY <1>14, CalmUntouched DEF vars, pass, failed
<1>15. CASE Next
  BY <1>1, <1>2, <1>3, <1>4, <1>5, <1>6, <1>7, <1>8, <1>9, <1>10, <1>11, <1>12, <1>13, <1>15
     DEF Next, PollerStep
<1>16. QED
  BY <1>14, <1>15

\* Winning a row takes no other task out of anybody's hands.
LEMMA WinKeepsHands ==
  ASSUME TypeOK, NEW p \in Pollers, UpdateTask(p) \/ \E t \in Tasks : SweepTask(p, t)
  PROVE  KeepsHands /\ UNCHANGED ledger
<1>1. pc[p] \notin Busy /\ UNCHANGED <<ledger, hurt>>
  BY DEF UpdateTask, SweepTask, Busy, failed
<1>2. \A q \in Pollers \ {p} : pc'[q] = pc[q] /\ cur'[q] = cur[q]
  <2>1. CASE UpdateTask(p)
    BY <2>1 DEF UpdateTask, Done, TypeOK, PassTypes
  <2>2. ASSUME NEW t \in Tasks, SweepTask(p, t)
        PROVE  \A q \in Pollers \ {p} : pc'[q] = pc[q] /\ cur'[q] = cur[q]
    BY <2>2 DEF SweepTask, Done, TypeOK, PassTypes
  <2>3. QED
    BY <2>1, <2>2
<1>3. QED
  BY <1>1, <1>2 DEF KeepsHands

LEMMA HandsKept ==
  ASSUME KeepsHands, NEW t \in Tasks, t \notin hurt', InHand(t)
  PROVE  InHand(t)'
  BY DEF KeepsHands, InHand, Busy

-----------------------------------------------------------------------------
(* The token follows the funding source.                                   *)

LEMMA TokenNext ==
  ASSUME Realtime = {}, IInv, TokenFollowsFunding, [Next]_vars
  PROVE  TokenFollowsFunding'
<1> USE TaskBillingAssumption DEF IInv, Core
<1>1. ASSUME KeepsHands, UNCHANGED ledger PROVE TokenFollowsFunding'
  <2>1. hurt \subseteq hurt' /\ paid' = paid /\ tokenPaid' = tokenPaid
    BY <1>1 DEF KeepsHands, ledger
  <2>2. \A t \in Tasks : t \notin hurt' /\ ~InHand(t)' => ~InHand(t)
    BY <1>1, HandsKept
  <2>3. QED
    BY <2>1, <2>2 DEF TokenFollowsFunding
<1>2. ASSUME NEW p \in Pollers, UpdateTask(p) \/ \E t \in Tasks : SweepTask(p, t)
      PROVE  TokenFollowsFunding'
  BY <1>1, <1>2, WinKeepsHands
<1>3. ASSUME NEW p \in Pollers, UpdateQuota(p) PROVE TokenFollowsFunding'
  <2>1. /\ pc[p] = "quota" /\ cur[p] \in Tasks /\ hurt \subseteq hurt'
        /\ paid' = paid /\ tokenPaid' = tokenPaid
        /\ \A q \in Pollers \ {p} : pc'[q] = pc[q] /\ cur'[q] = cur[q]
    BY <1>3, BusyCur, FaultHurts DEF UpdateQuota, Done, ledger, failed, Busy, TypeOK, PassTypes
  <2>2. cur[p] \in hurt \/ tokenPaid[cur[p]] = TokenShare(cur[p], paid[cur[p]])
    BY <2>1 DEF Holders, Holder, Busy
  <2>3. \A t \in Tasks : t # cur[p] /\ InHand(t) => InHand(t)'
    BY <2>1 DEF InHand
  <2>4. QED
    BY <2>1, <2>2, <2>3 DEF TokenFollowsFunding
<1>4. ASSUME NEW t \in Tasks, Charge(t) PROVE TokenFollowsFunding'
  <2>1. \A u \in Tasks : InHand(u)' <=> InHand(u)
    BY <1>4 DEF Charge, InHand, pass
  <2>2. \A u \in Tasks : tokenPaid[u] = TokenShare(u, paid[u]) =>
                             tokenPaid'[u] = TokenShare(u, paid'[u])
    BY <1>4 DEF Charge, TypeOK, RowTypes
  <2>3. QED
    BY <1>4, <2>1, <2>2 DEF TokenFollowsFunding, Charge, failed
<1>5. ASSUME NEW p \in Pollers, TaskAdjustFunding(p) \/ TaskAdjustTokenQuota(p)
      PROVE  TokenFollowsFunding'
  <2>1. /\ pc[p] \in Busy /\ cur[p] \in Tasks /\ hurt \subseteq hurt'
        /\ cur' = cur /\ pc'[p] \in Busy
        /\ \A q \in Pollers \ {p} : pc'[q] = pc[q]
    BY <1>5, BusyCur, FaultHurts
       DEF TaskAdjustFunding, TaskAdjustTokenQuota, failed, Busy, TypeOK, PassTypes
  <2>2. \A t \in Tasks : t # cur[p] => paid'[t] = paid[t] /\ tokenPaid'[t] = tokenPaid[t]
    BY <1>5 DEF TaskAdjustFunding, TaskAdjustTokenQuota, TypeOK, RowTypes
  <2>3. InHand(cur[p])' /\ \A t \in Tasks : t # cur[p] /\ InHand(t) => InHand(t)'
    BY <2>1 DEF InHand, Busy
  <2>4. QED
    BY <2>1, <2>2, <2>3 DEF TokenFollowsFunding
<1>6. ASSUME ~\E p \in Pollers : UpdateTask(p) \/ UpdateQuota(p) \/ \E t \in Tasks : SweepTask(p, t),
             ~\E p \in Pollers : TaskAdjustFunding(p) \/ TaskAdjustTokenQuota(p),
             ~\E t \in Tasks : Charge(t)
      PROVE  TokenFollowsFunding'
  <2>1. KeepsHands
    BY <1>6, CalmStep DEF Calm
  <2>2. ASSUME NEW t \in Tasks,
               \/ Insert(t) \/ InsertLost(t) \/ Age(t) \/ UpstreamStarts(t)
               \/ \E s \in Finished : UpstreamFinishes(t, s)
        PROVE  UNCHANGED ledger
    BY <2>2 DEF Insert, InsertLost, Age, UpstreamStarts, UpstreamFinishes
  <2>3. ASSUME NEW r \in Readers, ReaderStep(r) PROVE UNCHANGED ledger
    BY <2>3 DEF ReaderStep, RealtimeRead, RealtimeFetch, RealtimeWrite, RealtimeGivesUp
  <2>4. ASSUME NEW p \in Pollers,
               \/ SweepRead(p) \/ ListRead(p) \/ PassEnds(p) \/ PassCancelled(p) \/ Crash(p)
               \/ FailNullTasks(p) \/ UpdateTaskLost(p) \/ TaskAdjustFundingFails(p)
        PROVE  UNCHANGED ledger
    BY <2>4 DEF SweepRead, ListRead, PassEnds, PassCancelled, Crash, FailNullTasks,
       TaskBulkUpdateByID, UpdateTaskLost, TaskAdjustFundingFails
  <2>5. ASSUME NEW p \in Pollers, NEW t \in Tasks,
               \/ CacheGetChannel(p, Channel[t]) \/ ChannelNotFound(p, Channel[t])
               \/ FetchNothing(p, t) \/ SweepTaskLost(p, t)
               \/ \E answer \in Answers(t), actual \in Actuals : FetchTask(p, t, answer, actual)
        PROVE  UNCHANGED ledger
    BY <2>5 DEF CacheGetChannel, ChannelNotFound, TaskBulkUpdateByID, FetchNothing,
       SweepTaskLost, FetchTask
  <2>6. UNCHANGED vars => UNCHANGED ledger
    BY DEF vars
  <2>7. UNCHANGED ledger
    BY <1>6, <2>2, <2>3, <2>4, <2>5, <2>6 DEF Next, PollerStep
  <2>8. QED
    BY <1>1, <2>1, <2>7
<1>7. QED
  BY <1>2, <1>3, <1>4, <1>5, <1>6

\* With no client writing rows, the token of every row that has one has moved
\* with its funding source, and no token has moved for a row without (TokenId
\* <= 0), whenever no failure has hurt the task and no pass has the billing in
\* hand (taskAdjustFunding, taskAdjustTokenQuota).
THEOREM TokenFollows == ASSUME Realtime = {} PROVE Spec => []TokenFollowsFunding
<1>1. Init => TokenFollowsFunding
  BY DEF Init, TokenFollowsFunding
<1>2. IInv /\ TokenFollowsFunding /\ [Next]_vars => TokenFollowsFunding'
  BY TokenNext
<1>3. QED
  BY <1>1, <1>2, Inductive, PTL DEF Spec

-----------------------------------------------------------------------------
(* Failed tasks are refunded.                                              *)

\* A pass with a failed row in hand returns all of it, and a failed row no pass
\* has in hand is cleared.
Refunded ==
    /\ \A p \in Pollers : pc[p] \in Busy /\ status[cur[p]] = "FAILURE" => target[p] = 0
    /\ \A t \in Tasks \ (hurt \cup Legacy) : status[t] = "FAILURE" /\ ~InHand(t) => quota[t] = 0

LEMMA RefundedNext ==
  ASSUME Realtime = {}, Gone = {}, NullTasks = {}, IInv, Refunded, [Next]_vars
  PROVE  Refunded'
<1> USE TaskBillingAssumption DEF IInv, Core
<1>0. \A q \in Pollers : pc[q] \in Busy => cur[q] \in Tasks
  BY BusyCur
\* A step that neither fails a row nor touches the quota of one.
<1>1. ASSUME Calm,
             \A t \in Tasks : status'[t] = "FAILURE" => status[t] = "FAILURE" /\ quota'[t] = quota[t]
      PROVE  Refunded'
  <2>1. hurt \subseteq hurt'
    BY <1>1 DEF Calm, KeepsHands
  <2>2. \A t \in Tasks : t \notin hurt' /\ ~InHand(t)' => ~InHand(t)
    BY <1>1, HandsKept DEF Calm
  <2>3. \A t \in Tasks \ (hurt' \cup Legacy) : status'[t] = "FAILURE" /\ ~InHand(t)' => quota'[t] = 0
    BY <1>1, <2>1, <2>2 DEF Refunded
  <2>4. \A p \in Pollers : pc'[p] \in Busy /\ status'[cur'[p]] = "FAILURE" => target'[p] = 0
    <3>1. ASSUME NEW p \in Pollers, pc'[p] \in Busy
          PROVE  pc[p] \in Busy /\ cur'[p] = cur[p] /\ target'[p] = target[p] /\ cur[p] \in Tasks
      BY <1>0, <1>1, <3>1 DEF Calm, NoNewHands
    <3>2. QED
      BY <1>1, <3>1 DEF Refunded
  <2>5. QED
    BY <2>3, <2>4 DEF Refunded
<1>2. ASSUME NEW p \in Pollers, UpdateTask(p) PROVE Refunded'
  <2>1. /\ cur[p] \in Tasks /\ pc[p] = "cas"
        /\ seenQuota[p][cur[p]] = Price /\ IsUnfinished(cur[p])
        /\ status' = [status EXCEPT ![cur[p]] = new[p]]
        /\ quota' = [quota EXCEPT ![cur[p]] = Price]
        /\ hurt' = hurt
    BY <1>2, HeldCopy, CurTypes DEF UpdateTask, UpdateWithStatus, IsUnfinished, failed
  <2>2. \A q \in Pollers : pc[q] \in Busy => cur[q] # cur[p]
    BY <2>1, Unbilled
  <2>3. new[p] = "FAILURE" => target[p] = 0
    BY <2>1 DEF Copies, Copy
  <2>4. /\ \A q \in Pollers \ {p} : pc'[q] = pc[q] /\ cur'[q] = cur[q] /\ target'[q] = target[q]
        /\ target[p] # Price => pc'[p] = "fund" /\ cur'[p] = cur[p] /\ target'[p] = target[p]
        /\ target[p] = Price => pc'[p] \notin Busy
    BY <1>2, <2>1 DEF UpdateTask, Done, Busy, TypeOK, PassTypes
  <2>5. /\ status'[cur[p]] = new[p]
        /\ \A t \in Tasks : t # cur[p] => status'[t] = status[t] /\ quota'[t] = quota[t]
    BY <2>1 DEF TypeOK, RowTypes
  <2>10. new[p] = "FAILURE" => pc'[p] = "fund" /\ cur'[p] = cur[p] /\ target'[p] = 0
    <3>1. Price # 0
      OBVIOUS
    <3>2. QED
      BY <2>3, <2>4, <3>1
  <2>11. pc'[p] \in Busy => cur'[p] = cur[p]
    BY <2>4
  <2>6. \A q \in Pollers : pc'[q] \in Busy /\ status'[cur'[q]] = "FAILURE" => target'[q] = 0
    <3>1. pc'[p] \in Busy /\ status'[cur'[p]] = "FAILURE" => target'[p] = 0
      BY <2>5, <2>10, <2>11
    <3>2. ASSUME NEW q \in Pollers \ {p}, pc'[q] \in Busy, status'[cur'[q]] = "FAILURE"
          PROVE  target'[q] = 0
      <4>1. pc[q] \in Busy /\ cur'[q] = cur[q] /\ target'[q] = target[q]
        BY <2>4, <3>2
      <4>2. cur[q] \in Tasks /\ cur[q] # cur[p]
        BY <1>0, <2>2, <4>1
      <4>3. status[cur[q]] = "FAILURE"
        BY <2>5, <3>2, <4>1, <4>2
      <4>4. QED
        BY <4>1, <4>3 DEF Refunded
    <3>3. QED
      BY <3>1, <3>2
  <2>7. \A t \in Tasks : t # cur[p] => (InHand(t)' <=> InHand(t))
    BY <2>1, <2>4 DEF InHand, Busy
  <2>8. \A t \in Tasks : t = cur[p] /\ new[p] = "FAILURE" => InHand(t)'
    BY <2>10 DEF InHand
  <2>9. QED
    BY <2>1, <2>5, <2>6, <2>7, <2>8 DEF Refunded
<1>3. ASSUME NEW p \in Pollers, NEW t \in Tasks, SweepTask(p, t) PROVE Refunded'
  <2>1. /\ t \in todo[p] /\ pc[p] = "next" /\ seen[p][t] \in Unfinished
        /\ seenQuota[p][t] = Price /\ target[p] = 0
    BY <1>3 DEF SweepTask, Copies, Copy, TypeOK, PassTypes
  <2>2. /\ IsUnfinished(t) /\ hurt' = hurt
        /\ status' = [status EXCEPT ![t] = "FAILURE"]
        /\ quota' = [quota EXCEPT ![t] = IF t \in Legacy THEN 0 ELSE seenQuota[p][t]]
    BY <1>3, <2>1 DEF SweepTask, UpdateWithStatus, IsUnfinished, failed
  <2>3. \A q \in Pollers : pc[q] \in Busy => cur[q] # t
    BY <2>2, Unbilled
  <2>4. /\ \A q \in Pollers \ {p} : pc'[q] = pc[q] /\ cur'[q] = cur[q] /\ target'[q] = target[q]
        /\ t \notin Legacy => pc'[p] = "fund" /\ cur'[p] = t
        /\ t \in Legacy => pc'[p] \notin Busy
        /\ target'[p] = 0
    BY <1>3, <2>1 DEF SweepTask, Done, Busy, TypeOK, PassTypes
  <2>5. \A u \in Tasks : u # t => status'[u] = status[u] /\ quota'[u] = quota[u]
    BY <2>2 DEF TypeOK, RowTypes
  <2>6. \A q \in Pollers : pc'[q] \in Busy /\ status'[cur'[q]] = "FAILURE" => target'[q] = 0
    <3>1. ASSUME NEW q \in Pollers, q # p, pc'[q] \in Busy, status'[cur'[q]] = "FAILURE"
          PROVE  target'[q] = 0
      <4>1. pc[q] \in Busy /\ cur'[q] = cur[q] /\ cur[q] \in Tasks /\ cur[q] # t
        BY <1>0, <2>3, <2>4, <3>1
      <4>2. QED
        BY <2>4, <2>5, <3>1, <4>1 DEF Refunded
    <3>2. QED
      BY <2>4, <3>1
  <2>7. \A u \in Tasks : u # t /\ InHand(u) => InHand(u)'
    BY <2>1, <2>4 DEF InHand
  <2>8. t \notin Legacy => InHand(t)'
    BY <2>4 DEF InHand
  <2>9. QED
    BY <2>2, <2>5, <2>6, <2>7, <2>8 DEF Refunded
<1>4. ASSUME NEW p \in Pollers, UpdateQuota(p) PROVE Refunded'
  <2>1. /\ pc[p] = "quota" /\ cur[p] \in Tasks /\ hurt \subseteq hurt' /\ status' = status
        /\ pc'[p] \notin Busy
        /\ \A q \in Pollers \ {p} : pc'[q] = pc[q] /\ cur'[q] = cur[q] /\ target'[q] = target[q]
    BY <1>0, <1>4, FaultHurts DEF UpdateQuota, Done, failed, Busy, TypeOK, PassTypes
  <2>2. quota'[cur[p]] = target[p] \/ cur[p] \in hurt'
    BY <1>4, <2>1, FaultHurts DEF UpdateQuota, TypeOK, RowTypes
  <2>3. \A t \in Tasks : t # cur[p] => quota'[t] = quota[t]
    BY <1>4 DEF UpdateQuota, TypeOK, RowTypes
  <2>4. status[cur[p]] = "FAILURE" => target[p] = 0
    BY <2>1 DEF Refunded, Busy
  <2>5. \A t \in Tasks : t # cur[p] /\ InHand(t) => InHand(t)'
    BY <2>1 DEF InHand
  <2>6. \A q \in Pollers : pc'[q] \in Busy /\ status'[cur'[q]] = "FAILURE" => target'[q] = 0
    BY <2>1 DEF Refunded
  <2>7. QED
    BY <2>1, <2>2, <2>3, <2>4, <2>5, <2>6 DEF Refunded
<1>5. ASSUME ~\E p \in Pollers : UpdateTask(p) \/ UpdateQuota(p) \/ \E t \in Tasks : SweepTask(p, t)
      PROVE  Refunded'
  <2>1. Calm
    BY <1>5, CalmStep
  <2>2. ASSUME NEW t \in Tasks, Charge(t) \/ Insert(t) \/ InsertLost(t)
        PROVE  \A u \in Tasks : status'[u] = "FAILURE" => status[u] = "FAILURE" /\ quota'[u] = quota[u]
    BY <2>2 DEF Charge, Insert, InsertLost, TypeOK, RowTypes
  <2>3. ASSUME NEW t \in Tasks,
               Age(t) \/ UpstreamStarts(t) \/ \E s \in Finished : UpstreamFinishes(t, s)
        PROVE  UNCHANGED row
    BY <2>3 DEF Age, UpstreamStarts, UpstreamFinishes
  <2>4. ASSUME NEW r \in Readers, ReaderStep(r) PROVE UNCHANGED row
    BY <2>4 DEF ReaderStep, RealtimeRead, RealtimeFetch, RealtimeWrite, RealtimeGivesUp, Quiet
  <2>5. ASSUME NEW p \in Pollers, NEW c, FailNullTasks(p) \/ ChannelNotFound(p, c) PROVE FALSE
    BY <2>5 DEF FailNullTasks, ChannelNotFound
  <2>6. ASSUME NEW p \in Pollers,
               \/ SweepRead(p) \/ ListRead(p) \/ PassEnds(p) \/ PassCancelled(p) \/ Crash(p)
               \/ UpdateTaskLost(p) \/ TaskAdjustFunding(p) \/ TaskAdjustFundingFails(p)
               \/ TaskAdjustTokenQuota(p)
        PROVE  UNCHANGED row
    BY <2>6 DEF SweepRead, ListRead, PassEnds, PassCancelled, Crash, UpdateTaskLost,
       TaskAdjustFunding, TaskAdjustFundingFails, TaskAdjustTokenQuota
  <2>7. ASSUME NEW p \in Pollers, NEW t \in Tasks,
               \/ CacheGetChannel(p, Channel[t]) \/ FetchNothing(p, t) \/ SweepTaskLost(p, t)
               \/ \E answer \in Answers(t), actual \in Actuals : FetchTask(p, t, answer, actual)
        PROVE  UNCHANGED row
    BY <2>7 DEF CacheGetChannel, FetchNothing, SweepTaskLost, FetchTask
  <2>8. UNCHANGED vars => UNCHANGED row
    BY DEF vars
  <2>9. \/ UNCHANGED row
        \/ \A u \in Tasks : status'[u] = "FAILURE" => status[u] = "FAILURE" /\ quota'[u] = quota[u]
    BY <1>5, <2>2, <2>3, <2>4, <2>5, <2>6, <2>7, <2>8 DEF Next, PollerStep
  <2>10. QED
    BY <1>1, <2>1, <2>9 DEF row
<1>6. QED
  BY <1>2, <1>3, <1>4, <1>5

\* With no client writing rows and no unguarded bulk update, a failed task that
\* no failure has hurt has cost nothing once no pass has it in hand: whoever
\* wins the row for FAILURE returns the whole charge (RefundTaskQuota).
THEOREM FailuresRefunded ==
  ASSUME Realtime = {}, Gone = {}, NullTasks = {}
  PROVE  Spec => []FailedIsRefunded
<1>1. Init => Refunded
  BY DEF Init, Refunded, Busy
<1>2. IInv /\ Refunded /\ [Next]_vars => Refunded'
  BY RefundedNext
<1>3. IInv /\ Refunded => FailedIsRefunded
  BY DEF IInv, Core, Billed, Refunded, FailedIsRefunded, HasRow, NoRow, TokenShare
<1>4. QED
  BY <1>1, <1>2, <1>3, Inductive, PTL DEF Spec
=============================================================================
