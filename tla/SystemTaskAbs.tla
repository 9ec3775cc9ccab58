--------------------------- MODULE SystemTaskAbs ---------------------------
(***************************************************************************)
(* What the system task framework promises of one task type: rows are      *)
(* created one at a time, each is executed by one runner at most, and each *)
(* ends once.  No locks, leases, clocks or database errors.                *)
(***************************************************************************)
EXTENDS Naturals

CONSTANTS Runners, NoRunner, MaxTasks

Tasks == 1 .. MaxTasks

VARIABLES
    status,    \* life cycle of each row
    lockedBy   \* the runner each row was given to

absVars == <<status, lockedBy>>

Init ==
    /\ status = [t \in Tasks |-> "none"]
    /\ lockedBy = [t \in Tasks |-> NoRunner]

\* The next row in order, and only when every earlier one has ended.
Create(t) ==
    /\ status[t] = "none"
    /\ \A u \in Tasks : u < t => status[u] \in {"succeeded", "failed"}
    /\ \A u \in Tasks : u > t => status[u] = "none"
    /\ status' = [status EXCEPT ![t] = "pending"]
    /\ UNCHANGED lockedBy

Take(t, r) ==
    /\ status[t] = "pending"
    /\ lockedBy[t] = NoRunner
    /\ status' = [status EXCEPT ![t] = "running"]
    /\ lockedBy' = [lockedBy EXCEPT ![t] = r]

End(t, result) ==
    /\ status[t] = "running"
    /\ status' = [status EXCEPT ![t] = result]
    /\ UNCHANGED lockedBy

Next == \E t \in Tasks :
    \/ Create(t)
    \/ \E r \in Runners : Take(t, r)
    \/ \E result \in {"succeeded", "failed"} : End(t, result)

Spec == Init /\ [][Next]_absVars
=============================================================================
