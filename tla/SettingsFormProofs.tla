------------------------- MODULE SettingsFormProofs -------------------------
(***************************************************************************)
(* Proofs about SettingsForm for any number of options, values, edits and  *)
(* other admins' saves.                                                    *)
(*                                                                         *)
(* The argument: an option the console can know of (Known) has its server  *)
(* value in the last GET, or a newer GET is due (GetKnows). A save that    *)
(* began with an up-to-date form sends that value or the one it has put    *)
(* there (DataKnown), and until it ends the form's baseline is the last    *)
(* GET or is about to be (SaveSynced). So whichever reset comes last, the  *)
(* baseline is the last GET or agrees with the server (RestKnown).         *)
(***************************************************************************)
EXTENDS SettingsForm, TLAPS

Known == Keys \ (refused \cup unknown \cup foreign)

\* The server has applied the PUT of k and the console has not heard of it.
Settling(k) == put = k /\ answer = "applied"

\* What the last GET read or brought is what the server holds.
GetKnows ==
    \A k \in Known : ~Settling(k) =>
        /\ fetch = "read" => snapshot[k] = server[k]
        /\ fetch = "none" /\ ~fetchLost => cache[k] = server[k]

\* A save that was not hasty resets the form to values the server holds.
DataKnown ==
    isSubmitting /\ ~hasty =>
        \A k \in Known \ todo : ~(put = k /\ answer = "none") => data[k] = server[k]

\* During such a save the baseline is the last GET, or the effect is due.
SaveSynced == isSubmitting /\ ~hasty /\ ~effect => baseline = cache

\* Between saves it is, or it agrees with the server.
RestKnown ==
    ~isSubmitting /\ ~hasty /\ ~effect =>
        baseline = cache \/ \A k \in Known : baseline[k] = server[k]

\* A refused PUT is remembered until the key is sent again.
Refusal == isSubmitting /\ answer = "refused" => put \in refused

Inv == GetKnows /\ DataKnown /\ SaveSynced /\ RestKnown /\ Refusal

-----------------------------------------------------------------------------
\* Types, one step for each action.
LEMMA InitTypes == Init => TypeOK
<1> SUFFICES ASSUME Init PROVE TypeOK
    OBVIOUS
<1>1. {server, cache, snapshot, form, baseline, data} \subseteq [Keys -> Values]
    BY DEF Init
<1>2. types \in 0 .. MaxTypes /\ other \in 0 .. MaxOther
    BY SettingsFormAssumption DEF Init
<1>3. refused \cup unknown \cup foreign \subseteq Keys /\ {fetchLost, hasty} \subseteq BOOLEAN
    BY DEF Init
<1>4. QED
    BY <1>1, <1>2, <1>3 DEF Init, TypeOK

LEMMA NextTypes == TypeOK /\ [Next]_vars => TypeOK'
<1> SUFFICES ASSUME TypeOK, [Next]_vars PROVE TypeOK'
    OBVIOUS
<1> USE SettingsFormAssumption DEF TypeOK, requestVars, fetchVars, historyVars, isSubmitting,
        ResetTo
<1>1. ASSUME NEW k \in Keys, NEW v \in Values, Type(k, v), UNCHANGED inline PROVE TypeOK'
    BY <1>1 DEF Type
<1>2. ASSUME NEW k \in Keys, NEW v \in Values, OtherAdmin(k, v), UNCHANGED inline PROVE TypeOK'
    BY <1>2 DEF OtherAdmin
<1>3. CASE HandleReset /\ UNCHANGED inline
    BY <1>3 DEF HandleReset
<1>4. CASE HandleSubmit /\ UNCHANGED inline
    BY <1>4 DEF HandleSubmit, Changed
<1>5. CASE SyncDefaults /\ UNCHANGED inline
    BY <1>5 DEF SyncDefaults
<1>6. CASE PutApplied /\ UNCHANGED inline
    BY <1>6 DEF PutApplied
<1>7. CASE PutRefused /\ UNCHANGED inline
    BY <1>7 DEF PutRefused
<1>8. CASE PutAnswered /\ UNCHANGED inline
    BY <1>8 DEF PutAnswered, FinishSave
<1>9. CASE PutFails /\ UNCHANGED inline
    BY <1>9 DEF PutFails
<1>10. CASE GetReads /\ UNCHANGED inline
    BY <1>10 DEF GetReads
<1>11. CASE GetArrives /\ UNCHANGED inline
    BY <1>11 DEF GetArrives
<1>12. CASE GetFails /\ UNCHANGED inline
    BY <1>12 DEF GetFails
<1>13. CASE UNCHANGED vars
    BY <1>13 DEF vars
<1>14. QED
    BY <1>1, <1>2, <1>3, <1>4, <1>5, <1>6, <1>7, <1>8, <1>9, <1>10, <1>11, <1>12, <1>13
       DEF Next, FormStep, PutStep, GetStep

-----------------------------------------------------------------------------
\* The invariant, one step for each action.
LEMMA InitInv == Init => Inv
BY DEF Init, Inv, GetKnows, DataKnown, SaveSynced, RestKnown, Refusal, isSubmitting

LEMMA NextInv == TypeOK /\ Inv /\ [Next]_vars => Inv'
<1> SUFFICES ASSUME TypeOK, Inv, [Next]_vars PROVE Inv'
    OBVIOUS
<1> USE SettingsFormAssumption DEF TypeOK, requestVars, fetchVars, historyVars, isSubmitting, Inv,
        GetKnows, DataKnown, SaveSynced, RestKnown, Refusal, Known, Settling, ResetTo
<1>1. ASSUME NEW k \in Keys, NEW v \in Values, Type(k, v) PROVE Inv'
    BY <1>1 DEF Type
<1>2. ASSUME NEW k \in Keys, NEW v \in Values, OtherAdmin(k, v) PROVE Inv'
    BY <1>2 DEF OtherAdmin
<1>3. CASE HandleReset
    BY <1>3 DEF HandleReset
<1>4. CASE HandleSubmit
    <2>1. GetKnows' /\ SaveSynced' /\ RestKnown' /\ Refusal'
        BY <1>4 DEF HandleSubmit, Changed
    <2>2. ASSUME ~hasty', NEW k \in Known \ todo', k # put'
          PROVE  data'[k] = server'[k]
        <3>1. form[k] = baseline[k] /\ baseline = cache
            BY <1>4, <2>2 DEF HandleSubmit, Changed
        <3>2. cache[k] = server[k]
            BY <1>4, <2>2 DEF HandleSubmit
        <3>3. QED
            BY <1>4, <3>1, <3>2 DEF HandleSubmit
    <2>3. DataKnown'
        BY <1>4, <2>2 DEF HandleSubmit
    <2>4. QED
        BY <2>1, <2>3
<1>5. CASE SyncDefaults
    BY <1>5 DEF SyncDefaults
<1>6. CASE PutApplied
    BY <1>6 DEF PutApplied
<1>7. CASE PutRefused
    BY <1>7 DEF PutRefused
<1>8. CASE PutAnswered
    <2>1. GetKnows'
        BY <1>8 DEF PutAnswered, FinishSave
    <2>2. ASSUME NEW k \in todo, put' = k, todo' = todo \ {k}, answer' = "none",
                 UNCHANGED <<form, baseline>>
          PROVE  DataKnown' /\ SaveSynced' /\ RestKnown' /\ Refusal'
        BY <1>8, <2>2 DEF PutAnswered
    <2>3. ASSUME todo = {}, put' = NoKey, answer' = "none", UNCHANGED todo, ResetTo(data)
          PROVE  DataKnown' /\ SaveSynced' /\ RestKnown' /\ Refusal'
        BY <1>8, <2>3 DEF PutAnswered
    <2>4. QED
        BY <1>8, <2>1, <2>2, <2>3 DEF PutAnswered, FinishSave
<1>9. CASE PutFails
    BY <1>9 DEF PutFails
<1>10. CASE GetReads
    BY <1>10 DEF GetReads
<1>11. CASE GetArrives
    BY <1>11 DEF GetArrives
<1>12. CASE GetFails
    BY <1>12 DEF GetFails
<1>13. CASE UNCHANGED vars
    BY <1>13 DEF vars
<1>14. QED
    BY <1>1, <1>2, <1>3, <1>4, <1>5, <1>6, <1>7, <1>8, <1>9, <1>10, <1>11, <1>12, <1>13
       DEF Next, FormStep, PutStep, GetStep

\* The form, the query and the save keep their types, whatever fails.
THEOREM TypeCorrect == Spec => []TypeOK
<1>1. QED
    BY InitTypes, NextTypes, PTL DEF Spec

\* For every number of options: at rest a field that is not marked as changed
\* shows what the server holds (useSettingsForm, useUpdateOption).
THEOREM CleanShowsServerCorrect == Spec => []CleanShowsServer
<1>1. Spec => [](TypeOK /\ Inv)
    BY InitTypes, InitInv, NextTypes, NextInv, PTL DEF Spec
<1>2. TypeOK /\ Inv => CleanShowsServer
    BY SettingsFormAssumption DEF TypeOK, Inv, GetKnows, RestKnown, Known, Settling,
       CleanShowsServer, AtRest, isSubmitting
<1>3. QED
    BY <1>1, <1>2, PTL
=============================================================================
