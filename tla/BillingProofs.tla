--------------------------- MODULE BillingProofs ---------------------------
(***************************************************************************)
(* Theorems about BillingSession, for any number of requests and           *)
(* subscriptions and any quotas.                                           *)
(***************************************************************************)
EXTENDS BillingSession, InductionLemmas, FiniteSetTheorems

USE DEF Set, Add, Goto, Ok, Fails, store, choice, held3, flags, background, history

-----------------------------------------------------------------------------
(* Type correctness, one step per action.                                  *)

LEMMA InitType == Init => TypeOK
  BY BillingAssumption DEF Init, TypeOK, Idle, RequestType, Labels, MaxAttempts, NoSub

\* What an estimate is, from the record type of req.
LEMMA EstimateType ==
  ASSUME TypeOK, NEW r \in Requests
  PROVE  req[r].estimate \in Nat
  <1>1. req[r] \in RequestType
    BY DEF TypeOK
  <1>2. req[r].estimate \in Estimates \cup {0}
    BY <1>1 DEF RequestType
  <1>3. \A n \in Estimates \cup {0} : n \in Nat
    BY BillingAssumption
  <1> QED
    BY <1>2, <1>3, Zenon

LEMMA NewSessionType ==
  ASSUME TypeOK, NEW r \in Requests, NEW n \in Nat,
         NEW s \in {"wallet", "subscription"}, NewSession(r, s, n)
  PROVE  /\ source' \in [Requests -> {"none", "wallet", "subscription"}]
         /\ want' \in [Requests -> Nat] /\ tokenConsumed' \in [Requests -> Nat]
         /\ pc' \in [Requests -> Labels]
  BY DEF TypeOK, NewSession, Labels

LEMMA SessionType ==
  ASSUME TypeOK, NEW r \in Requests,
         PreConsumeBilling(r) \/ HasActiveUserSubscription(r) \/ TryWallet(r)
           \/ TrySubscription(r)
  PROVE  TypeOK'
  <1>1. CASE PreConsumeBilling(r)
    BY <1>1, BillingAssumption DEF PreConsumeBilling, TypeOK, Labels, RequestType
  <1>2. CASE HasActiveUserSubscription(r)
    BY <1>2 DEF HasActiveUserSubscription, TypeOK, Labels
  <1>3. CASE TryWallet(r)
    <2> DEFINE n == IF ShouldTrust(r) THEN 0 ELSE req[r].estimate
    <2>1. n \in Nat
      BY EstimateType
    <2>2. CASE NewSession(r, "wallet", n) /\ Ok
      <3> HIDE DEF n
      <3>1. /\ source' \in [Requests -> {"none", "wallet", "subscription"}]
            /\ want' \in [Requests -> Nat] /\ tokenConsumed' \in [Requests -> Nat]
            /\ pc' \in [Requests -> Labels]
        BY <2>1, <2>2, NewSessionType
      <3> QED
        BY <3>1, <2>2, <1>3 DEF TryWallet, TypeOK
    <2>3. CASE ~(NewSession(r, "wallet", n) /\ Ok)
      BY <2>3, <1>3 DEF TryWallet, TypeOK, Labels
    <2> QED
      BY <2>2, <2>3
  <1>4. CASE TrySubscription(r)
    <2> DEFINE n == IF req[r].estimate = 0 THEN 1 ELSE req[r].estimate
    <2>1. n \in Nat
      BY EstimateType
    <2>2. NewSession(r, "subscription", n)
      BY <1>4 DEF TrySubscription
    <2> HIDE DEF n
    <2>3. /\ source' \in [Requests -> {"none", "wallet", "subscription"}]
          /\ want' \in [Requests -> Nat] /\ tokenConsumed' \in [Requests -> Nat]
          /\ pc' \in [Requests -> Labels]
      BY <2>1, <2>2, NewSessionType
    <2> QED
      BY <2>3, <1>4 DEF TrySubscription, TypeOK
  <1> QED
    BY <1>1, <1>2, <1>3, <1>4

LEMMA PreConsumeType ==
  ASSUME TypeOK, NEW r \in Requests,
         TokenCheck(r) \/ TokenTake(r) \/ TokenSkip(r) \/ FundWallet(r)
           \/ FundSubscription(r) \/ Unwind(r) \/ AllowWalletOverflow(r)
  PROVE  TypeOK'
  <1>1. CASE TokenCheck(r)
    BY <1>1 DEF TokenCheck, TypeOK, Labels
  <1>2. CASE TokenTake(r)
    BY <1>2 DEF TokenTake, TakeToken, TypeOK, Labels
  <1>3. CASE TokenSkip(r)
    BY <1>3 DEF TokenSkip, TypeOK, Labels
  <1>4. CASE FundWallet(r)
    BY <1>4 DEF FundWallet, Funded, TakeWallet, TypeOK, Labels
  <1>5. CASE FundSubscription(r)
    <2>1. CASE \E s \in Subs : /\ PreConsumeUserSubscription(r, s)
                              /\ subId' = Set(subId, r, s) /\ Funded(r) /\ Ok
      <3>1. used' \in [Subs -> Nat]
        BY <2>1 DEF PreConsumeUserSubscription, UsedNow, TypeOK
      <3>2. UNCHANGED <<wallet, token, live>> /\ due' \subseteq Subs /\ reset' \subseteq Subs
        BY <2>1 DEF PreConsumeUserSubscription, TypeOK
      <3>3. record' \in [Requests -> {"none", "consumed", "refunded"}]
        BY <2>1 DEF PreConsumeUserSubscription, TypeOK
      <3>4. /\ held' \in [Requests -> Nat] /\ preConsumed' \in [Requests -> Nat]
            /\ paid' \in [Requests -> Int] /\ pc' \in [Requests -> Labels]
            /\ subId' \in [Requests -> Subs \cup {NoSub}]
        BY <2>1 DEF Funded, TypeOK, Labels
      <3>5. /\ UNCHANGED <<req, source, want, tokenConsumed, flags, background>>
            /\ UNCHANGED <<cost, fee, tokenPaid, faults>>
        BY <1>5, <2>1 DEF FundSubscription
      <3> QED
        BY <3>1, <3>2, <3>3, <3>4, <3>5 DEF TypeOK
    <2>2. CASE /\ UNCHANGED <<store, subId, held, preConsumed, paid, reset>>
               /\ \/ Goto(r, "unwindShort") /\ Ok
                  \/ Fails("subscription") /\ (Goto(r, "unwindShort") \/ Goto(r, "unwindError"))
      BY <1>5, <2>2 DEF FundSubscription, TypeOK, Labels
    <2> QED
      BY <1>5, <2>1, <2>2 DEF FundSubscription
  <1>6. CASE Unwind(r)
    BY <1>6 DEF Unwind, TakeToken, TypeOK, Labels
  <1>7. CASE AllowWalletOverflow(r)
    BY <1>7 DEF AllowWalletOverflow, TypeOK, Labels
  <1> QED
    BY <1>1, <1>2, <1>3, <1>4, <1>5, <1>6, <1>7

LEMMA RelayEndType ==
  ASSUME TypeOK, NEW r \in Requests,
         RelaySucceeds(r) \/ RelayFails(r) \/ SettleFunding(r) \/ SettleToken(r)
           \/ FeeFunding(r) \/ FeeToken(r)
  PROVE  TypeOK'
  <1>1. CASE RelaySucceeds(r)
    BY <1>1, BillingAssumption DEF RelaySucceeds, TypeOK, Labels
  <1>2. CASE RelayFails(r)
    BY <1>2 DEF RelayFails, Refund, TypeOK, Labels
  <1>3. CASE SettleFunding(r)
    BY <1>3 DEF SettleFunding, Delta, TakeWallet, PostConsumeUserSubscriptionDelta,
                TypeOK, Labels
  <1>4. CASE SettleToken(r)
    BY <1>4 DEF SettleToken, Delta, TakeToken, TypeOK, Labels
  <1>5. CASE FeeFunding(r)
    BY <1>5, BillingAssumption DEF FeeFunding, TakeWallet, PostConsumeUserSubscriptionDelta,
                TypeOK, Labels
  <1>6. CASE FeeToken(r)
    BY <1>6, BillingAssumption DEF FeeToken, TakeToken, TypeOK, Labels
  <1> QED
    BY <1>1, <1>2, <1>3, <1>4, <1>5, <1>6

LEMMA RefundType ==
  ASSUME TypeOK, NEW r \in Requests, RefundStep(r)
  PROVE  TypeOK'
  <1>1. CASE RefundWallet(r)
    BY <1>1 DEF RefundWallet, TakeWallet, TypeOK
  <1>2. CASE RefundSubscriptionPreConsume(r)
    BY <1>2 DEF RefundSubscriptionPreConsume, PostConsumeUserSubscriptionDelta,
                TypeOK
  <1>3. CASE RefundToken(r)
    BY <1>3 DEF RefundToken, TakeToken, TypeOK
  <1> QED
    BY <1>1, <1>2, <1>3, RefundStep(r) DEF RefundStep

LEMMA WorldType ==
  ASSUME TypeOK,
         \/ \E r \in Requests : Panic(r)
         \/ \E s \in Subs : SubscriptionEnds(s) \/ PeriodEnds(s) \/ ResetDueSubscription(s)
         \/ Crash
  PROVE  TypeOK'
  <1>1. CASE \E r \in Requests : Panic(r)
    BY <1>1 DEF Panic, TypeOK, Labels
  <1>2. CASE \E s \in Subs : SubscriptionEnds(s)
    BY <1>2 DEF SubscriptionEnds, TypeOK
  <1>3. CASE \E s \in Subs : PeriodEnds(s)
    BY <1>3 DEF PeriodEnds, TypeOK
  <1>4. CASE \E s \in Subs : ResetDueSubscription(s)
    BY <1>4 DEF ResetDueSubscription, TypeOK
  <1>5. CASE Crash
    BY <1>5 DEF Crash, TypeOK, Labels
  <1> QED
    BY <1>1, <1>2, <1>3, <1>4, <1>5
LEMMA StutterType == TypeOK /\ UNCHANGED vars => TypeOK'
  BY DEF TypeOK, vars

LEMMA NextType == TypeOK /\ [Next]_vars => TypeOK'
  <1> SUFFICES ASSUME TypeOK, [Next]_vars PROVE TypeOK'
    OBVIOUS
  <1>1. CASE \E r \in Requests : PreConsumeBilling(r) \/ HandlerStep(r)
    BY <1>1, SessionType, PreConsumeType, RelayEndType DEF HandlerStep
  <1>2. CASE \E r \in Requests : RefundStep(r)
    BY <1>2, RefundType
  <1>3. CASE \/ \E r \in Requests : Panic(r)
             \/ \E s \in Subs : SubscriptionEnds(s) \/ PeriodEnds(s) \/ ResetDueSubscription(s)
             \/ Crash
    BY <1>3, WorldType
  <1>4. CASE Finished \/ UNCHANGED vars
    BY <1>4, StutterType DEF Finished
  <1> QED
    BY <1>1, <1>2, <1>3, <1>4 DEF Next

\* Whatever the requests, the preferences and the failures, every row and every
\* session field keeps its type; in particular amount_used never goes negative
\* (the floor of PostConsumeUserSubscriptionDelta).
THEOREM TypeCorrect == Spec => []TypeOK
  BY InitType, NextType, PTL DEF Spec

-----------------------------------------------------------------------------
(* A step of one request leaves the sessions of the others alone.           *)

\* Everything the invariants say about q is as it was; failures only add up.
Untouched(q) ==
    /\ pc'[q] = pc[q] /\ req'[q] = req[q] /\ source'[q] = source[q]
    /\ want'[q] = want[q] /\ held'[q] = held[q] /\ preConsumed'[q] = preConsumed[q]
    /\ tokenConsumed'[q] = tokenConsumed[q] /\ record'[q] = record[q]
    /\ refunder'[q] = refunder[q] /\ tries'[q] = tries[q] /\ cost'[q] = cost[q]
    /\ paid'[q] = paid[q] /\ tokenPaid'[q] = tokenPaid[q]
    /\ q \in settled' <=> q \in settled
    /\ q \in fundingSettled' <=> q \in fundingSettled
    /\ q \in refunded' <=> q \in refunded
    /\ q \in unmarked' <=> q \in unmarked
    /\ faults' = faults \/ faults' = faults + 1

RequestStep(r) == PreConsumeBilling(r) \/ HandlerStep(r) \/ RefundStep(r) \/ Panic(r)

LEMMA OthersUntouched ==
  ASSUME TypeOK, NEW r \in Requests, NEW q \in Requests, q # r, RequestStep(r)
  PROVE  Untouched(q)
  <1>1. CASE PreConsumeBilling(r)
    BY <1>1 DEF PreConsumeBilling, TypeOK, Untouched
  <1>2. CASE HasActiveUserSubscription(r)
    BY <1>2 DEF HasActiveUserSubscription, TypeOK, Untouched
  <1>3. CASE TryWallet(r)
    BY <1>3 DEF TryWallet, NewSession, TypeOK, Untouched
  <1>4. CASE TrySubscription(r)
    BY <1>4 DEF TrySubscription, NewSession, TypeOK, Untouched
  <1>5. CASE TokenCheck(r)
    BY <1>5 DEF TokenCheck, TypeOK, Untouched
  <1>6. CASE TokenTake(r)
    BY <1>6 DEF TokenTake, TakeToken, TypeOK, Untouched
  <1>7. CASE TokenSkip(r)
    BY <1>7 DEF TokenSkip, TypeOK, Untouched
  <1>8. CASE FundWallet(r)
    BY <1>8 DEF FundWallet, Funded, TakeWallet, TypeOK, Untouched
  <1>9. CASE FundSubscription(r)
    BY <1>9 DEF FundSubscription, Funded, PreConsumeUserSubscription, TypeOK, Untouched
  <1>10. CASE Unwind(r)
    BY <1>10 DEF Unwind, TakeToken, TypeOK, Untouched
  <1>11. CASE AllowWalletOverflow(r)
    BY <1>11 DEF AllowWalletOverflow, TypeOK, Untouched
  <1>12. CASE RelaySucceeds(r)
    BY <1>12 DEF RelaySucceeds, TypeOK, Untouched
  <1>13. CASE RelayFails(r)
    BY <1>13 DEF RelayFails, Refund, NeedsRefund, TypeOK, Untouched
  <1>14. CASE SettleFunding(r)
    BY <1>14 DEF SettleFunding, Delta, TakeWallet, PostConsumeUserSubscriptionDelta, TypeOK, Untouched
  <1>15. CASE SettleToken(r)
    BY <1>15 DEF SettleToken, Delta, TakeToken, TypeOK, Untouched
  <1>16. CASE FeeFunding(r)
    BY <1>16 DEF FeeFunding, TakeWallet, PostConsumeUserSubscriptionDelta, TypeOK, Untouched
  <1>17. CASE FeeToken(r)
    BY <1>17 DEF FeeToken, TakeToken, TypeOK, Untouched
  <1>18. CASE RefundWallet(r)
    BY <1>18 DEF RefundWallet, TakeWallet, TypeOK, Untouched
  <1>19. CASE RefundSubscriptionPreConsume(r)
    BY <1>19 DEF RefundSubscriptionPreConsume, PostConsumeUserSubscriptionDelta, TypeOK, Untouched
  <1>20. CASE RefundToken(r)
    BY <1>20 DEF RefundToken, TakeToken, TypeOK, Untouched
  <1>21. CASE Panic(r)
    BY <1>21 DEF Panic, Running, TypeOK, Untouched
  <1> QED
    BY <1>1, <1>2, <1>3, <1>4, <1>5, <1>6, <1>7, <1>8, <1>9, <1>10, <1>11, <1>12, <1>13, <1>14, <1>15, <1>16, <1>17, <1>18, <1>19, <1>20, <1>21, RequestStep(r)
    DEF RequestStep, HandlerStep, RefundStep

LEMMA Frame ==
  ASSUME TypeOK, NEW q \in Requests, Untouched(q)
  PROVE  /\ ControlInv(q) => ControlInv(q)'
         /\ FundingInv(q) => FundingInv(q)'
         /\ TokenInv(q) => TokenInv(q)'
         /\ RefundInv(q) => RefundInv(q)'
  BY DEF TypeOK, Untouched, ControlInv, FundingInv, TokenInv, RefundInv, Committed,
         Playground

-----------------------------------------------------------------------------
(* The request that moves keeps the invariants.                             *)

USE DEF BeforeToken, BeforeFunding, Committed, Playground

\* The handler's label, the flags and the goroutine stay in step.
LEMMA ControlStep ==
  ASSUME TypeOK, NEW r \in Requests, RequestStep(r), ControlInv(r)
  PROVE  ControlInv(r)'
  <1>1. CASE PreConsumeBilling(r)
    BY <1>1 DEF PreConsumeBilling, TypeOK, ControlInv
  <1>2. CASE HasActiveUserSubscription(r)
    BY <1>2 DEF HasActiveUserSubscription, TypeOK, ControlInv
  <1>3. CASE TryWallet(r)
    BY <1>3 DEF TryWallet, NewSession, TypeOK, ControlInv
  <1>4. CASE TrySubscription(r)
    BY <1>4 DEF TrySubscription, NewSession, TypeOK, ControlInv
  <1>5. CASE TokenCheck(r)
    BY <1>5 DEF TokenCheck, TypeOK, ControlInv
  <1>6. CASE TokenTake(r)
    BY <1>6 DEF TokenTake, TakeToken, TypeOK, ControlInv
  <1>7. CASE TokenSkip(r)
    BY <1>7 DEF TokenSkip, TypeOK, ControlInv
  <1>8. CASE FundWallet(r)
    BY <1>8 DEF FundWallet, Funded, TakeWallet, TypeOK, ControlInv
  <1>9. CASE FundSubscription(r)
    BY <1>9 DEF FundSubscription, Funded, PreConsumeUserSubscription, TypeOK, ControlInv
  <1>10. CASE Unwind(r)
    BY <1>10 DEF Unwind, TakeToken, TypeOK, ControlInv
  <1>11. CASE AllowWalletOverflow(r)
    BY <1>11 DEF AllowWalletOverflow, TypeOK, ControlInv
  <1>12. CASE RelaySucceeds(r)
    BY <1>12 DEF RelaySucceeds, TypeOK, ControlInv
  <1>13. CASE RelayFails(r)
    BY <1>13 DEF RelayFails, Refund, NeedsRefund, TypeOK, ControlInv
  <1>14. CASE SettleFunding(r)
    BY <1>14 DEF SettleFunding, Delta, TakeWallet, PostConsumeUserSubscriptionDelta, TypeOK, ControlInv
  <1>15. CASE SettleToken(r)
    BY <1>15 DEF SettleToken, Delta, TakeToken, TypeOK, ControlInv
  <1>16. CASE FeeFunding(r)
    BY <1>16 DEF FeeFunding, TakeWallet, PostConsumeUserSubscriptionDelta, TypeOK, ControlInv
  <1>17. CASE FeeToken(r)
    BY <1>17 DEF FeeToken, TakeToken, TypeOK, ControlInv
  <1>18. CASE RefundWallet(r)
    BY <1>18 DEF RefundWallet, TakeWallet, TypeOK, ControlInv
  <1>19. CASE RefundSubscriptionPreConsume(r)
    BY <1>19 DEF RefundSubscriptionPreConsume, PostConsumeUserSubscriptionDelta, TypeOK, ControlInv
  <1>20. CASE RefundToken(r)
    BY <1>20 DEF RefundToken, TakeToken, TypeOK, ControlInv
  <1>21. CASE Panic(r)
    BY <1>21 DEF Panic, Running, TypeOK, ControlInv
  <1> QED
    BY <1>1, <1>2, <1>3, <1>4, <1>5, <1>6, <1>7, <1>8, <1>9, <1>10, <1>11, <1>12, <1>13, <1>14, <1>15, <1>16, <1>17, <1>18, <1>19, <1>20, <1>21, RequestStep(r)
    DEF RequestStep, HandlerStep, RefundStep

\* The funding source is charged what the flags say.
LEMMA FundingStep ==
  ASSUME TypeOK, NEW r \in Requests, RequestStep(r), ControlInv(r), FundingInv(r)
  PROVE  FundingInv(r)'
  <1>1. CASE PreConsumeBilling(r)
    BY <1>1 DEF PreConsumeBilling, TypeOK, ControlInv, FundingInv
  <1>2. CASE HasActiveUserSubscription(r)
    BY <1>2 DEF HasActiveUserSubscription, TypeOK, ControlInv, FundingInv
  <1>3. CASE TryWallet(r)
    BY <1>3 DEF TryWallet, NewSession, TypeOK, ControlInv, FundingInv
  <1>4. CASE TrySubscription(r)
    BY <1>4 DEF TrySubscription, NewSession, TypeOK, ControlInv, FundingInv
  <1>5. CASE TokenCheck(r)
    BY <1>5 DEF TokenCheck, TypeOK, ControlInv, FundingInv
  <1>6. CASE TokenTake(r)
    BY <1>6 DEF TokenTake, TakeToken, TypeOK, ControlInv, FundingInv
  <1>7. CASE TokenSkip(r)
    BY <1>7 DEF TokenSkip, TypeOK, ControlInv, FundingInv
  <1>8. CASE FundWallet(r)
    BY <1>8 DEF FundWallet, Funded, TakeWallet, TypeOK, ControlInv, FundingInv
  <1>9. CASE FundSubscription(r)
    BY <1>9 DEF FundSubscription, Funded, PreConsumeUserSubscription, TypeOK, ControlInv, FundingInv
  <1>10. CASE Unwind(r)
    BY <1>10 DEF Unwind, TakeToken, TypeOK, ControlInv, FundingInv
  <1>11. CASE AllowWalletOverflow(r)
    BY <1>11 DEF AllowWalletOverflow, TypeOK, ControlInv, FundingInv
  <1>12. CASE RelaySucceeds(r)
    BY <1>12 DEF RelaySucceeds, TypeOK, ControlInv, FundingInv
  <1>13. CASE RelayFails(r)
    BY <1>13 DEF RelayFails, Refund, NeedsRefund, TypeOK, ControlInv, FundingInv
  <1>14. CASE SettleFunding(r)
    BY <1>14 DEF SettleFunding, Delta, TakeWallet, PostConsumeUserSubscriptionDelta, TypeOK, ControlInv, FundingInv
  <1>15. CASE SettleToken(r)
    BY <1>15 DEF SettleToken, Delta, TakeToken, TypeOK, ControlInv, FundingInv
  <1>16. CASE FeeFunding(r)
    BY <1>16 DEF FeeFunding, TakeWallet, PostConsumeUserSubscriptionDelta, TypeOK, ControlInv, FundingInv
  <1>17. CASE FeeToken(r)
    BY <1>17 DEF FeeToken, TakeToken, TypeOK, ControlInv, FundingInv
  <1>18. CASE RefundWallet(r)
    BY <1>18 DEF RefundWallet, TakeWallet, TypeOK, ControlInv, FundingInv
  <1>19. CASE RefundSubscriptionPreConsume(r)
    BY <1>19 DEF RefundSubscriptionPreConsume, PostConsumeUserSubscriptionDelta, TypeOK, ControlInv, FundingInv
  <1>20. CASE RefundToken(r)
    BY <1>20 DEF RefundToken, TakeToken, TypeOK, ControlInv, FundingInv
  <1>21. CASE Panic(r)
    BY <1>21 DEF Panic, Running, TypeOK, ControlInv, FundingInv
  <1> QED
    BY <1>1, <1>2, <1>3, <1>4, <1>5, <1>6, <1>7, <1>8, <1>9, <1>10, <1>11, <1>12, <1>13, <1>14, <1>15, <1>16, <1>17, <1>18, <1>19, <1>20, <1>21, RequestStep(r)
    DEF RequestStep, HandlerStep, RefundStep

\* So is the token.
LEMMA TokenStep ==
  ASSUME TypeOK, NEW r \in Requests, RequestStep(r), ControlInv(r), TokenInv(r)
  PROVE  TokenInv(r)'
  <1>1. CASE PreConsumeBilling(r)
    BY <1>1 DEF PreConsumeBilling, TypeOK, ControlInv, TokenInv
  <1>2. CASE HasActiveUserSubscription(r)
    BY <1>2 DEF HasActiveUserSubscription, TypeOK, ControlInv, TokenInv
  <1>3. CASE TryWallet(r)
    <2>1. req[r].estimate \in Nat
      BY EstimateType
    <2> QED
      BY <2>1, <1>3 DEF TryWallet, NewSession, TypeOK, ControlInv, TokenInv
  <1>4. CASE TrySubscription(r)
    <2>1. req[r].estimate \in Nat
      BY EstimateType
    <2> QED
      BY <2>1, <1>4 DEF TrySubscription, NewSession, TypeOK, ControlInv, TokenInv
  <1>5. CASE TokenCheck(r)
    BY <1>5 DEF TokenCheck, TypeOK, ControlInv, TokenInv
  <1>6. CASE TokenTake(r)
    BY <1>6 DEF TokenTake, TakeToken, TypeOK, ControlInv, TokenInv
  <1>7. CASE TokenSkip(r)
    BY <1>7 DEF TokenSkip, TypeOK, ControlInv, TokenInv
  <1>8. CASE FundWallet(r)
    BY <1>8 DEF FundWallet, Funded, TakeWallet, TypeOK, ControlInv, TokenInv
  <1>9. CASE FundSubscription(r)
    BY <1>9 DEF FundSubscription, Funded, PreConsumeUserSubscription, TypeOK, ControlInv, TokenInv
  <1>10. CASE Unwind(r)
    BY <1>10 DEF Unwind, TakeToken, TypeOK, ControlInv, TokenInv
  <1>11. CASE AllowWalletOverflow(r)
    BY <1>11 DEF AllowWalletOverflow, TypeOK, ControlInv, TokenInv
  <1>12. CASE RelaySucceeds(r)
    BY <1>12 DEF RelaySucceeds, TypeOK, ControlInv, TokenInv
  <1>13. CASE RelayFails(r)
    BY <1>13 DEF RelayFails, Refund, NeedsRefund, TypeOK, ControlInv, TokenInv
  <1>14. CASE SettleFunding(r)
    BY <1>14 DEF SettleFunding, Delta, TakeWallet, PostConsumeUserSubscriptionDelta, TypeOK, ControlInv, TokenInv
  <1>15. CASE SettleToken(r)
    BY <1>15 DEF SettleToken, Delta, TakeToken, TypeOK, ControlInv, TokenInv
  <1>16. CASE FeeFunding(r)
    BY <1>16 DEF FeeFunding, TakeWallet, PostConsumeUserSubscriptionDelta, TypeOK, ControlInv, TokenInv
  <1>17. CASE FeeToken(r)
    BY <1>17 DEF FeeToken, TakeToken, TypeOK, ControlInv, TokenInv
  <1>18. CASE RefundWallet(r)
    BY <1>18 DEF RefundWallet, TakeWallet, TypeOK, ControlInv, TokenInv
  <1>19. CASE RefundSubscriptionPreConsume(r)
    BY <1>19 DEF RefundSubscriptionPreConsume, PostConsumeUserSubscriptionDelta, TypeOK, ControlInv, TokenInv
  <1>20. CASE RefundToken(r)
    BY <1>20 DEF RefundToken, TakeToken, TypeOK, ControlInv, TokenInv
  <1>21. CASE Panic(r)
    BY <1>21 DEF Panic, Running, TypeOK, ControlInv, TokenInv
  <1> QED
    BY <1>1, <1>2, <1>3, <1>4, <1>5, <1>6, <1>7, <1>8, <1>9, <1>10, <1>11, <1>12, <1>13, <1>14, <1>15, <1>16, <1>17, <1>18, <1>19, <1>20, <1>21, RequestStep(r)
    DEF RequestStep, HandlerStep, RefundStep

\* What is still charged while the funding source is being refunded.
LEMMA FundBounds ==
  ASSUME TypeOK, NEW r \in Requests, RefundInv(r), refunder[r] = "fund"
  PROVE  paid[r] >= -held[r] /\ (r \notin unmarked => paid[r] = held[r])
  <1>1. held[r] \in Nat /\ paid[r] \in Int /\ tries[r] \in Nat
    BY DEF TypeOK
  <1>2. /\ tries[r] < 3 /\ (r \notin unmarked => paid[r] = held[r])
        /\ tries[r] = 0 => r \notin unmarked
        /\ tries[r] = 1 => paid[r] >= 0
        /\ tries[r] = 2 => paid[r] >= -held[r]
    BY DEF RefundInv, MaxAttempts
  <1>3. tries[r] = 0 \/ tries[r] = 1 \/ tries[r] = 2
    BY <1>1, <1>2
  <1> QED
    BY <1>1, <1>2, <1>3

\* A refund returns the hold once, if marking the record does not fail.
LEMMA RefundOwnStep ==
  ASSUME TypeOK, NEW r \in Requests, RequestStep(r), ControlInv(r), FundingInv(r), RefundInv(r)
  PROVE  RefundInv(r)'
  <1>1. CASE PreConsumeBilling(r)
    BY <1>1 DEF PreConsumeBilling, TypeOK, ControlInv, FundingInv, RefundInv, MaxAttempts
  <1>2. CASE HasActiveUserSubscription(r)
    BY <1>2 DEF HasActiveUserSubscription, TypeOK, ControlInv, FundingInv, RefundInv, MaxAttempts
  <1>3. CASE TryWallet(r)
    BY <1>3 DEF TryWallet, NewSession, TypeOK, ControlInv, FundingInv, RefundInv, MaxAttempts
  <1>4. CASE TrySubscription(r)
    BY <1>4 DEF TrySubscription, NewSession, TypeOK, ControlInv, FundingInv, RefundInv, MaxAttempts
  <1>5. CASE TokenCheck(r)
    BY <1>5 DEF TokenCheck, TypeOK, ControlInv, FundingInv, RefundInv, MaxAttempts
  <1>6. CASE TokenTake(r)
    BY <1>6 DEF TokenTake, TakeToken, TypeOK, ControlInv, FundingInv, RefundInv, MaxAttempts
  <1>7. CASE TokenSkip(r)
    BY <1>7 DEF TokenSkip, TypeOK, ControlInv, FundingInv, RefundInv, MaxAttempts
  <1>8. CASE FundWallet(r)
    BY <1>8 DEF FundWallet, Funded, TakeWallet, TypeOK, ControlInv, FundingInv, RefundInv, MaxAttempts
  <1>9. CASE FundSubscription(r)
    BY <1>9 DEF FundSubscription, Funded, PreConsumeUserSubscription, TypeOK, ControlInv, FundingInv, RefundInv, MaxAttempts
  <1>10. CASE Unwind(r)
    BY <1>10 DEF Unwind, TakeToken, TypeOK, ControlInv, FundingInv, RefundInv, MaxAttempts
  <1>11. CASE AllowWalletOverflow(r)
    BY <1>11 DEF AllowWalletOverflow, TypeOK, ControlInv, FundingInv, RefundInv, MaxAttempts
  <1>12. CASE RelaySucceeds(r)
    BY <1>12 DEF RelaySucceeds, TypeOK, ControlInv, FundingInv, RefundInv, MaxAttempts
  <1>13. CASE RelayFails(r)
    BY <1>13 DEF RelayFails, Refund, NeedsRefund, TypeOK, ControlInv, FundingInv, RefundInv, MaxAttempts
  <1>14. CASE SettleFunding(r)
    BY <1>14 DEF SettleFunding, Delta, TakeWallet, PostConsumeUserSubscriptionDelta, TypeOK, ControlInv, FundingInv, RefundInv, MaxAttempts
  <1>15. CASE SettleToken(r)
    BY <1>15 DEF SettleToken, Delta, TakeToken, TypeOK, ControlInv, FundingInv, RefundInv, MaxAttempts
  <1>16. CASE FeeFunding(r)
    BY <1>16 DEF FeeFunding, TakeWallet, PostConsumeUserSubscriptionDelta, TypeOK, ControlInv, FundingInv, RefundInv, MaxAttempts
  <1>17. CASE FeeToken(r)
    BY <1>17 DEF FeeToken, TakeToken, TypeOK, ControlInv, FundingInv, RefundInv, MaxAttempts
  <1>18. CASE RefundWallet(r)
    BY <1>18 DEF RefundWallet, TakeWallet, TypeOK, ControlInv, FundingInv, RefundInv, MaxAttempts
  <1>19. CASE RefundSubscriptionPreConsume(r)
    <2>1. CASE record[r] = "refunded"
      BY <1>19, <2>1 DEF RefundSubscriptionPreConsume, TypeOK, RefundInv
    <2> DEFINE gives == paid' = Add(paid, r, -held[r])
    <2>2. /\ refunder[r] = "fund" /\ source[r] = "subscription"
          /\ UNCHANGED <<pc, source, held>>
      BY <1>19 DEF RefundSubscriptionPreConsume
    <2>3. /\ pc[r] \notin BeforeFunding \cup {"relaying"}
          /\ held[r] \in Nat /\ paid[r] \in Int /\ tries[r] \in Nat
      BY <2>2 DEF ControlInv, TypeOK
    <2>4. CASE /\ gives /\ refunder' = Set(refunder, r, "token") /\ Ok
               /\ UNCHANGED <<tries, unmarked>>
      <3>1. refunder'[r] = "token" /\ paid'[r] = paid[r] - held[r]
        BY <2>4 DEF TypeOK
      <3>2. paid[r] >= -held[r] /\ (r \notin unmarked => paid[r] = held[r])
        BY <2>2, FundBounds
      <3>3. paid'[r] >= held[r] - 3 * held[r] /\ (r \notin unmarked => paid'[r] = 0)
        BY <2>3, <3>1, <3>2
      <3>4. unmarked' = unmarked /\ tries' = tries /\ faults' = faults
        BY <2>4
      <3>5. pc' = pc /\ source' = source /\ held' = held /\ refunder'[r] # "off"
        BY <2>2, <3>1
      <3>6. (r \in unmarked' <=> r \in unmarked) /\ faults' = faults
        BY <3>4
      <3> HIDE DEF gives
      <3> QED
        BY <2>3, <3>1, <3>3, <3>5, <3>6 DEF RefundInv, MaxAttempts
    <2>5. CASE /\ tries' = Add(tries, r, 1) /\ record[r] = "consumed" /\ UNCHANGED record
               /\ refunder' = IF tries[r] + 1 = MaxAttempts
                              THEN Set(refunder, r, "token") ELSE refunder
               /\ faults \in Nat /\ faults' = faults + 1
               /\ \/ UNCHANGED <<paid, unmarked>>
                  \/ gives /\ unmarked' = unmarked \cup {r}
      <3>1. /\ tries'[r] = tries[r] + 1 /\ record'[r] = "consumed" /\ faults' > 0
            /\ refunder'[r] = IF tries[r] + 1 = 3 THEN "token" ELSE "fund"
        BY <2>2, <2>5 DEF TypeOK, MaxAttempts
      <3>2. \/ paid'[r] = paid[r] /\ unmarked' = unmarked
            \/ paid'[r] = paid[r] - held[r] /\ r \in unmarked'
        BY <2>5 DEF TypeOK
      <3>3. /\ tries[r] < 3 /\ (r \notin unmarked => paid[r] = held[r])
            /\ tries[r] = 0 => r \notin unmarked
            /\ tries[r] = 1 => paid[r] >= 0
            /\ tries[r] = 2 => paid[r] >= -held[r]
        BY <2>2 DEF RefundInv, MaxAttempts
      <3>4. /\ tries[r] = 0 => paid'[r] >= 0
            /\ tries[r] = 1 => paid'[r] >= -held[r]
            /\ tries[r] = 2 => paid'[r] >= held[r] - 3 * held[r]
        BY <2>3, <3>2, <3>3
      <3>5. r \notin unmarked' => paid'[r] = held[r]
        BY <3>2, <3>3
      <3> HIDE DEF gives
      <3>6. CASE tries[r] + 1 = 3
        BY <2>2, <2>3, <3>1, <3>3, <3>4, <3>5, <3>6 DEF RefundInv, MaxAttempts
      <3>7. CASE tries[r] + 1 # 3
        BY <2>2, <2>3, <3>1, <3>3, <3>4, <3>5, <3>7 DEF RefundInv, MaxAttempts
      <3> QED
        BY <3>6, <3>7
    <2>6. faults \in Nat
      BY DEF TypeOK
    <2> QED
      BY <1>19, <2>1, <2>4, <2>5, <2>6
      DEF RefundSubscriptionPreConsume, PostConsumeUserSubscriptionDelta
  <1>20. CASE RefundToken(r)
    BY <1>20 DEF RefundToken, TakeToken, TypeOK, ControlInv, FundingInv, RefundInv, MaxAttempts
  <1>21. CASE Panic(r)
    BY <1>21 DEF Panic, Running, TypeOK, ControlInv, FundingInv, RefundInv, MaxAttempts
  <1> QED
    BY <1>1, <1>2, <1>3, <1>4, <1>5, <1>6, <1>7, <1>8, <1>9, <1>10, <1>11, <1>12, <1>13, <1>14, <1>15, <1>16, <1>17, <1>18, <1>19, <1>20, <1>21, RequestStep(r)
    DEF RequestStep, HandlerStep, RefundStep

\* A step of the world around the requests: time, administrators, a crash.
LEMMA WorldUntouched ==
  ASSUME TypeOK, NEW q \in Requests,
         \/ \E s \in Subs : SubscriptionEnds(s) \/ PeriodEnds(s) \/ ResetDueSubscription(s)
         \/ UNCHANGED vars
  PROVE  Untouched(q)
  BY DEF TypeOK, SubscriptionEnds, PeriodEnds, ResetDueSubscription, vars, Untouched

LEMMA CrashStep ==
  ASSUME TypeOK, NEW q \in Requests, Crash, ControlInv(q), FundingInv(q), TokenInv(q)
  PROVE  /\ ControlInv(q)' /\ FundingInv(q)' /\ TokenInv(q)'
         /\ RefundInv(q) => RefundInv(q)'
  <1>1. ControlInv(q)'
    BY DEF TypeOK, Crash, Running, Refunding, ControlInv
  <1>2. FundingInv(q)'
    BY DEF TypeOK, Crash, Running, Refunding, ControlInv, FundingInv
  <1>3. TokenInv(q)'
    BY DEF TypeOK, Crash, Running, Refunding, ControlInv, TokenInv
  <1>4. RefundInv(q) => RefundInv(q)'
    <2> SUFFICES ASSUME RefundInv(q) PROVE RefundInv(q)'
      OBVIOUS
    <2>1. /\ pc'[q] = IF Running(q) THEN "dead" ELSE pc[q]
          /\ refunder'[q] = IF Refunding(q) THEN "lost" ELSE refunder[q]
          /\ UNCHANGED <<record, source, tries, unmarked, paid, held>> /\ faults' > 0
      BY DEF Crash, TypeOK
    <2>2. held[q] \in Nat /\ paid[q] \in Int /\ tries[q] \in Nat
      BY DEF TypeOK
    <2>3. refunder[q] = "fund" => paid[q] >= held[q] - 3 * held[q]
      BY <2>2, FundBounds
    <2> QED
      BY <2>1, <2>2, <2>3 DEF Running, Refunding, RefundInv, MaxAttempts
  <1> QED
    BY <1>1, <1>2, <1>3, <1>4

LEMMA InitCharge == Init => ChargeInv /\ RefundsInv
  BY DEF Init, Idle, ChargeInv, RefundsInv, ControlInv, FundingInv, TokenInv, RefundInv,
         MaxAttempts

\* Next, with the actions of requests, of the world and of a crash told apart.
LEMMA NextCases ==
  ASSUME [Next]_vars
  PROVE  \/ \E r \in Requests : RequestStep(r)
         \/ Crash
         \/ \E s \in Subs : SubscriptionEnds(s) \/ PeriodEnds(s) \/ ResetDueSubscription(s)
         \/ UNCHANGED vars
  BY DEF Next, RequestStep, Finished

LEMMA ChargeStep == TypeOK /\ ChargeInv /\ [Next]_vars => ChargeInv'
  <1> SUFFICES ASSUME TypeOK, ChargeInv, [Next]_vars, NEW q \in Requests
               PROVE  ControlInv(q)' /\ FundingInv(q)' /\ TokenInv(q)'
    BY DEF ChargeInv
  <1>1. ControlInv(q) /\ FundingInv(q) /\ TokenInv(q)
    BY DEF ChargeInv
  <1>2. ASSUME NEW r \in Requests, RequestStep(r)
        PROVE  ControlInv(q)' /\ FundingInv(q)' /\ TokenInv(q)'
    <2>1. CASE q = r
      BY <1>1, <1>2, <2>1, ControlStep, FundingStep, TokenStep
    <2>2. CASE q # r
      BY <1>1, <1>2, <2>2, OthersUntouched, Frame
    <2> QED
      BY <2>1, <2>2
  <1>3. CASE Crash
    BY <1>1, <1>3, CrashStep
  <1>4. CASE \/ \E s \in Subs : SubscriptionEnds(s) \/ PeriodEnds(s) \/ ResetDueSubscription(s)
             \/ UNCHANGED vars
    BY <1>1, <1>4, WorldUntouched, Frame
  <1> QED
    BY <1>2, <1>3, <1>4, NextCases

LEMMA RefundsStep ==
  ASSUME TypeOK, ChargeInv, RefundsInv, [Next]_vars
  PROVE  RefundsInv'
  <1> SUFFICES ASSUME NEW q \in Requests PROVE RefundInv(q)'
    BY DEF RefundsInv
  <1>1. ControlInv(q) /\ FundingInv(q) /\ TokenInv(q) /\ RefundInv(q)
    BY DEF ChargeInv, RefundsInv
  <1>2. ASSUME NEW r \in Requests, RequestStep(r) PROVE RefundInv(q)'
    <2>1. CASE q = r
      BY <1>1, <1>2, <2>1, RefundOwnStep
    <2>2. CASE q # r
      BY <1>1, <1>2, <2>2, OthersUntouched, Frame
    <2> QED
      BY <2>1, <2>2
  <1>3. CASE Crash
    BY <1>1, <1>3, CrashStep
  <1>4. CASE \/ \E s \in Subs : SubscriptionEnds(s) \/ PeriodEnds(s) \/ ResetDueSubscription(s)
             \/ UNCHANGED vars
    BY <1>1, <1>4, WorldUntouched, Frame
  <1> QED
    BY <1>2, <1>3, <1>4, NextCases

LEMMA ChargeInvariant == Spec => [](TypeOK /\ ChargeInv)
  <1>1. Init => TypeOK /\ ChargeInv
    BY InitType, InitCharge
  <1>2. (TypeOK /\ ChargeInv) /\ [Next]_vars => (TypeOK /\ ChargeInv)'
    BY NextType, ChargeStep
  <1> QED
    BY <1>1, <1>2, PTL DEF Spec

LEMMA RefundInvariant ==
  Spec => [](TypeOK /\ ChargeInv /\ RefundsInv)
  <1>1. Init => TypeOK /\ ChargeInv /\ RefundsInv
    BY InitType, InitCharge
  <1>2. (TypeOK /\ ChargeInv /\ RefundsInv) /\ [Next]_vars
            => (TypeOK /\ ChargeInv /\ RefundsInv)'
    BY NextType, ChargeStep, RefundsStep
  <1> QED
    BY <1>1, <1>2, PTL DEF Spec

\* A settled request has paid its actual cost, whatever failed on the way; one
\* that ends neither settled nor refunded has paid its pre-consumption.
THEOREM SettledPays == Spec => []SettledPaysActual
  <1>1. TypeOK /\ ChargeInv => SettledPaysActual
    BY DEF TypeOK, ChargeInv, ControlInv, FundingInv, TokenInv, SettledPaysActual
  <1> QED
    BY <1>1, ChargeInvariant, PTL

\* A request that NewBillingSession turns away has paid nothing.
THEOREM RejectedPays == Spec => []RejectedPaysNothing
  <1>1. TypeOK /\ ChargeInv => RejectedPaysNothing
    BY DEF TypeOK, ChargeInv, ControlInv, FundingInv, TokenInv, RejectedPaysNothing
  <1> QED
    BY <1>1, ChargeInvariant, PTL

LEMMA OverRefundBounded == TypeOK /\ ChargeInv /\ RefundsInv => NeverOverRefunded
  <1> SUFFICES ASSUME TypeOK, ChargeInv, RefundsInv, NEW r \in Requests
               PROVE  /\ tokenPaid[r] >= 0
                      /\ r \notin unmarked => paid[r] >= 0
                      /\ paid[r] >= held[r] - MaxAttempts * held[r]
    BY DEF NeverOverRefunded
  <1>1. ControlInv(r) /\ FundingInv(r) /\ TokenInv(r) /\ RefundInv(r)
    BY DEF ChargeInv, RefundsInv
  <1>2. held[r] \in Nat /\ paid[r] \in Int /\ cost[r] \in Nat /\ tries[r] \in Nat
    BY DEF TypeOK
  <1>3. tokenPaid[r] >= 0
    BY <1>1 DEF TokenInv
  <1>4. CASE refunder[r] = "off"
    BY <1>1, <1>2, <1>3, <1>4 DEF FundingInv, RefundInv, MaxAttempts
  <1>5. CASE refunder[r] = "fund"
    BY <1>1, <1>2, <1>3, <1>5, FundBounds DEF MaxAttempts
  <1>6. CASE refunder[r] \in {"token", "done", "lost"}
    BY <1>1, <1>2, <1>3, <1>6 DEF RefundInv, MaxAttempts
  <1> QED
    BY <1>4, <1>5, <1>6 DEF TypeOK

\* The only way to get back more than was paid is a refund that could not be
\* recorded, three times the pre-consumption at most; nothing else that fails,
\* panics or crashes does it, and the token is never over-refunded.
THEOREM NoOverRefund == Spec => []NeverOverRefunded
  <1>1. TypeOK /\ ChargeInv /\ RefundsInv => NeverOverRefunded
    BY OverRefundBounded
  <1> QED
    BY <1>1, RefundInvariant, PTL

\* A refund that has run has returned everything, up to the failures that were
\* only logged and the refunds that could not be recorded.
THEOREM RefundsReturn == Spec => []RefundReturnsAll
  <1>1. TypeOK /\ ChargeInv /\ RefundsInv => RefundReturnsAll
    BY DEF TypeOK, ChargeInv, RefundsInv, TokenInv, RefundInv, RefundReturnsAll
  <1> QED
    BY <1>1, RefundInvariant, PTL

\* Pre-consumption checks the room and a delta the total, each in the
\* transaction that writes; nothing else raises amount_used.
LEMMA TotalStep == TypeOK /\ WithinTotal /\ [Next]_vars => WithinTotal'
  <1> SUFFICES ASSUME TypeOK, WithinTotal, [Next]_vars PROVE WithinTotal'
    OBVIOUS
  <1>1. ASSUME NEW r \in Requests, RequestStep(r) PROVE WithinTotal'
    <2>1. CASE FundSubscription(r)
      BY <2>1, BillingAssumption
      DEF FundSubscription, PreConsumeUserSubscription, HasRoom, UsedNow, TypeOK, WithinTotal
    <2>2. CASE SettleFunding(r)
      BY <2>2, BillingAssumption
      DEF SettleFunding, TakeWallet, PostConsumeUserSubscriptionDelta, TypeOK, WithinTotal
    <2>3. CASE FeeFunding(r)
      BY <2>3, BillingAssumption
      DEF FeeFunding, TakeWallet, PostConsumeUserSubscriptionDelta, TypeOK, WithinTotal
    <2>4. CASE RefundSubscriptionPreConsume(r)
      BY <2>4, BillingAssumption
      DEF RefundSubscriptionPreConsume, PostConsumeUserSubscriptionDelta, TypeOK, WithinTotal
    <2>5. CASE ~(FundSubscription(r) \/ SettleFunding(r) \/ FeeFunding(r)
                   \/ RefundSubscriptionPreConsume(r))
      <3>1. UNCHANGED used
        BY <1>1, <2>5
        DEF RequestStep, HandlerStep, RefundStep, PreConsumeBilling,
            HasActiveUserSubscription, TryWallet, TrySubscription, TokenCheck, TokenTake,
            TokenSkip, FundWallet, Unwind, AllowWalletOverflow, RelaySucceeds, RelayFails,
            SettleToken, FeeToken, RefundWallet, RefundToken, Panic, TakeWallet, TakeToken
      <3> QED
        BY <3>1 DEF WithinTotal
    <2> QED
      BY <2>1, <2>2, <2>3, <2>4, <2>5
  <1>2. CASE Crash
    BY <1>2 DEF Crash, WithinTotal
  <1>3. CASE \/ \E s \in Subs : SubscriptionEnds(s) \/ PeriodEnds(s) \/ ResetDueSubscription(s)
             \/ UNCHANGED vars
    BY <1>3, BillingAssumption
    DEF SubscriptionEnds, PeriodEnds, ResetDueSubscription, vars, TypeOK, WithinTotal
  <1> QED
    BY <1>1, <1>2, <1>3, NextCases

\* Concurrent requests, settlements and fees never take a subscription past its
\* total, even when refunds are repeated.
THEOREM StaysWithinTotal == Spec => []WithinTotal
  <1>1. Init => WithinTotal
    BY BillingAssumption DEF Init, WithinTotal
  <1>2. (TypeOK /\ WithinTotal) /\ [Next]_vars => (TypeOK /\ WithinTotal)'
    BY NextType, TotalStep
  <1> QED
    BY <1>1, <1>2, InitType, PTL DEF Spec

-----------------------------------------------------------------------------
(* Sums over a finite set, as FoldFunctionOnSet takes them.                 *)

SumOf(f, S) == FoldFunctionOnSet(+, 0, f, S)
\* Partial sums over the subsets of S, as FoldFunctionOnSet takes them.
First(s) == CHOOSE x \in s : TRUE
Sums(g, f, S) ==
    g = [s \in SUBSET S |-> IF s = {} THEN 0 ELSE f[First(s)] + g[s \ {First(s)}]]

\* What a partial sum is, one subset at a time.
LEMMA SumsAt ==
    ASSUME NEW g, NEW f, NEW S, Sums(g, f, S), NEW s \in SUBSET S
    PROVE  /\ s = {} => g[s] = 0
           /\ s # {} => /\ First(s) \in s /\ s \ {First(s)} \in SUBSET S
                        /\ g[s] = f[First(s)] + g[s \ {First(s)}]
<1>1. s # {} => First(s) \in s
    BY DEF First
<1>2. g[s] = IF s = {} THEN 0 ELSE f[First(s)] + g[s \ {First(s)}]
    BY Zenon DEF Sums
<1>3. s \ {First(s)} \in SUBSET S
    OBVIOUS
<1> QED
    BY <1>1, <1>2, <1>3

\* A subset with its first member removed is smaller.
LEMMA Smaller ==
    ASSUME NEW s, IsFiniteSet(s), NEW x \in s
    PROVE  /\ Cardinality(s) \in Nat /\ Cardinality(s) # 0
           /\ IsFiniteSet(s \ {x}) /\ Cardinality(s \ {x}) = Cardinality(s) - 1
<1>1. s # {}
    OBVIOUS
<1> QED
    BY <1>1, FS_EmptySet, FS_CardinalityType, FS_RemoveElement

\* The partial sums of a finite set exist.
LEMMA SumsExist ==
    ASSUME NEW f, NEW S, IsFiniteSet(S)
    PROVE  \E g : Sums(g, f, S)
<1> DEFINE Upto(n) == {s \in SUBSET S : Cardinality(s) <= n}
           Value(g, s) == IF s = {} THEN 0 ELSE f[First(s)] + g[s \ {First(s)}]
           Partial(g, n) == g = [s \in Upto(n) |-> Value(g, s)]
           Good == {n \in Nat : \E g : Partial(g, n)}
<1>1. \A s \in SUBSET S : IsFiniteSet(s) /\ Cardinality(s) \in Nat
    BY FS_Subset, FS_CardinalityType
<1>2. 0 \in Good
    <2>1. \A s \in Upto(0) : s = {}
        BY <1>1, FS_EmptySet
    <2> DEFINE g == [s \in Upto(0) |-> 0]
    <2>2. \A s \in Upto(0) : Value(g, s) = 0
        BY <2>1
    <2>3. Partial(g, 0)
        <3> HIDE DEF Value, Upto
        <3> QED
            BY <2>2
    <2> QED
        BY <2>3
<1>3. ASSUME NEW n \in Nat, n \in Good PROVE n + 1 \in Good
    <2>1. PICK g : Partial(g, n)
        BY <1>3
    <2> DEFINE h == [s \in Upto(n + 1) |-> Value(g, s)]
    <2>2. ASSUME NEW s \in Upto(n + 1) PROVE Value(g, s) = Value(h, s)
        <3>1. CASE s = {}
            BY <3>1
        <3>2. CASE s # {}
            <4> DEFINE t == s \ {First(s)}
            <4>1. First(s) \in s
                BY <3>2 DEF First
            <4>2. IsFiniteSet(s) /\ Cardinality(s) <= n + 1 /\ s \in SUBSET S
                BY <1>1
            <4>3. Cardinality(t) = Cardinality(s) - 1 /\ Cardinality(s) \in Nat
                BY <4>1, <4>2, Smaller
            <4>4. t \in Upto(n) /\ t \in Upto(n + 1)
                BY <4>2, <4>3
            <4>5. g[t] = Value(g, t)
                <5> HIDE DEF Value, Upto, t
                <5> QED
                    BY <2>1, <4>4, Zenon
            <4>6. h[t] = Value(g, t)
                <5> HIDE DEF Value, Upto, t
                <5> QED
                    BY <4>4
            <4>7. Value(h, s) = f[First(s)] + h[t] /\ Value(g, s) = f[First(s)] + g[t]
                BY <3>2
            <4> QED
                BY <4>5, <4>6, <4>7
        <3> QED
            BY <3>1, <3>2
    <2>3. Partial(h, n + 1)
        <3>1. h = [s \in Upto(n + 1) |-> Value(h, s)]
            <4> HIDE DEF Value, Upto
            <4> QED
                BY <2>2
        <3> QED
            BY <3>1
    <2> QED
        <3> HIDE DEF h, Partial
        <3> QED
            BY <2>3
<1>4. Cardinality(S) \in Good
    <2> HIDE DEF Good
    <2> QED
        BY <1>2, <1>3, SetInduction, FS_CardinalityType
<1>5. PICK g : Partial(g, Cardinality(S))
    BY <1>4
<1>6. Upto(Cardinality(S)) = SUBSET S
    BY FS_Subset
<1>7. g = [s \in SUBSET S |-> Value(g, s)]
    <2> HIDE DEF Upto, Value
    <2> QED
        BY <1>5, <1>6
<1> QED
    BY <1>7, Zenon DEF Sums

\* ... and so the sum is the last of them.
LEMMA SumIsSums ==
    ASSUME NEW f, NEW S, IsFiniteSet(S)
    PROVE  \E g : Sums(g, f, S) /\ SumOf(f, S) = g[S]
<1> DEFINE G == CHOOSE g : Sums(g, f, S)
<1>1. SumOf(f, S) = G[S]
    BY DEF SumOf, FoldFunctionOnSet, MapThenFoldSet, Sums, First
<1>2. Sums(G, f, S)
    BY SumsExist, Zenon
<1> QED
    BY <1>1, <1>2, Zenon

\* Partial sums of sets with a common subset agree on it.
LEMMA SumsAgree ==
    ASSUME NEW f, NEW h, NEW S, NEW T, IsFiniteSet(S),
           NEW a, NEW b, Sums(a, f, S), Sums(b, h, T),
           NEW R, R \subseteq S, R \subseteq T, \A x \in R : f[x] = h[x] /\ f[x] \in Int
    PROVE  a[R] = b[R] /\ a[R] \in Int
<1> DEFINE Claim(s) == a[s] = b[s] /\ a[s] \in Int
           Good == {n \in Nat : \A s \in SUBSET R : Cardinality(s) = n => Claim(s)}
<1>1. \A s \in SUBSET R : IsFiniteSet(s) /\ Cardinality(s) \in Nat
    BY FS_Subset, FS_CardinalityType
<1>2. 0 \in Good
    <2>1. ASSUME NEW s \in SUBSET R, Cardinality(s) = 0 PROVE Claim(s)
        <3>1. s = {}
            BY <1>1, <2>1, FS_EmptySet
        <3>2. a[s] = 0 /\ b[s] = 0
            BY <3>1, SumsAt
        <3> QED
            BY <3>2
    <2> QED
        BY <2>1
<1>3. ASSUME NEW n \in Nat, n \in Good PROVE n + 1 \in Good
    <2>1. ASSUME NEW s \in SUBSET R, Cardinality(s) = n + 1 PROVE Claim(s)
        <3>1. s # {} /\ IsFiniteSet(s)
            <4>1. IsFiniteSet(s) /\ Cardinality(s) # 0
                BY <1>1, <2>1
            <4> QED
                BY <4>1, FS_EmptySet
        <3>2. s \in SUBSET S /\ s \in SUBSET T
            OBVIOUS
        <3>3. /\ First(s) \in s
              /\ a[s] = f[First(s)] + a[s \ {First(s)}]
              /\ b[s] = h[First(s)] + b[s \ {First(s)}]
            <4>1. First(s) \in s /\ a[s] = f[First(s)] + a[s \ {First(s)}]
                BY <3>1, <3>2, SumsAt
            <4>2. b[s] = h[First(s)] + b[s \ {First(s)}]
                BY <3>1, <3>2, SumsAt
            <4> QED
                BY <4>1, <4>2
        <3>4. Cardinality(s \ {First(s)}) = n /\ s \ {First(s)} \in SUBSET R
            BY <2>1, <3>1, <3>3, Smaller
        <3>5. Claim(s \ {First(s)})
            BY <1>3, <3>4
        <3>6. f[First(s)] = h[First(s)] /\ f[First(s)] \in Int
            BY <3>3
        <3> QED
            BY <3>3, <3>5, <3>6
    <2> QED
        BY <2>1
<1>4. Cardinality(R) \in Good
    <2> HIDE DEF Good
    <2> QED
        BY <1>1, <1>2, <1>3, SetInduction
<1> QED
    BY <1>4

LEMMA SumType ==
    ASSUME NEW f, NEW S, IsFiniteSet(S), \A x \in S : f[x] \in Int
    PROVE  SumOf(f, S) \in Int
<1>1. PICK a : Sums(a, f, S) /\ SumOf(f, S) = a[S]
    BY SumIsSums
<1> QED
    BY <1>1, SumsAgree

LEMMA SumEmpty == \A f : SumOf(f, {}) = 0
<1> SUFFICES ASSUME NEW f PROVE SumOf(f, {}) = 0
    OBVIOUS
<1>1. PICK a : Sums(a, f, {}) /\ SumOf(f, {}) = a[{}]
    BY SumIsSums, FS_EmptySet
<1> QED
    BY <1>1, SumsAt

\* The sum depends only on the function's values on the set.
LEMMA SumSame ==
    ASSUME NEW f, NEW h, NEW S, IsFiniteSet(S), \A x \in S : f[x] = h[x] /\ f[x] \in Int
    PROVE  SumOf(f, S) = SumOf(h, S)
<1>1. PICK a : Sums(a, f, S) /\ SumOf(f, S) = a[S]
    BY SumIsSums
<1>2. PICK b : Sums(b, h, S) /\ SumOf(h, S) = b[S]
    BY SumIsSums
<1> QED
    BY <1>1, <1>2, SumsAgree

\* FoldFunctionOnSet takes the first member ...
LEMMA SumFirst ==
    ASSUME NEW f, NEW S, IsFiniteSet(S), S # {}, \A x \in S : f[x] \in Int
    PROVE  First(S) \in S /\ SumOf(f, S) = f[First(S)] + SumOf(f, S \ {First(S)})
<1> DEFINE R == S \ {First(S)}
<1>1. PICK a : Sums(a, f, S) /\ SumOf(f, S) = a[S]
    BY SumIsSums
<1>2. First(S) \in S /\ a[S] = f[First(S)] + a[R] /\ R \in SUBSET S
    BY <1>1, SumsAt
<1>3. IsFiniteSet(R)
    BY <1>2, FS_Subset
<1>4. PICK b : Sums(b, f, R) /\ SumOf(f, R) = b[R]
    BY <1>3, SumIsSums
<1>5. a[R] = b[R]
    <2> HIDE DEF R
    <2> QED
        BY <1>1, <1>2, <1>4, SumsAgree
<1> QED
    BY <1>1, <1>2, <1>4, <1>5

\* ... but any member will do: addition commutes.
LEMMA SumTake ==
    ASSUME NEW f, NEW S, IsFiniteSet(S), \A x \in S : f[x] \in Int, NEW y \in S
    PROVE  SumOf(f, S) = f[y] + SumOf(f, S \ {y})
<1> DEFINE Claim(s) == \A x \in s : SumOf(f, s) = f[x] + SumOf(f, s \ {x})
           Good == {n \in Nat : \A s \in SUBSET S : Cardinality(s) = n => Claim(s)}
<1>1. \A s \in SUBSET S : IsFiniteSet(s) /\ Cardinality(s) \in Nat
    BY FS_Subset, FS_CardinalityType
<1>2. 0 \in Good
    <2>1. ASSUME NEW s \in SUBSET S, Cardinality(s) = 0 PROVE Claim(s)
        <3>1. s = {}
            BY <1>1, <2>1, FS_EmptySet
        <3> QED
            BY <3>1
    <2> QED
        BY <2>1
<1>3. ASSUME NEW n \in Nat, n \in Good PROVE n + 1 \in Good
    <2>1. ASSUME NEW s \in SUBSET S, Cardinality(s) = n + 1, NEW x \in s
          PROVE SumOf(f, s) = f[x] + SumOf(f, s \ {x})
        <3> DEFINE c == First(s)
                   u == s \ {x}
                   t == s \ {c}
        <3>1. IsFiniteSet(s) /\ s # {} /\ \A z \in s : f[z] \in Int
            BY <1>1
        <3>2. c \in s /\ SumOf(f, s) = f[c] + SumOf(f, t)
            BY <3>1, SumFirst
        <3>3. CASE x = c
            BY <3>2, <3>3
        <3>4. CASE x # c
            <4>1. Cardinality(t) = n /\ Cardinality(u) = n
                BY <2>1, <3>1, <3>2, Smaller
            <4>2. t \in SUBSET S /\ u \in SUBSET S /\ x \in t /\ c \in u
                BY <3>2, <3>4
            <4>3. SumOf(f, t) = f[x] + SumOf(f, t \ {x})
                BY <1>3, <4>1, <4>2
            <4>4. SumOf(f, u) = f[c] + SumOf(f, u \ {c})
                BY <1>3, <4>1, <4>2
            <4>5. t \ {x} = u \ {c}
                OBVIOUS
            <4>6. SumOf(f, t \ {x}) \in Int
                <5> DEFINE w == t \ {x}
                <5>1. w \in SUBSET S
                    OBVIOUS
                <5>2. IsFiniteSet(w) /\ \A z \in w : f[z] \in Int
                    <6> HIDE DEF w
                    <6> QED
                        BY <1>1, <5>1
                <5>3. SumOf(f, w) \in Int
                    <6> HIDE DEF w
                    <6> QED
                        BY <5>2, SumType
                <5> QED
                    BY <5>3
            <4>7. f[x] \in Int /\ f[c] \in Int
                BY <3>1, <3>2
            <4>8. SumOf(f, t \ {x}) = SumOf(f, u \ {c})
                <5> HIDE DEF t, u
                <5> QED
                    BY <4>5
            <4>9. \A p, q, w \in Int : p + (q + w) = q + (p + w)
                OBVIOUS
            <4> HIDE DEF c, t
            <4>10. SumOf(f, s) = f[c] + (f[x] + SumOf(f, u \ {c}))
                BY <3>2, <4>3, <4>8
            <4>11. SumOf(f, s) = f[x] + (f[c] + SumOf(f, u \ {c}))
                <5> HIDE DEF u
                <5> QED
                    BY <4>6, <4>7, <4>8, <4>9, <4>10
            <4>12. SumOf(f, s) = f[x] + SumOf(f, u)
                <5> HIDE DEF u
                <5> QED
                    BY <4>4, <4>11
            <4> QED
                BY <4>12
        <3> QED
            BY <3>3, <3>4
    <2> QED
        BY <2>1
<1>4. Cardinality(S) \in Good
    <2> HIDE DEF Good
    <2> QED
        BY <1>1, <1>2, <1>3, SetInduction
<1> QED
    BY <1>4

\* A sum of natural numbers is one.
LEMMA SumNat ==
    ASSUME NEW f, NEW S, IsFiniteSet(S), \A x \in S : f[x] \in Nat
    PROVE  SumOf(f, S) \in Nat
<1> DEFINE Good == {n \in Nat : \A s \in SUBSET S : Cardinality(s) = n => SumOf(f, s) \in Nat}
<1>1. \A s \in SUBSET S : IsFiniteSet(s) /\ Cardinality(s) \in Nat
    BY FS_Subset, FS_CardinalityType
<1>2. 0 \in Good
    <2>1. ASSUME NEW s \in SUBSET S, Cardinality(s) = 0 PROVE SumOf(f, s) \in Nat
        <3>1. s = {}
            BY <1>1, <2>1, FS_EmptySet
        <3> QED
            BY <3>1, SumEmpty
    <2> QED
        BY <2>1
<1>3. ASSUME NEW n \in Nat, n \in Good PROVE n + 1 \in Good
    <2>1. ASSUME NEW s \in SUBSET S, Cardinality(s) = n + 1 PROVE SumOf(f, s) \in Nat
        <3> DEFINE t == s \ {First(s)}
        <3>1. IsFiniteSet(s) /\ s # {} /\ \A z \in s : f[z] \in Int
            BY <1>1, <2>1, FS_EmptySet
        <3>2. First(s) \in s /\ SumOf(f, s) = f[First(s)] + SumOf(f, t)
            BY <3>1, SumFirst
        <3>3. Cardinality(t) = n /\ t \in SUBSET S
            BY <2>1, <3>1, <3>2, Smaller
        <3>4. SumOf(f, t) \in Nat
            BY <1>3, <3>3
        <3>5. f[First(s)] \in Nat
            BY <3>2
        <3> QED
            BY <3>2, <3>4, <3>5
    <2> QED
        BY <2>1
<1>4. Cardinality(S) \in Good
    <2> HIDE DEF Good
    <2> QED
        BY <1>1, <1>2, <1>3, SetInduction
<1> QED
    BY <1>4

\* A function that changes at y, and a set that y may join or leave.
LEMMA SumChange ==
    ASSUME NEW f, NEW h, NEW S, NEW T, NEW y, IsFiniteSet(S), IsFiniteSet(T),
           \A x \in S : f[x] \in Int, \A x \in T : h[x] \in Int,
           S \ {y} = T \ {y}, \A x \in S \ {y} : f[x] = h[x]
    PROVE  SumOf(h, T) = SumOf(f, S) - (IF y \in S THEN f[y] ELSE 0)
                                     + (IF y \in T THEN h[y] ELSE 0)
<1> DEFINE R == S \ {y}
<1>1. IsFiniteSet(R) /\ \A x \in R : f[x] = h[x] /\ f[x] \in Int
    BY FS_RemoveElement
<1>2. SumOf(f, R) = SumOf(h, R) /\ SumOf(f, R) \in Int
    <2> HIDE DEF R
    <2> QED
        BY <1>1, SumSame, SumType
<1>3. SumOf(f, S) = SumOf(f, R) + (IF y \in S THEN f[y] ELSE 0)
    <2>1. CASE y \in S
        <3>1. SumOf(f, S) = f[y] + SumOf(f, R) /\ f[y] \in Int
            BY <2>1, SumTake
        <3> HIDE DEF R
        <3> QED
            BY <1>2, <2>1, <3>1
    <2>2. CASE y \notin S
        <3>1. R = S
            BY <2>2
        <3> HIDE DEF R
        <3> QED
            BY <1>2, <2>2, <3>1
    <2> QED
        BY <2>1, <2>2
<1>4. SumOf(h, T) = SumOf(h, R) + (IF y \in T THEN h[y] ELSE 0)
    <2>1. CASE y \in T
        <3>1. SumOf(h, T) = h[y] + SumOf(h, T \ {y}) /\ h[y] \in Int
            BY <2>1, SumTake
        <3>2. R = T \ {y}
            OBVIOUS
        <3>3. SumOf(h, T) = h[y] + SumOf(h, R)
            <4> HIDE DEF R
            <4> QED
                BY <3>1, <3>2
        <3> HIDE DEF R
        <3> QED
            BY <1>2, <2>1, <3>1, <3>3
    <2>2. CASE y \notin T
        <3>1. R = T
            BY <2>2
        <3> HIDE DEF R
        <3> QED
            BY <1>2, <2>2, <3>1
    <2> QED
        BY <2>1, <2>2
<1>5. (y \in S => f[y] \in Int) /\ (y \in T => h[y] \in Int)
    OBVIOUS
<1> HIDE DEF R
<1>6. CASE y \in S
    <2>1. SumOf(f, S) = SumOf(f, R) + f[y] /\ f[y] \in Int
        BY <1>3, <1>5, <1>6
    <2> QED
        BY <1>2, <1>4, <1>5, <1>6, <2>1
<1>7. CASE y \notin S
    BY <1>2, <1>3, <1>4, <1>5, <1>7
<1> QED
    BY <1>6, <1>7

-----------------------------------------------------------------------------
(* What the subscriptions have been charged.                                *)

\* What the invariants say about the charges of q is as it was.
UntouchedCharge(q) ==
    /\ pc'[q] = pc[q] /\ source'[q] = source[q] /\ refunder'[q] = refunder[q]
    /\ subId'[q] = subId[q] /\ fee'[q] = fee[q] /\ paid'[q] = paid[q]

LEMMA OthersChargesUntouched ==
  ASSUME TypeOK, NEW r \in Requests, NEW q \in Requests, q # r, RequestStep(r)
  PROVE  UntouchedCharge(q)
  <1>1. CASE PreConsumeBilling(r)
    BY <1>1 DEF PreConsumeBilling, TypeOK, UntouchedCharge
  <1>2. CASE HasActiveUserSubscription(r)
    BY <1>2 DEF HasActiveUserSubscription, TypeOK, UntouchedCharge
  <1>3. CASE TryWallet(r)
    BY <1>3 DEF TryWallet, NewSession, TypeOK, UntouchedCharge
  <1>4. CASE TrySubscription(r)
    BY <1>4 DEF TrySubscription, NewSession, TypeOK, UntouchedCharge
  <1>5. CASE TokenCheck(r)
    BY <1>5 DEF TokenCheck, TypeOK, UntouchedCharge
  <1>6. CASE TokenTake(r)
    BY <1>6 DEF TokenTake, TakeToken, TypeOK, UntouchedCharge
  <1>7. CASE TokenSkip(r)
    BY <1>7 DEF TokenSkip, TypeOK, UntouchedCharge
  <1>8. CASE FundWallet(r)
    BY <1>8 DEF FundWallet, Funded, TakeWallet, TypeOK, UntouchedCharge
  <1>9. CASE FundSubscription(r)
    BY <1>9 DEF FundSubscription, Funded, PreConsumeUserSubscription, TypeOK, UntouchedCharge
  <1>10. CASE Unwind(r)
    BY <1>10 DEF Unwind, TakeToken, TypeOK, UntouchedCharge
  <1>11. CASE AllowWalletOverflow(r)
    BY <1>11 DEF AllowWalletOverflow, TypeOK, UntouchedCharge
  <1>12. CASE RelaySucceeds(r)
    BY <1>12 DEF RelaySucceeds, TypeOK, UntouchedCharge
  <1>13. CASE RelayFails(r)
    BY <1>13 DEF RelayFails, Refund, NeedsRefund, TypeOK, UntouchedCharge
  <1>14. CASE SettleFunding(r)
    BY <1>14 DEF SettleFunding, Delta, TakeWallet, PostConsumeUserSubscriptionDelta, TypeOK, UntouchedCharge
  <1>15. CASE SettleToken(r)
    BY <1>15 DEF SettleToken, Delta, TakeToken, TypeOK, UntouchedCharge
  <1>16. CASE FeeFunding(r)
    BY <1>16 DEF FeeFunding, TakeWallet, PostConsumeUserSubscriptionDelta, TypeOK, UntouchedCharge
  <1>17. CASE FeeToken(r)
    BY <1>17 DEF FeeToken, TakeToken, TypeOK, UntouchedCharge
  <1>18. CASE RefundWallet(r)
    BY <1>18 DEF RefundWallet, TakeWallet, TypeOK, UntouchedCharge
  <1>19. CASE RefundSubscriptionPreConsume(r)
    BY <1>19 DEF RefundSubscriptionPreConsume, PostConsumeUserSubscriptionDelta, TypeOK, UntouchedCharge
  <1>20. CASE RefundToken(r)
    BY <1>20 DEF RefundToken, TakeToken, TypeOK, UntouchedCharge
  <1>21. CASE Panic(r)
    BY <1>21 DEF Panic, Running, TypeOK, UntouchedCharge
  <1> QED
    BY <1>1, <1>2, <1>3, <1>4, <1>5, <1>6, <1>7, <1>8, <1>9, <1>10, <1>11, <1>12, <1>13, <1>14, <1>15, <1>16, <1>17, <1>18, <1>19, <1>20, <1>21, RequestStep(r)
    DEF RequestStep, HandlerStep, RefundStep

LEMMA SubscriptionFrame ==
  ASSUME TypeOK, NEW q \in Requests, UntouchedCharge(q), SubscriptionInv(q)
  PROVE  SubscriptionInv(q)'
  BY DEF TypeOK, UntouchedCharge, SubscriptionInv

\* A request charges the subscription it was funded from, and no other.
LEMMA SubscriptionOwnStep ==
  ASSUME TypeOK, NEW r \in Requests, RequestStep(r), ControlInv(r), SubscriptionInv(r)
  PROVE  SubscriptionInv(r)'
  <1>1. CASE PreConsumeBilling(r)
    BY <1>1 DEF PreConsumeBilling, TypeOK, ControlInv, SubscriptionInv, NoSub
  <1>2. CASE HasActiveUserSubscription(r)
    BY <1>2 DEF HasActiveUserSubscription, TypeOK, ControlInv, SubscriptionInv, NoSub
  <1>3. CASE TryWallet(r)
    BY <1>3 DEF TryWallet, NewSession, TypeOK, ControlInv, SubscriptionInv, NoSub
  <1>4. CASE TrySubscription(r)
    BY <1>4 DEF TrySubscription, NewSession, TypeOK, ControlInv, SubscriptionInv, NoSub
  <1>5. CASE TokenCheck(r)
    BY <1>5 DEF TokenCheck, TypeOK, ControlInv, SubscriptionInv, NoSub
  <1>6. CASE TokenTake(r)
    BY <1>6 DEF TokenTake, TakeToken, TypeOK, ControlInv, SubscriptionInv, NoSub
  <1>7. CASE TokenSkip(r)
    BY <1>7 DEF TokenSkip, TypeOK, ControlInv, SubscriptionInv, NoSub
  <1>8. CASE FundWallet(r)
    BY <1>8 DEF FundWallet, Funded, TakeWallet, TypeOK, ControlInv, SubscriptionInv, NoSub
  <1>9. CASE FundSubscription(r)
    BY <1>9 DEF FundSubscription, Funded, PreConsumeUserSubscription, TypeOK, ControlInv, SubscriptionInv, NoSub
  <1>10. CASE Unwind(r)
    BY <1>10 DEF Unwind, TakeToken, TypeOK, ControlInv, SubscriptionInv, NoSub
  <1>11. CASE AllowWalletOverflow(r)
    BY <1>11 DEF AllowWalletOverflow, TypeOK, ControlInv, SubscriptionInv, NoSub
  <1>12. CASE RelaySucceeds(r)
    BY <1>12 DEF RelaySucceeds, TypeOK, ControlInv, SubscriptionInv, NoSub
  <1>13. CASE RelayFails(r)
    BY <1>13 DEF RelayFails, Refund, NeedsRefund, TypeOK, ControlInv, SubscriptionInv, NoSub
  <1>14. CASE SettleFunding(r)
    BY <1>14 DEF SettleFunding, Delta, TakeWallet, PostConsumeUserSubscriptionDelta, TypeOK, ControlInv, SubscriptionInv, NoSub
  <1>15. CASE SettleToken(r)
    BY <1>15 DEF SettleToken, Delta, TakeToken, TypeOK, ControlInv, SubscriptionInv, NoSub
  <1>16. CASE FeeFunding(r)
    BY <1>16 DEF FeeFunding, TakeWallet, PostConsumeUserSubscriptionDelta, TypeOK, ControlInv, SubscriptionInv, NoSub
  <1>17. CASE FeeToken(r)
    BY <1>17 DEF FeeToken, TakeToken, TypeOK, ControlInv, SubscriptionInv, NoSub
  <1>18. CASE RefundWallet(r)
    BY <1>18 DEF RefundWallet, TakeWallet, TypeOK, ControlInv, SubscriptionInv, NoSub
  <1>19. CASE RefundSubscriptionPreConsume(r)
    BY <1>19 DEF RefundSubscriptionPreConsume, PostConsumeUserSubscriptionDelta, TypeOK, ControlInv, SubscriptionInv, NoSub
  <1>20. CASE RefundToken(r)
    BY <1>20 DEF RefundToken, TakeToken, TypeOK, ControlInv, SubscriptionInv, NoSub
  <1>21. CASE Panic(r)
    BY <1>21 DEF Panic, Running, TypeOK, ControlInv, SubscriptionInv, NoSub
  <1> QED
    BY <1>1, <1>2, <1>3, <1>4, <1>5, <1>6, <1>7, <1>8, <1>9, <1>10, <1>11, <1>12, <1>13, <1>14, <1>15, <1>16, <1>17, <1>18, <1>19, <1>20, <1>21, RequestStep(r)
    DEF RequestStep, HandlerStep, RefundStep

LEMMA SubscriptionsStep ==
  ASSUME TypeOK, ChargeInv, SubscriptionsInv, [Next]_vars
  PROVE  SubscriptionsInv'
  <1> SUFFICES ASSUME NEW q \in Requests PROVE SubscriptionInv(q)'
    BY DEF SubscriptionsInv
  <1>1. ControlInv(q) /\ SubscriptionInv(q)
    BY DEF ChargeInv, SubscriptionsInv
  <1>2. ASSUME NEW r \in Requests, RequestStep(r) PROVE SubscriptionInv(q)'
    <2>1. CASE q = r
      BY <1>1, <1>2, <2>1, SubscriptionOwnStep
    <2>2. CASE q # r
      BY <1>1, <1>2, <2>2, OthersChargesUntouched, SubscriptionFrame
    <2> QED
      BY <2>1, <2>2
  <1>3. CASE Crash
    BY <1>1, <1>3 DEF TypeOK, Crash, Running, Refunding, SubscriptionInv
  <1>4. CASE \/ \E s \in Subs : SubscriptionEnds(s) \/ PeriodEnds(s) \/ ResetDueSubscription(s)
             \/ UNCHANGED vars
    BY <1>1, <1>4
    DEF SubscriptionEnds, PeriodEnds, ResetDueSubscription, vars, SubscriptionInv
  <1> QED
    BY <1>2, <1>3, <1>4, NextCases

Charge(r) == paid[r] + fee[r]
Mine(s) == {r \in Requests : subId[r] = s}
Taken(s) == SumOf([r \in Requests |-> Charge(r)], Mine(s))

Marked(s) == Mine(s) \cap unmarked = {}
Backed(s) == Marked(s) => used[s] <= Taken(s) /\ (s \notin reset => used[s] = Taken(s))

LEMMA BackedByTaken == UsedIsBacked <=> \A s \in Subs : Backed(s)
  BY DEF UsedIsBacked, Backed, Marked, Taken, Mine, Charge, SumOf

\* If every refund was recorded nobody is owed anything, so neither is a
\* subscription.
LEMMA TakenNat ==
  ASSUME TypeOK, NeverOverRefunded, NEW s, Marked(s)
  PROVE  Taken(s) \in Nat
  <1> DEFINE f == [r \in Requests |-> Charge(r)]
  <1>1. IsFiniteSet(Mine(s)) /\ Mine(s) \subseteq Requests
    BY RequestsAssumption, FS_Subset DEF Mine
  <1>2. \A r \in Mine(s) : f[r] \in Nat
    BY DEF TypeOK, NeverOverRefunded, Charge, Marked, Mine
  <1>3. SumOf(f, Mine(s)) \in Nat
    <2> HIDE DEF f
    <2> QED
      BY <1>1, <1>2, SumNat
  <1> QED
    BY <1>3 DEF Taken

LEMMA TakenNats ==
  TypeOK /\ NeverOverRefunded => \A s \in Subs : Marked(s) => Taken(s) \in Nat
  BY TakenNat

\* A step of r changes what s has been charged by what it changes for r.
LEMMA TakenStep ==
  ASSUME TypeOK, TypeOK', NEW r \in Requests, NEW s,
         \A q \in Requests \ {r} : paid'[q] = paid[q] /\ fee'[q] = fee[q] /\ subId'[q] = subId[q]
  PROVE  Taken(s)' = Taken(s) - (IF subId[r] = s THEN Charge(r) ELSE 0)
                              + (IF subId'[r] = s THEN Charge(r)' ELSE 0)
  <1> DEFINE f == [q \in Requests |-> Charge(q)]
             h == [q \in Requests |-> Charge(q)']
             S == Mine(s)
             T == {q \in Requests : subId'[q] = s}
  <1>1. S \subseteq Requests /\ T \subseteq Requests /\ IsFiniteSet(S) /\ IsFiniteSet(T)
    BY RequestsAssumption, FS_Subset DEF Mine
  <1>2. \A q \in Requests : f[q] \in Int /\ h[q] \in Int
    BY DEF TypeOK, Charge
  <1>3. S \ {r} = T \ {r}
    BY DEF Mine
  <1>4. \A q \in S \ {r} : f[q] = h[q]
    BY DEF Mine, Charge
  <1>5. SumOf(h, T) = SumOf(f, S) - (IF r \in S THEN f[r] ELSE 0)
                                  + (IF r \in T THEN h[r] ELSE 0)
    <2>1. (\A q \in S : f[q] \in Int) /\ (\A q \in T : h[q] \in Int)
      <3> HIDE DEF S, T, f, h
      <3> QED
        BY <1>1, <1>2
    <2> HIDE DEF S, T, f, h
    <2> QED
      BY <1>1, <2>1, <1>3, <1>4, SumChange
  <1>6. Taken(s)' = SumOf(h, T) /\ Taken(s) = SumOf(f, S)
    <2>1. Taken(s) = SumOf(f, S)
      BY DEF Taken
    <2>2. Taken(s)' = SumOf(h, T)
      BY DEF Taken, Mine
    <2> QED
      BY <2>1, <2>2
  <1>7. (r \in S <=> subId[r] = s) /\ (r \in T <=> subId'[r] = s)
    BY DEF Mine
  <1>8. f[r] = Charge(r) /\ h[r] = Charge(r)'
    OBVIOUS
  <1> HIDE DEF S, T, f, h
  <1> QED
    BY <1>5, <1>6, <1>7, <1>8

\* How a step of r moves the charges: not at all as far as subscriptions go, by
\* funding r from one, or by a delta on the one that funds r.
NoCharge(r) ==
    /\ used' = used /\ reset' = reset /\ subId' = subId
    /\ subId[r] = NoSub \/ Charge(r)' = Charge(r)
Joins(r) ==
    \E s \in Subs :
        /\ PreConsumeUserSubscription(r, s)
        /\ subId[r] = NoSub /\ subId'[r] = s /\ Charge(r)' = want[r]
DeltaCharged(r) ==
    \E d \in Int :
        /\ subId[r] \in Subs /\ subId' = subId /\ reset' = reset
        /\ Charge(r)' = Charge(r) + d
        /\ used' = Set(used, subId[r],
                       IF used[subId[r]] + d < 0 THEN 0 ELSE used[subId[r]] + d)

LEMMA ChargeMoves ==
  ASSUME TypeOK, NEW r \in Requests, RequestStep(r), ControlInv(r), FundingInv(r),
         SubscriptionInv(r)
  PROVE  NoCharge(r) \/ Joins(r) \/ DeltaCharged(r)
  <1> USE DEF TypeOK, Charge
  <1>1. CASE FundSubscription(r)
    <2>1. paid[r] = 0 /\ fee[r] = 0 /\ subId[r] = NoSub
      BY <1>1 DEF FundSubscription, ControlInv, FundingInv, SubscriptionInv
    <2>2. CASE \E s \in Subs : PreConsumeUserSubscription(r, s) /\ subId' = Set(subId, r, s) /\ Funded(r)
      <3>1. PICK s \in Subs : PreConsumeUserSubscription(r, s) /\ subId' = Set(subId, r, s) /\ Funded(r)
        BY <2>2
      <3>2. subId'[r] = s /\ Charge(r)' = want[r]
        BY <1>1, <2>1, <3>1 DEF FundSubscription, Funded
      <3> QED
        BY <2>1, <3>1, <3>2, Zenon DEF Joins
    <2>3. CASE UNCHANGED <<store, subId, held, preConsumed, paid, reset>>
      BY <1>1, <2>3 DEF FundSubscription, NoCharge
    <2> QED
      BY <1>1, <2>2, <2>3 DEF FundSubscription
  <1>2. CASE SettleFunding(r)
    <2>1. CASE source[r] = "subscription" /\ PostConsumeUserSubscriptionDelta(subId[r], Delta(r))
               /\ paid' = Add(paid, r, Delta(r))
      <3>1. subId[r] \in Subs
        BY <1>2, <2>1 DEF SettleFunding, SubscriptionInv
      <3>2. Delta(r) \in Int /\ Charge(r)' = Charge(r) + Delta(r)
        BY <1>2, <2>1 DEF SettleFunding, Delta
      <3>3. subId' = subId /\ reset' = reset
        BY <1>2 DEF SettleFunding
      <3> QED
        BY <2>1, <3>1, <3>2, <3>3 DEF DeltaCharged, PostConsumeUserSubscriptionDelta
    <2>2. CASE source[r] = "wallet" /\ TakeWallet(Delta(r))
      BY <1>2, <2>2 DEF SettleFunding, TakeWallet, SubscriptionInv, NoCharge
    <2>3. CASE UNCHANGED <<store, paid>>
      BY <1>2, <2>3 DEF SettleFunding, NoCharge
    <2> QED
      BY <1>2, <2>1, <2>2, <2>3 DEF SettleFunding
  <1>3. CASE FeeFunding(r)
    <2>1. CASE source[r] = "subscription" /\ PostConsumeUserSubscriptionDelta(subId[r], Fee)
               /\ fee' = Set(fee, r, Fee)
      <3>1. subId[r] \in Subs /\ fee[r] = 0
        BY <1>3, <2>1 DEF FeeFunding, SubscriptionInv
      <3>2. Fee \in Int /\ Charge(r)' = Charge(r) + Fee
        BY <1>3, <2>1, <3>1, BillingAssumption DEF FeeFunding
      <3>3. subId' = subId /\ reset' = reset
        BY <1>3 DEF FeeFunding
      <3> QED
        BY <2>1, <3>1, <3>2, <3>3 DEF DeltaCharged, PostConsumeUserSubscriptionDelta
    <2>2. CASE source[r] = "wallet" /\ TakeWallet(Fee)
      BY <1>3, <2>2 DEF FeeFunding, TakeWallet, SubscriptionInv, NoCharge
    <2>3. CASE UNCHANGED <<store, fee>>
      BY <1>3, <2>3 DEF FeeFunding, NoCharge
    <2> QED
      BY <1>3, <2>1, <2>2, <2>3 DEF FeeFunding
  <1>4. CASE RefundSubscriptionPreConsume(r)
    <2>1. CASE PostConsumeUserSubscriptionDelta(subId[r], -held[r]) /\ paid' = Add(paid, r, -held[r])
      <3>1. subId[r] \in Subs
        BY <1>4 DEF RefundSubscriptionPreConsume, SubscriptionInv
      <3>2. -held[r] \in Int /\ Charge(r)' = Charge(r) + (-held[r])
        BY <1>4, <2>1 DEF RefundSubscriptionPreConsume
      <3>3. subId' = subId /\ reset' = reset
        BY <1>4 DEF RefundSubscriptionPreConsume
      <3> QED
        BY <2>1, <3>1, <3>2, <3>3 DEF DeltaCharged, PostConsumeUserSubscriptionDelta
    <2>2. CASE UNCHANGED <<store, paid>>
      BY <1>4, <2>2 DEF RefundSubscriptionPreConsume, NoCharge
    <2> QED
      BY <1>4, <2>1, <2>2 DEF RefundSubscriptionPreConsume
  <1>5. CASE FundWallet(r)
    BY <1>5 DEF FundWallet, Funded, TakeWallet, SubscriptionInv, NoCharge
  <1>6. CASE RefundWallet(r)
    BY <1>6 DEF RefundWallet, TakeWallet, SubscriptionInv, NoCharge
  <1>7. CASE ~(FundSubscription(r) \/ SettleFunding(r) \/ FeeFunding(r)
                 \/ RefundSubscriptionPreConsume(r) \/ FundWallet(r) \/ RefundWallet(r))
    <2>1. UNCHANGED <<used, reset, subId, paid, fee>>
      BY <1>7
      DEF RequestStep, HandlerStep, RefundStep, PreConsumeBilling,
          HasActiveUserSubscription, TryWallet, TrySubscription, NewSession, TokenCheck,
          TokenTake, TokenSkip, Unwind, AllowWalletOverflow, RelaySucceeds, RelayFails,
          SettleToken, FeeToken, RefundToken, Panic, TakeWallet, TakeToken
    <2> QED
      BY <2>1 DEF NoCharge
  <1> QED
    BY <1>1, <1>2, <1>3, <1>4, <1>5, <1>6, <1>7

\* A request keeps the subscription it charges, and an unrecorded refund stays
\* unrecorded.
LEMMA MarkedBefore ==
  ASSUME TypeOK, ChargeInv, SubscriptionsInv, [Next]_vars, NEW s \in Subs, Marked(s)'
  PROVE  Marked(s)
  <1>1. s # NoSub
    BY BillingAssumption DEF NoSub, Subs
  <1>2. ASSUME NEW q \in Requests, subId[q] = s PROVE subId'[q] = s
    <2>1. ASSUME NEW r \in Requests, RequestStep(r) PROVE subId'[q] = s
      <3>1. CASE q # r
        BY <1>2, <2>1, <3>1, OthersChargesUntouched DEF UntouchedCharge
      <3>2. CASE q = r
        <4>1. ControlInv(r) /\ FundingInv(r) /\ SubscriptionInv(r)
          BY DEF ChargeInv, SubscriptionsInv
        <4>2. NoCharge(r) \/ Joins(r) \/ DeltaCharged(r)
          BY <2>1, <4>1, ChargeMoves
        <4> QED
          BY <1>1, <1>2, <3>2, <4>2 DEF NoCharge, Joins, DeltaCharged
      <3> QED
        BY <3>1, <3>2
    <2>2. UNCHANGED subId \/ \E r \in Requests : RequestStep(r)
      BY NextCases DEF Crash, SubscriptionEnds, PeriodEnds, ResetDueSubscription, vars
    <2> QED
      BY <1>2, <2>1, <2>2
  <1>3. unmarked \subseteq unmarked'
    <2>1. ASSUME NEW r \in Requests, RequestStep(r) PROVE unmarked \subseteq unmarked'
      BY <2>1
      DEF RequestStep, HandlerStep, RefundStep, PreConsumeBilling,
          HasActiveUserSubscription, TryWallet, TrySubscription, NewSession, TokenCheck,
          TokenTake, TokenSkip, FundWallet, FundSubscription, Unwind, AllowWalletOverflow,
          RelaySucceeds, RelayFails, SettleFunding, SettleToken, FeeFunding, FeeToken,
          RefundWallet, RefundSubscriptionPreConsume, RefundToken, Panic
    <2>2. UNCHANGED unmarked \/ \E r \in Requests : RequestStep(r)
      BY NextCases DEF Crash, SubscriptionEnds, PeriodEnds, ResetDueSubscription, vars
    <2> QED
      BY <2>1, <2>2
  <1> QED
    BY <1>2, <1>3 DEF Marked, Mine

\* Each step of a request changes amount_used by what it charges; the floor at
\* 0 is reached only after a reset, since nobody is owed anything.
LEMMA BackedStep ==
  ASSUME TypeOK, TypeOK', ChargeInv, SubscriptionsInv, UsedIsBacked,
         NeverOverRefunded, NeverOverRefunded', [Next]_vars
  PROVE  UsedIsBacked'
  <1>a. (\A s \in Subs : Marked(s) => Taken(s) \in Nat)'
    BY TakenNats, PTL
  <1>0. SUFFICES ASSUME NEW s \in Subs, Marked(s)'
                 PROVE  used'[s] <= Taken(s)' /\ (s \notin reset' => used'[s] = Taken(s)')
    <2>1. \A s \in Subs : Backed(s)'
      BY <1>0 DEF Backed
    <2>2. (\A s \in Subs : Backed(s))' => UsedIsBacked'
      BY BackedByTaken, PTL
    <2> QED
      BY <2>1, <2>2
  <1>1. Marked(s) /\ used[s] <= Taken(s) /\ (s \notin reset => used[s] = Taken(s))
    BY <1>0, MarkedBefore, BackedByTaken DEF Backed
  <1>3. Taken(s) \in Nat /\ Taken(s)' \in Nat
    BY <1>0, <1>1, <1>a, TakenNats
  <1>4. used[s] \in Nat /\ NoSub \notin Subs /\ s # NoSub
    BY BillingAssumption DEF TypeOK, NoSub, Subs
  <1>5. ASSUME NEW r \in Requests, RequestStep(r)
        PROVE  used'[s] <= Taken(s)' /\ (s \notin reset' => used'[s] = Taken(s)')
    <2>1. Taken(s)' = Taken(s) - (IF subId[r] = s THEN Charge(r) ELSE 0)
                               + (IF subId'[r] = s THEN Charge(r)' ELSE 0)
      <3>1. \A q \in Requests \ {r} :
                paid'[q] = paid[q] /\ fee'[q] = fee[q] /\ subId'[q] = subId[q]
        BY <1>5, OthersChargesUntouched DEF UntouchedCharge
      <3> QED
        BY <3>1, TakenStep
    <2>2. Charge(r) \in Int /\ Charge(r)' \in Int /\ want[r] \in Nat
      BY DEF TypeOK, Charge
    <2>3. ControlInv(r) /\ FundingInv(r) /\ SubscriptionInv(r)
      BY DEF ChargeInv, SubscriptionsInv
    <2>4. CASE NoCharge(r)
      <3>1. Taken(s)' = Taken(s)
        BY <1>3, <1>4, <2>1, <2>2, <2>4 DEF NoCharge
      <3> QED
        BY <1>1, <2>4, <3>1 DEF NoCharge
    <2>5. CASE Joins(r)
      <3>1. PICK t \in Subs : /\ PreConsumeUserSubscription(r, t)
                              /\ subId[r] = NoSub /\ subId'[r] = t /\ Charge(r)' = want[r]
        BY <2>5 DEF Joins
      <3>2. CASE s = t
        <4>1. Taken(s)' = Taken(s) + want[r] /\ want[r] \in Nat
          BY <1>3, <1>4, <2>1, <2>2, <3>1, <3>2
        <4>2. used'[s] = (IF s \in due THEN 0 ELSE used[s]) + want[r]
          BY <3>1, <3>2 DEF PreConsumeUserSubscription, UsedNow
        <4>3. s \notin reset' => s \notin reset /\ s \notin due
          BY <3>1, <3>2 DEF PreConsumeUserSubscription, Subs
        <4> QED
          BY <1>1, <1>3, <1>4, <4>1, <4>2, <4>3
      <3>3. CASE s # t
        <4>1. Taken(s)' = Taken(s)
          BY <1>3, <1>4, <2>1, <3>1, <3>3
        <4>2. used'[s] = used[s] \/ (used'[s] = 0 /\ s \in reset')
          BY <3>1, <3>3 DEF PreConsumeUserSubscription, UsedNow
        <4>3. s \notin reset' => s \notin reset
          BY <3>1 DEF PreConsumeUserSubscription
        <4> QED
          BY <1>1, <1>3, <1>4, <4>1, <4>2, <4>3
      <3> QED
        BY <3>2, <3>3
    <2>6. CASE DeltaCharged(r)
      <3>1. PICK d \in Int :
              /\ subId[r] \in Subs /\ subId' = subId /\ reset' = reset
              /\ Charge(r)' = Charge(r) + d
              /\ used' = Set(used, subId[r],
                             IF used[subId[r]] + d < 0 THEN 0 ELSE used[subId[r]] + d)
        BY <2>6 DEF DeltaCharged
      <3>2. CASE subId[r] = s
        <4>1. Taken(s)' = Taken(s) + d
          BY <1>3, <2>1, <2>2, <3>1, <3>2
        <4>2. used'[s] = IF used[s] + d < 0 THEN 0 ELSE used[s] + d
          BY <3>1, <3>2 DEF TypeOK
        <4> QED
          BY <1>1, <1>3, <1>4, <3>1, <4>1, <4>2
      <3>3. CASE subId[r] # s
        <4>1. Taken(s)' = Taken(s)
          BY <1>3, <2>1, <3>1, <3>3
        <4>2. used'[s] = used[s]
          BY <3>1, <3>3 DEF TypeOK
        <4> QED
          BY <1>1, <3>1, <4>1, <4>2
      <3> QED
        BY <3>2, <3>3
    <2> QED
      BY <1>5, <2>3, <2>4, <2>5, <2>6, ChargeMoves
  <1>6. CASE UNCHANGED <<paid, fee, subId>>
    <2>1. Taken(s)' = Taken(s)
      BY <1>6 DEF Taken, Mine, Charge
    <2>2. CASE Crash \/ UNCHANGED vars
      BY <1>1, <2>1, <2>2 DEF Crash, vars
    <2>3. CASE \E x \in Subs : SubscriptionEnds(x) \/ PeriodEnds(x)
      BY <1>1, <2>1, <2>3 DEF SubscriptionEnds, PeriodEnds
    <2>4. CASE \E x \in Subs : ResetDueSubscription(x)
      <3>1. PICK x \in Subs : ResetDueSubscription(x)
        BY <2>4
      <3>2. CASE x = s
        BY <1>3, <2>1, <3>1, <3>2 DEF ResetDueSubscription, TypeOK
      <3>3. CASE x # s
        BY <1>1, <2>1, <3>1, <3>3 DEF ResetDueSubscription, TypeOK
      <3> QED
        BY <3>2, <3>3
    <2> QED
      BY <1>5, <2>2, <2>3, <2>4, NextCases
  <1>7. UNCHANGED <<paid, fee, subId>> \/ \E r \in Requests : RequestStep(r)
    BY NextCases
    DEF Crash, SubscriptionEnds, PeriodEnds, ResetDueSubscription, vars
  <1> QED
    BY <1>5, <1>6, <1>7

\* The amount_used of a subscription whose refunds were all recorded is what
\* the requests it funds have paid, fees included, until a reset lowers it.
THEOREM UsageBacked == Spec => []UsedIsBacked
  <1> DEFINE Inv == TypeOK /\ ChargeInv /\ RefundsInv /\ SubscriptionsInv /\ UsedIsBacked
  <1>1. Init => Inv
    <2> SUFFICES ASSUME Init PROVE SubscriptionsInv /\ UsedIsBacked
      BY InitType, InitCharge
    <2>1. SubscriptionsInv
      BY DEF Init, SubscriptionsInv, SubscriptionInv
    <2>2. ASSUME NEW s \in Subs PROVE used[s] = 0 /\ Taken(s) = 0
      <3>1. Mine(s) = {}
        BY DEF Init, Mine, NoSub, Subs
      <3>2. Taken(s) = 0
        BY <3>1, SumEmpty DEF Taken
      <3> QED
        BY <3>2 DEF Init
    <2>3. UsedIsBacked
      BY <2>2, BackedByTaken DEF Backed
    <2> QED
      BY <2>1, <2>3
  <1>2. TypeOK /\ ChargeInv /\ RefundsInv => NeverOverRefunded
    BY OverRefundBounded
  <1>3. Inv /\ [Next]_vars => Inv'
    <2> SUFFICES ASSUME Inv, [Next]_vars PROVE Inv'
      OBVIOUS
    <2>1. TypeOK' /\ ChargeInv' /\ RefundsInv' /\ SubscriptionsInv'
      BY NextType, ChargeStep, RefundsStep, SubscriptionsStep
    <2>2. NeverOverRefunded /\ NeverOverRefunded'
      <3>1. (TypeOK /\ ChargeInv /\ RefundsInv => NeverOverRefunded)'
        BY <1>2, PTL
      <3> QED
        BY <1>2, <2>1, <3>1
    <2> QED
      BY <2>1, <2>2, BackedStep
  <1> QED
    BY <1>1, <1>3, PTL DEF Spec

=============================================================================
