---- MODULE MCBilling ----
(* Small instances of BillingSession: totals per subscription, symmetry. *)
EXTENDS BillingSession, TLC

OneSub == <<3>>
TwoSubs == <<2, 0>>   \* the second subscription is unlimited
Symmetry == Permutations(Requests)
====
