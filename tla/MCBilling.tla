----------------------------- MODULE MCBilling -----------------------------
(* Instances of PaymentFulfilment, and so of CreditWallet, for TLC. *)
EXTENDS PaymentFulfilment, TLC

CONSTANTS r1, r2, o1, t1, t2, t3, e1, e2, e3, e4, m1, m2, sub

MCTxnProduct == [t \in Txns |-> IF t = t3 THEN "pro" ELSE "pack"]
MCMonthlyCredits == [p \in Plans |-> IF p = "pro" THEN 2 ELSE 0]

MCEventOf ==
    [e \in Events |->
       CASE e = e1 -> [source |-> "revenuecat", type |-> "grant", plan |-> "pro", ref |-> m1]
         [] e = e2 -> [source |-> "revenuecat", type |-> "revoke", plan |-> "pro", ref |-> m2]
         [] e = e3 -> [source |-> "razorpay", type |-> "grant", plan |-> "basic", ref |-> sub]
         [] e = e4 -> [source |-> "razorpay", type |-> "revoke", plan |-> "basic", ref |-> sub]]

MCWorkloads == {{"wallet", "spend", "adjust"}, {"wallet", "service", "chat"},
                {"wallet", "order", "status", "spend"}, {"wallet", "receipt", "spend"},
                {"wallet", "order", "status", "receipt"}, {"wallet", "webhook", "service"}}
MCLinkWorkload == {{"wallet", "order", "status"}}
MCWebhookWorkload == {{"wallet", "webhook"}}

MCAdjustments == {-2, 1}

BillingSymmetry == Permutations(Requests) \cup Permutations({t1, t2})

(***************************************************************************)
(* deduct_credits as it is written: walk DEDUCT_PRIORITY, stop when        *)
(* nothing remains, take what the bucket has.  The closed form that        *)
(* CreditWallet uses gives the same buckets on every wallet of this size.  *)
(***************************************************************************)
DEDUCT_PRIORITY == <<"welcome", "daily", "bonus", "referral", "promotional", "purchased">>

LoopAfter(c, amount) ==
    LET step[i \in 0..6] ==
          IF i = 0 THEN [credits |-> c, remaining |-> amount]
          ELSE LET s == step[i - 1]
                   b == DEDUCT_PRIORITY[i]
                   take == IF s.credits[b] < s.remaining THEN s.credits[b] ELSE s.remaining
               IN  IF s.remaining <= 0 \/ take <= 0 THEN s
                   ELSE [credits |-> [s.credits EXCEPT ![b] = @ - take],
                         remaining |-> s.remaining - take]
    IN  step[6].credits

ASSUME ClosedFormIsTheLoop ==
    \A c \in [Buckets -> -1..2], amount \in 0..4 :
       Total(c) >= amount => Deducted(c, amount) = LoopAfter(c, amount)
=============================================================================
