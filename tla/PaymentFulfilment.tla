------------------------- MODULE PaymentFulfilment -------------------------
(***************************************************************************)
(* How payments become credits, sessions and plans for one user:           *)
(* Razorpay payment links (routers/payments_routes.py), store receipts and *)
(* subscription webhooks (services/payments_service.py), discount codes    *)
(* (services/discount_service.py).  It composes with CreditWallet: a       *)
(* fulfilment calls add_credits and waits, so job[p] is the payment        *)
(* handler's own place and req[p] the wallet call it awaits.               *)
(*                                                                         *)
(* The payment providers are external: an order is paid when the provider  *)
(* says so, a receipt is valid when the store says so, and a webhook may   *)
(* be delivered any number of times and in any order.                      *)
(***************************************************************************)
EXTENDS CreditWallet

CONSTANTS
    Orders,          \* Razorpay payment links
    PackCredits,     \* credits of the packs on sale
    Txns,            \* store transactions
    TxnProduct,      \* what each one bought: "pack" or a plan
    Events,          \* subscription webhook events
    EventOf,         \* their content: [source, type, plan, ref]
    Plans,           \* plan ids, "free" is one
    MonthlyCredits,  \* of each plan
    MaxUses,         \* max_uses of the discount code; 0 is unlimited
    NoOrder, NoTxn, NoEvent,
    Workloads,       \* bound: sets of calls that arrive in one behaviour
    MaxCalls, MaxRestarts   \* bounds: calls other than order creation, restarts

Sources == {"razorpay", "revenuecat"}
StoreSource == "store"
Refs == {EventOf[e].ref : e \in Events} \cup Txns
Calls == {"order", "status", "receipt", "webhook", "wallet", "adjust", "spend",
          "service", "chat"}

ASSUME PaymentAssumption ==
    /\ NoOrder \notin Orders /\ NoTxn \notin Txns /\ NoEvent \notin Events
    /\ "free" \in Plans /\ "pack" \notin Plans
    /\ PackCredits \in Purchases
    /\ MonthlyCredits \in [Plans -> Nat]
    /\ \A p \in Plans : MonthlyCredits[p] > 0 => MonthlyCredits[p] \in Purchases
    /\ TxnProduct \in [Txns -> Plans \cup {"pack"}]
    /\ \A e \in Events : EventOf[e].source \in Sources
                         /\ EventOf[e].type \in {"grant", "revoke"}
                         /\ EventOf[e].plan \in Plans
    /\ MaxUses \in Nat /\ Workloads \subseteq SUBSET Calls
    /\ MaxCalls \in Nat /\ MaxRestarts \in Nat

VARIABLES
    order,       \* payment_transactions, and the provider's view of each link
    receipts,    \* iap_receipts: documents per store transaction
    plan,        \* users.plan
    subs,        \* subscriptions: status by source and reference
    uses,        \* discounts: redemptions counted
    job,         \* what each payment handler is in the middle of
    fulfilled,   \* history: times an order was credited or granted
    granted,     \* history: times a store transaction reached the wallet
    bonuses,     \* history: times an event put monthly credits in the wallet
    contested,   \* history: orders and transactions two handlers worked on at
                 \* once, or one when the server stopped
    offered,     \* the workload of this behaviour
    calls, restarts

paymentDocs == <<order, receipts, plan, subs, uses>>
paymentHistory == <<fulfilled, granted, bonuses, contested>>
boundVars == <<offered, calls, restarts>>
paymentVars == <<paymentDocs, job, paymentHistory, boundVars>>
allVars == <<walletVars, paymentVars>>

OrderDoc == [made: BOOLEAN, kind: {"credits", "interview_sessions"}, discount: BOOLEAN,
             paid: BOOLEAN, credited: BOOLEAN]

JobPCs == {"none", "order_insert", "sessions_insert", "sessions_log", "order_fulfil",
           "order_credited", "discount_use", "receipt_find", "receipt_insert",
           "receipt_credit", "receipt_next", "plan_assign", "plan_credit",
           "plan_subscribe", "plan_free", "plan_cancel"}

Job == [pc: JobPCs, order: Orders \cup {NoOrder}, txn: Txns \cup {NoTxn},
        event: Events \cup {NoEvent}, todo: SUBSET Txns,
        kind: {"credits", "interview_sessions"}, discount: BOOLEAN]

NoJob == [pc |-> "none", order |-> NoOrder, txn |-> NoTxn, event |-> NoEvent,
          todo |-> {}, kind |-> "credits", discount |-> FALSE]

-----------------------------------------------------------------------------
(* Steps of a payment handler, which runs while it awaits no wallet call *)

Begin(p, op, j) ==
    /\ op \in offered
    /\ wallet.open       \* a login opened it before the first token was issued
    /\ job[p] = NoJob /\ req[p] = Idle
    /\ job' = [job EXCEPT ![p] = j]

Count == calls < MaxCalls /\ calls' = calls + 1

JobAt(p, pc) == job[p].pc = pc /\ req[p] = Idle
Advance(p, pc) == job' = [job EXCEPT ![p].pc = pc]
Finish(p) == job' = [job EXCEPT ![p] = NoJob]

\* Handlers in the middle of fulfilling the order, or crediting the transaction.
Fulfilling(p, o) == job[p].order = o /\ job[p].pc # "order_insert"
Crediting(p, t) == job[p].txn = t

-----------------------------------------------------------------------------
(* Razorpay payment links *)

\* discount_service.validate, when the code exists, is active and applies.
CodeIsValid == MaxUses = 0 \/ uses < MaxUses

\* A discounted order needs a valid code when it is created, not when it is paid.
CreateOrder(p, o, kind, discount) ==
    /\ ~order[o].made
    /\ \A q \in Requests : job[q].order # o       \* each link gets a fresh id
    /\ discount => CodeIsValid
    /\ Begin(p, "order", [NoJob EXCEPT !.pc = "order_insert", !.order = o,
                                       !.kind = kind, !.discount = discount])
    /\ UNCHANGED <<walletVars, paymentDocs, paymentHistory, boundVars>>

\* Mutant: the redemption is counted when the order is made.
InsertOrder_CountsUse(p) ==
    /\ JobAt(p, "order_insert")
    /\ order' = [order EXCEPT ![job[p].order] =
                   [@ EXCEPT !.made = TRUE, !.kind = job[p].kind, !.discount = job[p].discount]]
    /\ uses' = uses + (IF job[p].discount THEN 1 ELSE 0)
    /\ Finish(p)
    /\ UNCHANGED <<walletVars, receipts, plan, subs, paymentHistory, boundVars>>

InsertOrder(p) ==
    /\ JobAt(p, "order_insert")
    /\ order' = [order EXCEPT ![job[p].order] =
                   [@ EXCEPT !.made = TRUE, !.kind = job[p].kind, !.discount = job[p].discount]]
    /\ Finish(p)
    /\ UNCHANGED <<walletVars, receipts, plan, subs, uses, paymentHistory, boundVars>>

\* External: the customer pays on the provider's page.
Pay(o) ==
    /\ order[o].made /\ ~order[o].paid
    /\ order' = [order EXCEPT ![o].paid = TRUE]
    /\ UNCHANGED <<walletVars, receipts, plan, subs, uses, job, paymentHistory, boundVars>>

\* link-status and verify: the transaction is read, the provider confirms, and
\* a transaction that does not say credited is fulfilled.
ConfirmOrder(p, o) ==
    /\ order[o].made /\ order[o].paid /\ ~order[o].credited
    /\ Begin(p, "status", [NoJob EXCEPT !.order = o,
                                       !.pc = IF order[o].kind = "credits" THEN "order_fulfil"
                                              ELSE "sessions_insert"])
    /\ Count
    /\ contested' = IF \E q \in Requests : Fulfilling(q, o)
                    THEN contested \cup {o} ELSE contested
    /\ UNCHANGED <<walletVars, paymentDocs, fulfilled, granted, bonuses, offered, restarts>>

\* Mutant: the flag is written before the credits.
FulfilCredits_FlagFirst(p) ==
    /\ JobAt(p, "order_fulfil")
    /\ order' = [order EXCEPT ![job[p].order].credited = TRUE]
    /\ AddCredits(p, PackCredits, "purchased", "purchase")
    /\ Advance(p, "order_credited")
    /\ UNCHANGED <<receipts, plan, subs, uses, paymentHistory, boundVars>>

\* The wallet call starts; the handler goes on when it has returned.
FulfilCredits(p) ==
    /\ JobAt(p, "order_fulfil")
    /\ AddCredits(p, PackCredits, "purchased", "purchase")
    /\ Advance(p, "order_credited")
    /\ UNCHANGED <<paymentDocs, paymentHistory, boundVars>>

\* grant_sessions: the grant, then its ledger row.
InsertSessions(p) ==
    /\ JobAt(p, "sessions_insert")
    /\ fulfilled' = [fulfilled EXCEPT ![job[p].order] = @ + 1]
    /\ Advance(p, "sessions_log")
    /\ UNCHANGED <<walletVars, paymentDocs, granted, bonuses, contested, boundVars>>

LogSessions(p) ==
    /\ JobAt(p, "sessions_log")
    /\ Advance(p, "order_credited")
    /\ UNCHANGED <<walletVars, paymentDocs, paymentHistory, boundVars>>

\* Mutant: the transaction never says credited.
MarkCredited_NoFlag(p) ==
    /\ JobAt(p, "order_credited")
    /\ IF order[job[p].order].discount THEN Advance(p, "discount_use") ELSE Finish(p)
    /\ UNCHANGED <<walletVars, paymentDocs, paymentHistory, boundVars>>

MarkCredited(p) ==
    LET o == job[p].order IN
    /\ JobAt(p, "order_credited")
    /\ order' = [order EXCEPT ![o].credited = TRUE]
    /\ IF order[o].discount THEN Advance(p, "discount_use") ELSE Finish(p)
    /\ UNCHANGED <<walletVars, receipts, plan, subs, uses, paymentHistory, boundVars>>

CountUse(p) ==
    /\ JobAt(p, "discount_use")
    /\ uses' = uses + 1
    /\ Finish(p)
    /\ UNCHANGED <<walletVars, order, receipts, plan, subs, paymentHistory, boundVars>>

-----------------------------------------------------------------------------
(* Store receipts: verify_apple_receipt, verify_google_receipt *)

\* The purchases of one receipt that are processed: all its packs (Apple lists
\* them all), or, when there is no pack among them, the plan listed last.
VerifyReceipt(p, todo) ==
    /\ todo # {}
    /\ Cardinality(todo) > 1 => \A t \in todo : TxnProduct[t] = "pack"
    /\ Begin(p, "receipt", [NoJob EXCEPT !.pc = "receipt_find", !.todo = todo])
    /\ Count
    /\ UNCHANGED <<walletVars, paymentDocs, paymentHistory, offered, restarts>>

\* The next purchase of the receipt, or the end of the loop.
NextPurchase(todo) ==
    IF todo = {} THEN NoJob ELSE [NoJob EXCEPT !.pc = "receipt_find", !.todo = todo]

\* Mutant: a purchase that was processed is processed again.
FindReceipt_Again(p) ==
    /\ JobAt(p, "receipt_find")
    /\ \E t \in job[p].todo :
          job' = [job EXCEPT ![p] = [NoJob EXCEPT !.pc = "receipt_insert",
                                                  !.txn = t, !.todo = job[p].todo \ {t}]]
    /\ UNCHANGED <<walletVars, paymentDocs, paymentHistory, boundVars>>

\* find_one on iap_receipts: a transaction that is there is already processed.
FindReceipt(p) ==
    /\ JobAt(p, "receipt_find")
    /\ \E t \in job[p].todo :
          LET todo == job[p].todo \ {t} IN
          IF receipts[t] > 0
          THEN /\ job' = [job EXCEPT ![p] = NextPurchase(todo)]
               /\ UNCHANGED contested
          ELSE /\ job' = [job EXCEPT ![p] = [NoJob EXCEPT !.pc = "receipt_insert",
                                                          !.txn = t, !.todo = todo]]
               /\ contested' = IF \E q \in Requests : Crediting(q, t)
                               THEN contested \cup {t} ELSE contested
    /\ UNCHANGED <<walletVars, paymentDocs, fulfilled, granted, bonuses, boundVars>>

\* Mutant: the purchase is credited without having been recorded.
InsertReceipt_Skips(p) ==
    /\ JobAt(p, "receipt_insert")
    /\ Advance(p, IF TxnProduct[job[p].txn] = "pack" THEN "receipt_credit" ELSE "plan_assign")
    /\ UNCHANGED <<walletVars, paymentDocs, paymentHistory, boundVars>>

\* txn_id has no unique index: two handlers may both insert.
InsertReceipt(p) ==
    LET t == job[p].txn IN
    /\ JobAt(p, "receipt_insert")
    /\ receipts' = [receipts EXCEPT ![t] = @ + 1]
    /\ Advance(p, IF TxnProduct[t] = "pack" THEN "receipt_credit" ELSE "plan_assign")
    /\ UNCHANGED <<walletVars, order, plan, subs, uses, paymentHistory, boundVars>>

CreditPack(p) ==
    /\ JobAt(p, "receipt_credit")
    /\ AddCredits(p, PackCredits, "purchased", "purchase")
    /\ Advance(p, "receipt_next")
    /\ UNCHANGED <<paymentDocs, paymentHistory, boundVars>>

ReceiptDone(p) ==
    /\ JobAt(p, "receipt_next")
    /\ job' = [job EXCEPT ![p] = NextPurchase(job[p].todo)]
    /\ UNCHANGED <<walletVars, paymentDocs, paymentHistory, boundVars>>

-----------------------------------------------------------------------------
(* Plans: _credit_plan, _revoke_plan, and the webhooks that call them *)

\* create_subscription: the provider opens it, the document is inserted.
OpenSubscription(e) ==
    LET k == <<"razorpay", EventOf[e].ref>> IN
    /\ "webhook" \in offered /\ wallet.open
    /\ EventOf[e].source = "razorpay" /\ subs[k] = "none"
    /\ subs' = [subs EXCEPT ![k] = "created"]
    /\ UNCHANGED <<walletVars, order, receipts, plan, uses, job, paymentHistory, boundVars>>

\* Razorpay reports on subscriptions that were opened here.
Webhook(p, e) ==
    /\ EventOf[e].source = "razorpay" => subs[<<"razorpay", EventOf[e].ref>>] # "none"
    /\ Begin(p, "webhook",
             [NoJob EXCEPT !.event = e,
                           !.pc = CASE EventOf[e].type = "grant" -> "plan_assign"
                                    [] EventOf[e].source = "revenuecat" -> "plan_free"
                                    [] OTHER -> "plan_cancel"])
    /\ Count
    /\ UNCHANGED <<walletVars, paymentDocs, paymentHistory, offered, restarts>>

PlanOf(j) == IF j.event # NoEvent THEN EventOf[j.event].plan ELSE TxnProduct[j.txn]
SourceOf(j) == IF j.event # NoEvent THEN EventOf[j.event].source ELSE StoreSource
RefOf(j) == IF j.event # NoEvent THEN EventOf[j.event].ref ELSE j.txn

AssignPlan(p) ==
    LET new == PlanOf(job[p]) IN
    /\ JobAt(p, "plan_assign")
    /\ plan' = new
    /\ Advance(p, IF MonthlyCredits[new] > 0 THEN "plan_credit" ELSE "plan_subscribe")
    /\ UNCHANGED <<walletVars, order, receipts, subs, uses, paymentHistory, boundVars>>

CreditMonthly(p) ==
    /\ JobAt(p, "plan_credit")
    /\ AddCredits(p, MonthlyCredits[PlanOf(job[p])], "bonus", "plan_credit")
    /\ Advance(p, "plan_subscribe")
    /\ UNCHANGED <<paymentDocs, paymentHistory, boundVars>>

Subscribe(p) ==
    LET j == job[p] IN
    /\ JobAt(p, "plan_subscribe")
    /\ subs' = [subs EXCEPT ![<<SourceOf(j), RefOf(j)>>] = "active"]
    /\ Finish(p)
    /\ UNCHANGED <<walletVars, order, receipts, plan, uses, paymentHistory, boundVars>>

FreePlan(p) ==
    /\ JobAt(p, "plan_free")
    /\ plan' = "free"
    /\ Advance(p, "plan_cancel")
    /\ UNCHANGED <<walletVars, order, receipts, subs, uses, paymentHistory, boundVars>>

\* RevenueCat: the first document found for the user and the source.  Razorpay:
\* the first with the reference.  update_one changes one document, or none.
CancelSubscription(p) ==
    LET e == EventOf[job[p].event]
        there == {k \in DOMAIN subs : /\ subs[k] # "none"
                                      /\ IF e.source = "revenuecat" THEN k[1] = e.source
                                         ELSE k[2] = e.ref} IN
    /\ JobAt(p, "plan_cancel")
    /\ \/ there = {} /\ UNCHANGED subs
       \/ \E k \in there : subs' = [subs EXCEPT ![k] = "cancelled"]
    /\ Finish(p)
    /\ UNCHANGED <<walletVars, order, receipts, plan, uses, paymentHistory, boundVars>>

-----------------------------------------------------------------------------
(* The wallet's own steps, seen by the payments *)

\* What a wallet write does to the history of the payment that awaits it.
Credited(p) ==
    LET j == job[p]
        bump(f, k) == [f EXCEPT ![k] = @ + 1] IN
    /\ fulfilled' = IF j.pc = "order_credited" THEN bump(fulfilled, j.order) ELSE fulfilled
    /\ granted' = IF j.txn # NoTxn THEN bump(granted, j.txn) ELSE granted
    /\ bonuses' = IF j.event # NoEvent THEN bump(bonuses, j.event) ELSE bonuses

StepWallet(p) ==
    /\ WalletStep(p)
    /\ IF At(p, "add_write") THEN Credited(p) ELSE UNCHANGED <<fulfilled, granted, bonuses>>
    /\ UNCHANGED <<paymentDocs, job, contested, boundVars>>

\* An exception in the wallet call ends the handler that awaited it.
UnwindJob(p) ==
    /\ Unwind(p)
    /\ Finish(p)
    /\ UNCHANGED <<paymentDocs, paymentHistory, boundVars>>

CallWallet(p) ==
    /\ Count /\ job[p] = NoJob
    /\ \/ "wallet" \in offered /\ GetWallet(p)
       \/ /\ "adjust" \in offered
          /\ \E amount \in Adjustments, bucket \in AdjustedBuckets :
                AdjustWallet(p, amount, bucket)
       \/ /\ wallet.open
          /\ \E cost \in Costs :
                \/ "spend" \in offered /\ Spend(p, cost)
                \/ "service" \in offered /\ CheckedService(p, cost)
                \/ "chat" \in offered /\ ChatMessage(p, cost)
    /\ UNCHANGED <<paymentDocs, job, paymentHistory, offered, restarts>>

PassTime == Tick /\ UNCHANGED paymentVars

\* Handlers die where they are; what they were fulfilling stays as it is.
RestartServer ==
    /\ restarts < MaxRestarts
    /\ \E p \in Requests : job[p] # NoJob \/ req[p] # Idle
    /\ Restart
    /\ job' = [p \in Requests |-> NoJob]
    /\ contested' = contested \cup {o \in Orders : \E p \in Requests : Fulfilling(p, o)}
                              \cup {t \in Txns : \E p \in Requests : Crediting(p, t)}
    /\ restarts' = restarts + 1
    /\ UNCHANGED <<paymentDocs, fulfilled, granted, bonuses, offered, calls>>

-----------------------------------------------------------------------------

Init ==
    /\ WalletInit
    /\ order = [o \in Orders |-> [made |-> FALSE, kind |-> "credits", discount |-> FALSE,
                                  paid |-> FALSE, credited |-> FALSE]]
    /\ receipts = [t \in Txns |-> 0]
    /\ plan = "free"
    /\ subs = [k \in (Sources \cup {StoreSource}) \X Refs |-> "none"]
    /\ uses = 0
    /\ job = [p \in Requests |-> NoJob]
    /\ fulfilled = [o \in Orders |-> 0]
    /\ granted = [t \in Txns |-> 0]
    /\ bonuses = [e \in Events |-> 0]
    /\ contested = {}
    /\ offered \in Workloads /\ calls = 0 /\ restarts = 0

OrderStep(p) ==
    \/ InsertOrder(p) \/ FulfilCredits(p) \/ InsertSessions(p) \/ LogSessions(p)
    \/ MarkCredited(p) \/ CountUse(p)

ReceiptStep(p) ==
    FindReceipt(p) \/ InsertReceipt(p) \/ CreditPack(p) \/ ReceiptDone(p)

PlanStep(p) ==
    \/ AssignPlan(p) \/ CreditMonthly(p) \/ Subscribe(p)
    \/ FreePlan(p) \/ CancelSubscription(p)

Next ==
    \/ \E p \in Requests :
          \/ CallWallet(p)
          \/ StepWallet(p)
          \/ UnwindJob(p)
          \/ \E o \in Orders, kind \in {"credits", "interview_sessions"},
                discount \in BOOLEAN : CreateOrder(p, o, kind, discount)
          \/ \E o \in Orders : ConfirmOrder(p, o)
          \/ \E todo \in SUBSET Txns : VerifyReceipt(p, todo)
          \/ \E e \in Events : Webhook(p, e)
          \/ OrderStep(p) \/ ReceiptStep(p) \/ PlanStep(p)
    \/ \E o \in Orders : Pay(o)
    \/ \E e \in Events : OpenSubscription(e)
    \/ PassTime
    \/ RestartServer

Spec == Init /\ [][Next]_allVars

-----------------------------------------------------------------------------
(* Properties *)

PaymentTypeOK ==
    /\ WalletTypeOK
    /\ order \in [Orders -> OrderDoc]
    /\ receipts \in [Txns -> Nat]
    /\ plan \in Plans
    /\ subs \in [(Sources \cup {StoreSource}) \X Refs ->
                   {"none", "created", "active", "cancelled"}]
    /\ uses \in Nat
    /\ job \in [Requests -> Job]
    /\ fulfilled \in [Orders -> Nat] /\ granted \in [Txns -> Nat]
    /\ bonuses \in [Events -> Nat]
    /\ contested \subseteq Orders \cup Txns
    /\ offered \in Workloads /\ calls \in Nat /\ restarts \in Nat

\* A customer whose payment is marked credited has been given what was bought:
\* the flag is written after the wallet or the grant, whatever is interrupted.
CreditedWasFulfilled ==
    \A o \in Orders : order[o].credited => order[o].paid /\ fulfilled[o] > 0

\* Polling a payment link any number of times gives the pack once, if no two
\* polls were inside the fulfilment together and the server did not stop in it.
FulfilledOnce == \A o \in Orders : o \notin contested => fulfilled[o] <= 1

\* The wallet is never credited for a store transaction more often than the
\* transaction was recorded in iap_receipts before.
ReceiptFirst == \A t \in Txns : granted[t] <= receipts[t]

\* A recorded pack purchase that no handler is working on was credited exactly
\* once, unless two handlers raced on it or the server stopped in between.
ReceiptSettled ==
    \A t \in Txns :
       (/\ TxnProduct[t] = "pack" /\ receipts[t] > 0 /\ t \notin contested
        /\ \A p \in Requests : ~Crediting(p, t))
       => granted[t] = 1

\* One element for each time that an order with a discount was fulfilled.
DiscountsGiven == UNION {{o} \X (1..fulfilled[o]) : o \in {k \in Orders : order[k].discount}}

\* A discount code counts no redemption that was not a fulfilled order.
UsesAreFulfilments == uses <= Cardinality(DiscountsGiven)

\* razorpay_link_status: "Idempotently credits the wallet on the first `paid`
\* sighting."
LinkIsIdempotent == \A o \in Orders : fulfilled[o] <= 1

\* handle_revenuecat_webhook: event.id "is unique per delivery and is what we key
\* idempotency on"; RevenueCat "resends webhooks on failure".
EventIsIdempotent ==
    \A e \in Events : EventOf[e].source = "revenuecat" => bonuses[e] <= 1
=============================================================================
