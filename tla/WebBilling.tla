----------------------------- MODULE WebBilling -----------------------------
(***************************************************************************)
(* Buying credits in the web client: the prices (lib/pricing.js), the      *)
(* billing page with its packs and discount codes (pages/Billing.jsx), the *)
(* pay-as-you-go card (components/PaygCard.jsx), the page the hosted       *)
(* checkout returns to (pages/PaymentSuccess.jsx) and the wallet page      *)
(* (pages/Wallet.jsx).                                                     *)
(***************************************************************************)
EXTENDS ClientCalls

CONSTANTS
    ShopPacks,       \* the packs on sale
    CodePacks,       \* of each discount code, the packs it is valid for
    MaxConfirms,     \* polls after the first before the payment counts as failed
    MaxPrices,       \* bound: editions of the prices
    Workloads

VARIABLES page, server, does

billingVars == <<page, server, net, lost, does>>

None == "none"
Codes == DOMAIN CodePacks
Places == {"away", "billing", "checkout", "confirm", "wallet"}
Kinds == {"pricing", "validate", "order", "payg", "status", "wallet"}
Versions == 1 .. MaxPrices

Page == [at: Places,
         cache: Versions \cup {0},                   \* of the module
         pricing: Versions \cup {0}, error: BOOLEAN,
         buying: ShopPacks \cup {None}, code: Codes \cup {None}, applied: Codes \cup {None},
         discounts: SUBSET ShopPacks, applying: BOOLEAN,
         valid: BOOLEAN, busy: BOOLEAN,               \* the amount of the card
         status: {"checking", "success", "failed"}, polls: 0 .. MaxConfirms, timer: BOOLEAN,
         balance: {None, "shown"}, loading: BOOLEAN]
\* What a mounted page starts with; the module's cache outlives it.
Fresh(at, cache) ==
    [at |-> at, cache |-> cache, pricing |-> cache, error |-> FALSE,
     buying |-> None, code |-> None, applied |-> None, discounts |-> {}, applying |-> FALSE,
     valid |-> TRUE, busy |-> FALSE,
     status |-> "checking", polls |-> 0, timer |-> FALSE,
     balance |-> None, loading |-> TRUE]

Server == [prices: Versions, link: {None, "created", "paid", "cancelled"}]

BillingTypeOK ==
    /\ page \in Page /\ server \in Server /\ does \in Workloads
    /\ lost \in 0 .. MaxLost /\ DOMAIN net = Kinds
    /\ page.applied = None => page.discounts = {}

BillingInit ==
    /\ does \in Workloads /\ lost = 0 /\ net = NoCalls(Kinds)
    /\ page = Fresh("away", 0)
    /\ server = [prices |-> 1, link |-> None]

Same == UNCHANGED <<server, lost, does>>
Stays(p) == page' = p /\ UNCHANGED net /\ Same

\* Leaving a page of the client: nothing in flight reaches it any more, and nothing
\* but the prices is kept.
Quiescent(n) == [k \in Kinds |-> IF k = "pricing" THEN {[c EXCEPT !.to.waited = FALSE] : c \in n[k]} ELSE {}]
Leave ==
    /\ page.at \in {"billing", "confirm", "wallet"}
    /\ page' = Fresh("away", page.cache)
    /\ net' = Quiescent(net)
    /\ Same

-----------------------------------------------------------------------------
(* The prices                                                               *)

\* usePricing takes what is cached or in flight; then the page loads them anyway.
Shared == [forced |-> FALSE, waited |-> TRUE]
Forced == [forced |-> TRUE, waited |-> FALSE]
\* Bound: the page is opened again when the calls of its last visit were answered.
ToBilling(n) ==
    /\ n["pricing"] = {}
    /\ net' = IF page.cache = 0 THEN Asking(Asking(n, "pricing", Shared), "pricing", Forced)
                                ELSE Asking(n, "pricing", Forced)
    /\ page' = Fresh("billing", page.cache)
    /\ Same
OpenBilling == page.at = "away" /\ "buy" \in does /\ ToBilling(net)

\* A call of either kind fills the cache; only the one the page waits for shows.
DeliverPricing ==
    \E c \in Came("pricing") :
        /\ Take("pricing", c)
        /\ page' = [page EXCEPT
               !.cache = IF Ok(c) THEN c.ans ELSE @,
               !.pricing = IF Ok(c) /\ c.to.waited THEN c.ans ELSE @,
               !.error = @ \/ (~Ok(c) /\ c.to.waited)]
        /\ Same

PacksShown == page.at = "billing" /\ page.pricing # 0

-----------------------------------------------------------------------------
(* Discount codes                                                           *)

\* The field is locked while a code is applied.
TypeCode(k) == PacksShown /\ page.applied = None /\ k # page.code /\ Stays([page EXCEPT !.code = k])

\* The button waits for the answer, the enter key does not.
ApplyCode ==
    /\ "discount" \in does /\ PacksShown /\ page.applied = None /\ page.code # None
    /\ Ask("validate", page.code)
    /\ page' = [page EXCEPT !.applying = TRUE]
    /\ Same

\* One call per pack was answered: which packs the code is good for.
DeliverCode ==
    \E c \in Came("validate") :
        /\ Take("validate", c)
        /\ page' = IF Ok(c) /\ c.ans # {}
                   THEN [page EXCEPT !.applying = FALSE, !.discounts = c.ans, !.applied = c.to]
                   ELSE [page EXCEPT !.applying = FALSE, !.discounts = {}, !.applied = None]
        /\ Same

ClearCode ==
    /\ PacksShown /\ page.applied # None
    /\ Stays([page EXCEPT !.code = None, !.applied = None, !.discounts = {}])

Discounted(p) == page.applied # None /\ p \in page.discounts

-----------------------------------------------------------------------------
(* Buying                                                                   *)

\* Only the button of the pack that is being bought waits.
BuyPack(p) ==
    /\ PacksShown /\ page.buying # p
    /\ Ask("order", [pack |-> p, code |-> IF Discounted(p) THEN page.applied ELSE None])
    /\ page' = [page EXCEPT !.buying = p]
    /\ Same

TypeAmount == PacksShown /\ "payg" \in does /\ Stays([page EXCEPT !.valid = ~@])

CanRecharge == PacksShown /\ page.valid /\ ~page.busy
Recharge ==
    /\ "payg" \in does /\ CanRecharge /\ Ask("payg", TRUE)
    /\ page' = [page EXCEPT !.busy = TRUE]
    /\ Same

\* The browser goes to the checkout, and the client with its cache is gone.
DeliverOrder ==
    \E k \in {"order", "payg"} : \E c \in Came(k) :
        /\ IF Ok(c)
           THEN page' = Fresh("checkout", 0) /\ net' = NoCalls(Kinds)
           ELSE /\ Take(k, c)
                /\ page' = IF k = "order" THEN [page EXCEPT !.buying = None]
                                          ELSE [page EXCEPT !.busy = FALSE]
        /\ Same

-----------------------------------------------------------------------------
(* The return from the checkout, and the wallet                             *)

\* Paid, given up, or left by the back button; the provider sends the browser back.
Checkout ==
    /\ page.at = "checkout"
    /\ \/ \E l \in {"paid", "cancelled", "created"} : server' = [server EXCEPT !.link = l]
       \/ UNCHANGED server
    /\ \/ page' = Fresh("confirm", 0) /\ net' = [net EXCEPT !["status"] = {Sent(0)}]
       \/ page' = Fresh("away", 0) /\ UNCHANGED net
    /\ UNCHANGED <<lost, does>>

DeliverStatus ==
    \E c \in Came("status") :
        /\ Take("status", c)
        /\ page' = IF Ok(c) /\ c.ans = "paid" THEN [page EXCEPT !.status = "success"]
                   ELSE IF (Ok(c) /\ c.ans = "cancelled") \/ page.polls >= MaxConfirms
                   THEN [page EXCEPT !.status = "failed"]
                   ELSE [page EXCEPT !.timer = TRUE, !.polls = @ + 1]
        /\ Same

StatusDue == page.timer /\ Ask("status", page.polls) /\ page' = [page EXCEPT !.timer = FALSE] /\ Same

\* Where the buttons under the outcome lead.
Outcome ==
    /\ page.at = "confirm" /\ page.status # "checking"
    /\ IF page.status = "failed"
       THEN ToBilling(NoCalls(Kinds))
       ELSE \/ page' = Fresh("wallet", page.cache) /\ net' = [NoCalls(Kinds) EXCEPT !["wallet"] = {Sent(TRUE)}]
               /\ Same
            \/ page' = Fresh("away", page.cache) /\ net' = NoCalls(Kinds) /\ Same

OpenWallet ==
    /\ page.at = "away" /\ "wallet" \in does
    /\ page' = Fresh("wallet", page.cache) /\ Ask("wallet", TRUE) /\ Same
DeliverWallet ==
    \E c \in Came("wallet") :
        /\ Take("wallet", c)
        /\ page' = [page EXCEPT !.loading = FALSE, !.balance = IF Ok(c) THEN "shown" ELSE @]
        /\ Same
BalanceShown == page.at = "wallet" /\ ~page.loading /\ page.balance = "shown"
GoRecharge == BalanceShown /\ ToBilling(net)

-----------------------------------------------------------------------------
(* The server                                                               *)

OnlyNet == UNCHANGED <<page, server, lost, does>>

ServePricing == \E c \in Asked("pricing") : Answer("pricing", c, server.prices) /\ OnlyNet
\* The calls for the packs are calls of their own: some may fail.
ServeCode ==
    \E c \in Asked("validate") : \E ok \in SUBSET CodePacks[c.to] :
        Answer("validate", c, ok) /\ OnlyNet
ServeOrder ==
    \E k \in {"order", "payg"} : \E c \in Asked(k) :
        /\ \/ Answer(k, c, TRUE) /\ server' = [server EXCEPT !.link = "created"]
           \/ Refuse(k, c) /\ UNCHANGED server
        /\ UNCHANGED <<page, lost, does>>
ServeStatus == \E c \in Asked("status") : Answer("status", c, server.link) /\ OnlyNet
ServeWallet == \E c \in Asked("wallet") : Answer("wallet", c, TRUE) /\ OnlyNet

\* Meanwhile an administrator publishes other prices, or the payment is confirmed.
Reprice ==
    /\ "reprice" \in does /\ server.prices < MaxPrices
    /\ server' = [server EXCEPT !.prices = @ + 1] /\ UNCHANGED <<page, net, lost, does>>
LinkPaid ==
    /\ page.at = "confirm" /\ server.link = "created"
    /\ server' = [server EXCEPT !.link = "paid"] /\ UNCHANGED <<page, net, lost, does>>

Lose ==
    /\ "lose" \in does /\ \E k \in Kinds : \E c \in net[k] : Lost(k, c)
    /\ UNCHANGED <<page, server, does>>

BillingNext ==
    \/ OpenBilling \/ Leave \/ DeliverPricing
    \/ \E k \in Codes : TypeCode(k)
    \/ ApplyCode \/ DeliverCode \/ ClearCode
    \/ \E p \in ShopPacks : BuyPack(p)
    \/ TypeAmount \/ Recharge \/ DeliverOrder \/ Checkout
    \/ DeliverStatus \/ StatusDue \/ Outcome \/ OpenWallet \/ DeliverWallet \/ GoRecharge
    \/ ServePricing \/ ServeCode \/ ServeOrder \/ ServeStatus \/ ServeWallet
    \/ Reprice \/ LinkPaid \/ Lose

BillingSpec == BillingInit /\ [][BillingNext]_billingVars

\* The server answers, and the browser runs handlers and timers.
ConfirmAnswered == ServeStatus
ConfirmHeard == DeliverStatus
BillingFairSpec ==
    /\ BillingSpec
    /\ WF_billingVars(ConfirmAnswered) /\ WF_billingVars(ConfirmHeard)
    /\ WF_billingVars(StatusDue)

-----------------------------------------------------------------------------
(* Properties                                                               *)

\* However codes are typed, applied and removed while answers are on their way, an
\* order carries a code only for a pack that very code is good for.
CodeFitsPack ==
    \A c \in net["order"] : c.to.code # None => c.to.pack \in CodePacks[c.to.code]
=============================================================================
