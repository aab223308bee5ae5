---------------------------- MODULE MobileBilling ----------------------------
(***************************************************************************)
(* Buying credits in the mobile app: the billing screen                    *)
(* (screens/BillingScreen.js), the bridge to the stores (services/iap.js), *)
(* the observer of their transactions (services/revenuecat.js) and the     *)
(* wallet screen (screens/WalletScreen.js).                                *)
(*                                                                         *)
(* A screen of the drawer stays mounted until its user signs out; the      *)
(* bridge and the observer are modules and outlive users.  The stores are  *)
(* external: a purchase is reported to whoever listens, and one that was   *)
(* not finished is reported again by Apple's when the app connects.        *)
(***************************************************************************)
EXTENDS ClientCalls

CONSTANTS
    Users,
    ShopPacks,     \* the packs on sale
    MaxPurchases,  \* bound: purchases the store is paid for
    MaxSignOuts,   \* bound: times a user signs out
    Workloads

VARIABLES page, store, does

storeVars == <<page, store, net, lost, does>>

None == "none"
Kinds == {"pricing", "connect", "products", "sheet", "verify", "order", "link", "wallet"}
Native == does \cap {"ios", "android"} # {}     \* expo-iap is in the build

\* Whose callbacks a listener has: the mounted screen's, a left one's, or none.
Callbacks == {"here", "gone", "nobody"}

Page == [user: Users \cup {None}, at: {"signin", "other", "billing", "wallet"}, mounted: BOOLEAN,
         loading: BOOLEAN, pricing: BOOLEAN, iapReady: BOOLEAN, products: SUBSET ShopPacks,
         buying: ShopPacks \cup {"payg", None}, valid: BOOLEAN, browser: BOOLEAN,
         balance: BOOLEAN,
         initialized: BOOLEAN, sub: Callbacks \cup {None},   \* of iap.js
         leaked: BOOLEAN,                                    \* a listener nobody can remove
         closing: BOOLEAN,
         configured: Users \cup {None},                        \* of revenuecat.js
         outs: 0 .. MaxSignOuts]
Store == [connected: BOOLEAN, purchase: {None, "paid", "finished"}, event: BOOLEAN,
          nth: 0 .. MaxPurchases,       \* which purchase it is
          buyer: Users \cup {None}, observed: Users \cup {None},
          receipts: SUBSET (0 .. MaxPurchases),   \* iap_receipts: the purchases recorded
          credited: SUBSET (0 .. MaxPurchases),   \* the purchases the wallet was credited for
          cut: SUBSET (0 .. MaxPurchases)]   \* history: recorded by a handler that failed to credit

StoreTypeOK ==
    /\ page \in Page /\ store \in Store /\ does \in Workloads
    /\ lost \in 0 .. MaxLost /\ DOMAIN net = Kinds
    /\ page.user = None <=> page.at = "signin"
    /\ page.sub = "here" => page.mounted

StoreInit ==
    /\ does \in Workloads /\ lost = 0 /\ net = NoCalls(Kinds)
    /\ page = [user |-> None, at |-> "signin", mounted |-> FALSE,
               loading |-> TRUE, pricing |-> FALSE, iapReady |-> FALSE, products |-> {},
               buying |-> None, valid |-> TRUE, browser |-> FALSE, balance |-> FALSE,
               initialized |-> FALSE, sub |-> None, leaked |-> FALSE,
               closing |-> FALSE, configured |-> None, outs |-> 0]
    /\ store = [connected |-> FALSE, purchase |-> None, event |-> FALSE, nth |-> 0,
                buyer |-> None, observed |-> None,
                receipts |-> {}, credited |-> {}, cut |-> {}]

Same == UNCHANGED <<store, lost, does>>
Stays(p) == page' = p /\ UNCHANGED net /\ Same
OnlyNet == UNCHANGED <<page, store, lost, does>>

-----------------------------------------------------------------------------
(* Signing in and out, and the screens                                      *)

SignIn(u) == page.at = "signin" /\ Stays([page EXCEPT !.user = u, !.at = "other"])

ToGone(c) == IF c = "here" THEN "gone" ELSE c

\* Every screen is gone, and the cleanup of the billing screen ends the bridge.  A
\* connection that is still being made is not ended.
SignOut ==
    /\ "switch" \in does /\ page.user # None /\ ~page.browser /\ page.outs < MaxSignOuts
    /\ page' = [page EXCEPT
           !.outs = @ + 1,
           !.user = None, !.at = "signin", !.mounted = FALSE, !.loading = TRUE,
           !.pricing = FALSE, !.iapReady = FALSE, !.products = {}, !.buying = None,
           !.valid = TRUE, !.balance = FALSE,
           !.closing = @ \/ (page.pricing /\ page.initialized),
           !.sub = IF page.pricing /\ page.initialized THEN None ELSE ToGone(@)]
    /\ net' = [k \in Kinds |->
                  IF k \in {"connect", "verify"} THEN {[c EXCEPT !.to.cb = ToGone(@)] : c \in net[k]}
                  ELSE IF k = "sheet" THEN net[k] ELSE {}]
    /\ Same

\* endConnection came back.
Closed ==
    /\ page.closing
    /\ page' = [page EXCEPT !.closing = FALSE, !.initialized = FALSE, !.sub = None]
    /\ store' = [store EXCEPT !.connected = FALSE]
    /\ UNCHANGED <<net, lost, does>>

GoBilling(p, n) ==
    /\ page' = [p EXCEPT !.at = "billing", !.mounted = TRUE]
    /\ net' = IF page.mounted THEN n ELSE Asking(n, "pricing", TRUE)
OpenBilling == page.user # None /\ page.at # "billing" /\ GoBilling(page, net) /\ Same
OpenWallet ==
    /\ "wallet" \in does /\ page.user # None /\ page.at # "wallet" /\ ~page.browser
    /\ page' = [page EXCEPT !.at = "wallet"]
    /\ Ask("wallet", TRUE) /\ Same
DeliverWallet ==
    \E c \in Came("wallet") :
        Take("wallet", c) /\ page' = [page EXCEPT !.balance = @ \/ Ok(c)] /\ Same

-----------------------------------------------------------------------------
(* The prices and the store                                                 *)

\* The observer is configured for the first user only.
Configured(p) == IF p.configured = None THEN p.user ELSE p.configured

\* With the prices the bridge is started, unless it is.
DeliverPricing ==
    \E c \in Came("pricing") :
        /\ LET p == [page EXCEPT !.loading = FALSE, !.pricing = Ok(c)]
               n == Without(net, "pricing", c)
           IN  IF ~Ok(c) \/ ~Native THEN page' = p /\ net' = n
               ELSE IF page.initialized
               THEN /\ page' = [p EXCEPT !.configured = Configured(p), !.iapReady = TRUE]
                    /\ net' = Asking(n, "products", TRUE)
               ELSE /\ page' = [p EXCEPT !.configured = Configured(p)]
                    /\ net' = Asking(n, "connect", [cb |-> "here", buy |-> FALSE])
        /\ Same

\* The listener is added to those there are.  What the store had not been told to
\* finish is reported again.
DeliverConnect ==
    \E c \in Came("connect") :
        LET n == Without(net, "connect", c)
        IN  /\ page' = IF ~Ok(c) THEN page
                       ELSE [page EXCEPT !.initialized = TRUE, !.sub = c.to.cb,
                                !.leaked = @ \/ page.sub # None,
                                !.iapReady = @ \/ c.to.cb = "here"]
            /\ store' = IF ~Ok(c) THEN store
                        ELSE [store EXCEPT !.connected = TRUE,
                                 !.event = @ \/ ("ios" \in does /\ store.purchase = "paid")]
            /\ net' = IF c.to.buy THEN Asking(n, "sheet", TRUE)
                      ELSE IF Ok(c) /\ c.to.cb = "here" THEN Asking(n, "products", TRUE)
                      ELSE n
            /\ UNCHANGED <<lost, does>>

DeliverProducts ==
    \E c \in Came("products") :
        /\ Take("products", c)
        /\ page' = [page EXCEPT !.products = IF Ok(c) THEN c.ans ELSE {}]
        /\ Same

-----------------------------------------------------------------------------
(* Buying                                                                   *)

PacksShown == page.at = "billing" /\ ~page.loading /\ page.pricing /\ ~page.browser

\* The store must be connected and know the pack; without a store there is the
\* hosted checkout, but not on iOS.
BuyPack(p) ==
    /\ PacksShown /\ page.buying # p
    /\ IF Native
       THEN IF ~page.iapReady \/ p \notin page.products
            THEN page' = [page EXCEPT !.buying = None] /\ UNCHANGED net
            ELSE /\ page' = [page EXCEPT !.buying = p]
                 /\ IF page.initialized THEN Ask("sheet", TRUE)
                    ELSE Ask("connect", [cb |-> "nobody", buy |-> TRUE])
       ELSE Ask("order", p) /\ page' = [page EXCEPT !.buying = p]
    /\ Same

TypeAmount == PacksShown /\ "payg" \in does /\ Stays([page EXCEPT !.valid = ~@])
PaygShown == PacksShown /\ "ios" \notin does
PayAsYouGo ==
    /\ PaygShown /\ "payg" \in does /\ page.valid /\ page.buying # "payg"
    /\ Ask("order", "payg")
    /\ page' = [page EXCEPT !.buying = "payg"]
    /\ Same

\* The store's sheet: the user pays, which is observed as the configured user's, or
\* does not.  One purchase at a time, until it is finished.
PaySheet ==
    \E c \in Asked("sheet") :
        /\ store.purchase # "paid" /\ store.nth < MaxPurchases /\ page.user # None
        /\ Take("sheet", c)
        /\ store' = [store EXCEPT !.purchase = "paid", !.event = TRUE, !.nth = @ + 1,
                                  !.buyer = page.user, !.observed = page.configured]
        /\ UNCHANGED <<page, lost, does>>
CancelSheet == \E c \in Asked("sheet") : Refuse("sheet", c) /\ OnlyNet
DeliverCancel ==
    \E c \in Came("sheet") :
        Take("sheet", c) /\ page' = [page EXCEPT !.buying = None] /\ Same

\* Mutant: the transaction is finished before the server said that it is good.
PurchaseEvent_Finishes ==
    /\ store.event /\ store.connected /\ page.sub # None
    /\ net' = Asking(net, "verify", [cb |-> page.sub, user |-> page.user, nth |-> store.nth])
    /\ store' = [store EXCEPT !.event = FALSE, !.purchase = "finished"]
    /\ UNCHANGED <<page, lost, does>>

\* Each listener has the server verify the purchase, for whoever is signed in.
PurchaseEvent ==
    /\ store.event /\ store.connected /\ (page.sub # None \/ page.leaked)
    /\ LET By(n, cb) == Asking(n, "verify", [cb |-> cb, user |-> page.user, nth |-> store.nth])
           n == IF page.sub # None THEN By(net, page.sub) ELSE net
       IN  net' = IF page.leaked THEN By(n, "gone") ELSE n
    /\ store' = [store EXCEPT !.event = FALSE]
    /\ UNCHANGED <<page, lost, does>>

\* A verified purchase is finished, if the store is still connected.
DeliverVerify ==
    \E c \in Came("verify") :
        /\ Take("verify", c)
        /\ LET good == Ok(c) /\ c.ans
           IN  /\ store' = IF good /\ store.connected /\ c.to.nth = store.nth
                           THEN [store EXCEPT !.purchase = "finished", !.event = FALSE]
                           ELSE store
               /\ page' = IF c.to.cb # "here" THEN page
                          ELSE [page EXCEPT !.buying = None, !.at = IF good THEN "wallet" ELSE @]
        /\ UNCHANGED <<lost, does>>

\* The in-app browser shows the hosted checkout.
DeliverOrder ==
    \E c \in Came("order") :
        /\ Take("order", c)
        /\ page' = IF Ok(c) THEN [page EXCEPT !.browser = TRUE] ELSE [page EXCEPT !.buying = None]
        /\ Same
\* Dismissed, the payment is looked up; otherwise nothing is.
CloseBrowser ==
    /\ page.browser
    /\ \/ Ask("link", TRUE) /\ page' = [page EXCEPT !.browser = FALSE]
       \/ UNCHANGED net /\ page' = [page EXCEPT !.browser = FALSE, !.buying = None]
    /\ Same
DeliverLink ==
    \E c \in Came("link") :
        /\ Take("link", c)
        /\ page' = [page EXCEPT !.buying = None, !.at = IF Ok(c) /\ c.ans THEN "wallet" ELSE @]
        /\ Same

-----------------------------------------------------------------------------
(* The server, and the network                                              *)

ServeReads ==
    \/ \E k \in {"pricing", "connect", "order", "wallet"} :
          \E c \in Asked(k) : Answer(k, c, TRUE) /\ OnlyNet
    \/ \E c \in Asked("products") : \E known \in {{}, ShopPacks} : Answer("products", c, known) /\ OnlyNet
    \/ \E c \in Asked("link") : \E paid \in BOOLEAN : Answer("link", c, paid) /\ OnlyNet

\* The handler of a verification goes from one database call to the next.
At(phase) == {c \in net["verify"] : c.phase = phase}
GoesOn(c, phase) ==
    net' = [net EXCEPT !["verify"] = (@ \ {c}) \cup {[to |-> c.to, phase |-> phase]}]

\* Nobody is asked twice for a purchase that is recorded, credited or not.  Without a
\* user, or without the store's word for the purchase, the answer is no.
FindReceipt ==
    /\ \E c \in Asked("verify") :
          \/ c.to.user # None /\ c.to.nth \in store.receipts /\ Answer("verify", c, TRUE)
          \/ c.to.user # None /\ c.to.nth \notin store.receipts /\ GoesOn(c, "absent")
          \/ Refuse("verify", c)
    /\ OnlyNet

InsertReceipt ==
    \E c \in At("absent") :
        /\ \/ /\ GoesOn(c, "recorded")
              /\ store' = [store EXCEPT !.receipts = @ \cup {c.to.nth}]
           \/ Refuse("verify", c) /\ UNCHANGED store
        /\ UNCHANGED <<page, lost, does>>

\* The wallet is credited after the purchase was recorded; the handler may fail, or be
\* stopped, before it or after it.
CreditPack ==
    \E c \in At("recorded") :
        /\ \/ /\ Answer("verify", c, TRUE) \/ Refuse("verify", c)
              /\ store' = [store EXCEPT !.credited = @ \cup {c.to.nth}]
           \/ /\ Refuse("verify", c)
              /\ store' = [store EXCEPT !.cut = @ \cup {c.to.nth}]
        /\ UNCHANGED <<page, lost, does>>

ServeVerify == FindReceipt \/ InsertReceipt \/ CreditPack

Lose ==
    /\ "lose" \in does /\ \E k \in Kinds \ {"sheet"} : \E c \in net[k] : Lost(k, c)
    /\ UNCHANGED <<page, store, does>>

StoreNext ==
    \/ \E u \in Users : SignIn(u)
    \/ SignOut \/ Closed \/ OpenBilling \/ OpenWallet \/ DeliverWallet
    \/ DeliverPricing \/ DeliverConnect \/ DeliverProducts
    \/ \E p \in ShopPacks : BuyPack(p)
    \/ TypeAmount \/ PayAsYouGo \/ PaySheet \/ CancelSheet \/ DeliverCancel
    \/ PurchaseEvent \/ DeliverVerify \/ DeliverOrder \/ CloseBrowser \/ DeliverLink
    \/ ServeReads \/ ServeVerify \/ Lose

StoreSpec == StoreInit /\ [][StoreNext]_storeVars

-----------------------------------------------------------------------------
(* Properties                                                               *)

\* iap.js finishes a purchase only when the server said yes: however users, listeners
\* and connections come and go, one that the store will not report again was recorded, and
\* credited but for a handler that is about to, or that failed in between.
FinishedIsAccounted ==
    store.purchase = "finished" =>
        /\ store.nth \in store.receipts
        /\ \/ store.nth \in store.credited \cup store.cut
           \/ \E c \in At("recorded") : c.to.nth = store.nth

\* services/payments_service.py: the app_user_id of an observed purchase is the user
\* who bought.  (Violated: the observer keeps the first user of the process.)
ObservedAsBuyer == store.purchase # None => store.observed = store.buyer
=============================================================================
