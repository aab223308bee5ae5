---------------------------- MODULE CreditWallet ----------------------------
(***************************************************************************)
(* The credit wallet of apps/api/services/credit_service.py and the charge *)
(* path of pricing_engine.py: one wallet document per user, a transaction  *)
(* row per movement, a usage row per paid call and the rolling usage       *)
(* window kept on the wallet.                                              *)
(*                                                                         *)
(* Every query is keyed by user_id, so documents of different users never  *)
(* meet: the module is one user's wallet.  A handler reads the wallet,     *)
(* computes new bucket values in memory and writes them back as absolute   *)
(* values ($set); other handlers of the same user run at each await.  An   *)
(* action is the code from one await to the next.  A read whose result     *)
(* nothing writes between (prices, plans) is part of the step before it.   *)
(***************************************************************************)
EXTENDS Integers, FiniteSets

CONSTANTS
    Requests,                \* handlers of this user that may be in flight
    WELCOME_CREDITS, DAILY_CREDITS,
    Costs,                   \* credit_cost of the services offered; 0 is free
    Purchases,               \* amounts a purchase or a plan may add
    Adjustments,             \* amounts an admin may enter, negative ones too
    AdjustedBuckets,         \* buckets an admin may choose
    DayHours,                \* hours of a UTC day
    WindowHours, WindowCredits,
    ENFORCE_USAGE_WINDOW,
    MaxTime                  \* bound: end of the clock

Buckets == {"welcome", "daily", "bonus", "referral", "promotional", "purchased"}

\* CreditTransaction.kind: any other kind makes the row's constructor raise.
TransactionKinds == {"signup_bonus", "daily_refill", "ai_usage", "purchase",
                     "refund", "admin_adjust", "referral", "promo"}
AddKinds == {"purchase", "admin_adjust", "plan_credit"}

ASSUME WalletAssumption ==
    /\ WELCOME_CREDITS \in Nat /\ DAILY_CREDITS \in Nat
    /\ Costs \subseteq Nat /\ Purchases \subseteq Nat /\ Adjustments \subseteq Int
    /\ AdjustedBuckets \subseteq Buckets
    /\ DayHours \in Nat \ {0} /\ WindowHours \in Nat /\ WindowCredits \in Nat
    /\ ENFORCE_USAGE_WINDOW \in BOOLEAN
    /\ MaxTime \in Nat

VARIABLES
    wallet,      \* the wallet document
    ledger,      \* credit_transactions: the sum of the rows' amounts
    last,        \* credit_transactions: balance_after of the newest row
    charged,     \* credit_transactions: credits of the ai_usage rows
    usage,       \* ai_usage: credits of its rows
    now,         \* the clock, in hours
    req,         \* what each handler is in the middle of
    torn,        \* history: a movement's read, write and row were not one unit
    added,       \* history: credits ever put in each bucket
    takenBack    \* history: credits admins took away with negative amounts

rowVars == <<ledger, last, charged, usage>>
historyVars == <<added, takenBack>>
walletVars == <<wallet, rowVars, now, req, torn, historyVars>>

Never == -1
NoCredits == [b \in Buckets |-> 0]

WalletDoc == [open: BOOLEAN, credits: [Buckets -> Int], refilled: Nat,
              start: Nat \cup {Never}, used: Nat]

PCs == {"idle", "raised", "wallet_read", "wallet_insert", "welcome_log", "refill",
        "daily_log", "window_read", "window_reset", "work", "deduct_write",
        "deduct_log", "window_inc", "usage", "add_write", "add_log"}

\* Who waits for get_or_create_wallet, and so what happens when it returns.
Callers == {"return", "adjust", "add", "gate", "window", "balance", "deduct"}

Request ==
    [pc: PCs, after: Callers, cost: Nat, amount: Int, bucket: Buckets,
     kind: AddKinds,
     precheck: BOOLEAN,           \* the guard is precheck()'s, not spend()'s
     held: [Buckets -> Int],      \* the Wallet object in memory
     at: Nat]                     \* the handler's local `now`

Idle == [pc |-> "idle", after |-> "return", cost |-> 0, amount |-> 0,
         bucket |-> "bonus", kind |-> "purchase", precheck |-> FALSE,
         held |-> NoCredits, at |-> 0]
Raised == [Idle EXCEPT !.pc = "raised"]

Day(t) == t \div DayHours

Total(c) == c["welcome"] + c["daily"] + c["bonus"] + c["referral"]
            + c["promotional"] + c["purchased"]

(***************************************************************************)
(* The greedy deduction, in closed form: DEDUCT_PRIORITY lists welcome,    *)
(* daily, bonus, referral, promotional, purchased; the loop empties the    *)
(* buckets in that order until the amount is covered and leaves a bucket   *)
(* that holds nothing, or a debt, alone.                                   *)
(***************************************************************************)
Positive(n) == IF n > 0 THEN n ELSE 0

Ahead(c) ==
    LET welcome == Positive(c["welcome"])
        daily == welcome + Positive(c["daily"])
        bonus == daily + Positive(c["bonus"])
        referral == bonus + Positive(c["referral"])
        promotional == referral + Positive(c["promotional"])
    IN  [b \in Buckets |-> CASE b = "welcome" -> 0
                             [] b = "daily" -> welcome
                             [] b = "bonus" -> daily
                             [] b = "referral" -> bonus
                             [] b = "promotional" -> referral
                             [] b = "purchased" -> promotional]

Take(c, amount, b) ==
    LET left == Positive(amount - Ahead(c)[b])
    IN  IF Positive(c[b]) < left THEN Positive(c[b]) ELSE left

Deducted(c, amount) == [b \in Buckets |-> c[b] - Take(c, amount, b)]

-----------------------------------------------------------------------------
(* Calls: what a client, or another part of the server, asks of the wallet *)

Call(p, q) ==
    /\ req[p] = Idle
    /\ req' = [req EXCEPT ![p] = q]
    /\ UNCHANGED <<wallet, rowVars, now, torn, historyVars>>

Fetch(q, after) == [q EXCEPT !.pc = "wallet_read", !.after = after]

GetWallet(p) == Call(p, Fetch(Idle, "return"))

AddCredits(p, amount, bucket, kind) ==
    Call(p, Fetch([Idle EXCEPT !.amount = amount, !.bucket = bucket, !.kind = kind], "add"))

AdjustWallet(p, amount, bucket) ==
    Call(p, Fetch([Idle EXCEPT !.amount = amount, !.bucket = bucket,
                               !.kind = "admin_adjust"], "adjust"))

\* Mutant: the cost carries the sign of its transaction row.
Priced_Signed(cost) == [Idle EXCEPT !.cost = -cost]

Priced(cost) == [Idle EXCEPT !.cost = cost]

\* Mutant: the call is recorded without being charged.
Spend_Uncharged(p, cost) == Call(p, [Priced(cost) EXCEPT !.pc = "usage"])

Spend(p, cost) ==
    Call(p, IF cost > 0 THEN Fetch(Priced(cost), "window")
            ELSE [Priced(cost) EXCEPT !.pc = "usage"])

\* precheck(), then the work, then spend(): practice, builder, career routes.
CheckedService(p, cost) ==
    /\ cost > 0
    /\ Call(p, Fetch([Priced(cost) EXCEPT !.precheck = TRUE], "window"))

\* has_credits(), then the answer, then spend(): the chat.
ChatMessage(p, cost) ==
    /\ cost > 0
    /\ Call(p, Fetch(Priced(cost), "gate"))

-----------------------------------------------------------------------------
(* get_or_create_wallet *)

\* What the caller of get_or_create_wallet does with q.held before it awaits.
Resumed(q) ==
    CASE q.after = "return" -> Idle
      [] q.after = "adjust" -> Fetch(q, "add")
      [] q.after = "add" -> [q EXCEPT !.pc = "add_write"]
      [] q.after = "window" -> [q EXCEPT !.pc = "window_read"]
      [] OTHER ->
           IF Total(q.held) < q.cost THEN Raised
           ELSE IF q.after = "deduct" THEN [q EXCEPT !.pc = "deduct_write"]
           ELSE IF q.after = "gate" \/ q.precheck THEN [q EXCEPT !.pc = "work"]
           ELSE Fetch(q, "deduct")

At(p, pc) == req[p].pc = pc
Become(p, q) == req' = [req EXCEPT ![p] = q]

ReadWallet(p) ==
    LET q == [req[p] EXCEPT !.held = wallet.credits, !.at = now] IN
    /\ At(p, "wallet_read")
    /\ \/ /\ wallet.open /\ Day(wallet.refilled) = Day(now)
          /\ Become(p, Resumed(q))
       \/ /\ wallet.open /\ Day(wallet.refilled) # Day(now)
          /\ Become(p, [q EXCEPT !.pc = "refill", !.held["daily"] = DAILY_CREDITS])
       \/ /\ ~wallet.open
          /\ Become(p, [q EXCEPT !.pc = "wallet_insert",
                                 !.held = [NoCredits EXCEPT !["welcome"] = WELCOME_CREDITS,
                                                            !["daily"] = DAILY_CREDITS]])
    /\ UNCHANGED <<wallet, rowVars, now, torn, historyVars>>

\* user_id is unique: the second of two concurrent inserts raises.
InsertWallet(p) ==
    /\ At(p, "wallet_insert")
    /\ IF wallet.open
       THEN Become(p, Raised) /\ UNCHANGED <<wallet, added>>
       ELSE /\ wallet' = [wallet EXCEPT !.open = TRUE, !.credits = req[p].held,
                                        !.refilled = req[p].at]
            /\ added' = [added EXCEPT !["welcome"] = WELCOME_CREDITS]
            /\ Become(p, [req[p] EXCEPT !.pc = "welcome_log"])
    /\ UNCHANGED <<rowVars, now, torn, takenBack>>

\* Mutant: the row shows the balance from before its movement.
LogRow_Before(p, amount) ==
    /\ ledger' = ledger + amount
    /\ last' = Total(req[p].held) - amount

\* _log_transaction: a row of `amount` with the total of the object in memory.
LogRow(p, amount) ==
    /\ ledger' = ledger + amount
    /\ last' = Total(req[p].held)

\* Mutant: the welcome credits are given without a row.
WelcomeLog_NoRow(p) ==
    /\ At(p, "welcome_log")
    /\ Become(p, [req[p] EXCEPT !.pc = "daily_log"])
    /\ UNCHANGED <<wallet, rowVars, now, torn, historyVars>>

WelcomeLog(p) ==
    /\ At(p, "welcome_log")
    /\ LogRow(p, WELCOME_CREDITS)
    /\ Become(p, [req[p] EXCEPT !.pc = "daily_log"])
    /\ UNCHANGED <<wallet, charged, usage, now, torn, historyVars>>

\* A movement is in progress from the wallet's read to its row.
Unlogged == {"welcome_log", "daily_log", "deduct_log", "add_log"}
Busy == {"refill", "deduct_write", "add_write"} \cup Unlogged
Overlaps(p) == \E q \in Requests \ {p} : req[q].pc \in Busy

\* Mutant: the refill adds to what is left of the day before.
Refill_Stacks(p) ==
    /\ At(p, "refill")
    /\ wallet' = [wallet EXCEPT !.credits["daily"] = @ + DAILY_CREDITS, !.refilled = req[p].at]
    /\ torn' = (torn \/ Overlaps(p))
    /\ Become(p, [req[p] EXCEPT !.pc = "daily_log"])
    /\ UNCHANGED <<rowVars, now, historyVars>>

Refill(p) ==
    /\ At(p, "refill")
    /\ wallet' = [wallet EXCEPT !.credits["daily"] = DAILY_CREDITS, !.refilled = req[p].at]
    /\ torn' = (torn \/ Overlaps(p))
    /\ Become(p, [req[p] EXCEPT !.pc = "daily_log"])
    /\ UNCHANGED <<rowVars, now, historyVars>>

DailyLog(p) ==
    /\ At(p, "daily_log")
    /\ LogRow(p, DAILY_CREDITS)
    /\ Become(p, Resumed(req[p]))
    /\ UNCHANGED <<wallet, charged, usage, now, torn, historyVars>>

-----------------------------------------------------------------------------
(* pricing_engine: the usage window, the guard and spend *)

Guarded(q, used) ==
    IF ENFORCE_USAGE_WINDOW /\ q.cost > Positive(WindowCredits - used) THEN Raised
    ELSE Fetch(q, "balance")

ReadWindow(p) ==
    /\ At(p, "window_read")
    /\ IF wallet.start = Never \/ now - wallet.start >= WindowHours
       THEN Become(p, [req[p] EXCEPT !.pc = "window_reset", !.at = now])
       ELSE Become(p, Guarded(req[p], wallet.used))
    /\ UNCHANGED <<wallet, rowVars, now, torn, historyVars>>

ResetWindow(p) ==
    /\ At(p, "window_reset")
    /\ wallet' = [wallet EXCEPT !.start = req[p].at, !.used = 0]
    /\ Become(p, Guarded(req[p], 0))
    /\ UNCHANGED <<rowVars, now, torn, historyVars>>

\* The expensive call between the gate and the charge: it answers, or it fails.
Work(p) ==
    /\ At(p, "work")
    /\ \/ Become(p, Fetch([req[p] EXCEPT !.precheck = FALSE], "window"))
       \/ Become(p, Raised)
    /\ UNCHANGED <<wallet, rowVars, now, torn, historyVars>>

\* Mutant: what was taken is subtracted ($inc) instead of the result being set.
DeductWrite_Increment(p) ==
    LET q == req[p] IN
    /\ At(p, "deduct_write")
    /\ wallet' = [wallet EXCEPT !.credits = [b \in Buckets |-> @[b] - Take(q.held, q.cost, b)]]
    /\ torn' = (torn \/ Overlaps(p))
    /\ Become(p, [q EXCEPT !.pc = "deduct_log", !.held = Deducted(q.held, q.cost)])
    /\ UNCHANGED <<rowVars, now, historyVars>>

\* Only the buckets something was taken from are in the $set.
DeductWrite(p) ==
    LET q == req[p]
        new == Deducted(q.held, q.cost) IN
    /\ At(p, "deduct_write")
    /\ wallet' = [wallet EXCEPT !.credits =
                    [b \in Buckets |-> IF new[b] # q.held[b] THEN new[b] ELSE @[b]]]
    /\ torn' = (torn \/ Overlaps(p))
    /\ Become(p, [q EXCEPT !.pc = "deduct_log", !.held = new])
    /\ UNCHANGED <<rowVars, now, historyVars>>

DeductLog(p) ==
    /\ At(p, "deduct_log")
    /\ LogRow(p, -req[p].cost)
    /\ charged' = charged + req[p].cost
    /\ Become(p, [req[p] EXCEPT !.pc = "window_inc"])
    /\ UNCHANGED <<wallet, usage, now, torn, historyVars>>

AdvanceWindow(p) ==
    /\ At(p, "window_inc")
    /\ wallet' = [wallet EXCEPT !.used = @ + req[p].cost]
    /\ Become(p, [req[p] EXCEPT !.pc = "usage"])
    /\ UNCHANGED <<rowVars, now, torn, historyVars>>

RecordUsage(p) ==
    /\ At(p, "usage")
    /\ usage' = usage + req[p].cost
    /\ Become(p, Idle)
    /\ UNCHANGED <<wallet, ledger, last, charged, now, torn, historyVars>>

-----------------------------------------------------------------------------
(* add_credits *)

AddWrite(p) ==
    LET q == req[p]
        new == q.held[q.bucket] + q.amount IN
    /\ At(p, "add_write")
    /\ wallet' = [wallet EXCEPT !.credits[q.bucket] = new]
    /\ added' = [added EXCEPT ![q.bucket] = @ + Positive(q.amount)]
    /\ takenBack' = takenBack + Positive(-q.amount)
    /\ torn' = (torn \/ Overlaps(p))
    /\ Become(p, [q EXCEPT !.pc = "add_log", !.held[q.bucket] = new])
    /\ UNCHANGED <<rowVars, now>>

\* The row of an unknown kind is not built: the wallet has been written already.
AddLog(p) ==
    /\ At(p, "add_log")
    /\ IF req[p].kind \in TransactionKinds
       THEN LogRow(p, req[p].amount) /\ Become(p, Idle) /\ UNCHANGED torn
       ELSE UNCHANGED <<ledger, last>> /\ Become(p, Raised) /\ torn' = TRUE
    /\ UNCHANGED <<wallet, charged, usage, now, historyVars>>

-----------------------------------------------------------------------------

\* The exception leaves the handler: an error response, nothing else changes.
Unwind(p) ==
    /\ At(p, "raised")
    /\ Become(p, Idle)
    /\ UNCHANGED <<wallet, rowVars, now, torn, historyVars>>

WalletStep(p) ==
    \/ ReadWallet(p) \/ InsertWallet(p) \/ WelcomeLog(p) \/ Refill(p) \/ DailyLog(p)
    \/ ReadWindow(p) \/ ResetWindow(p) \/ Work(p)
    \/ DeductWrite(p) \/ DeductLog(p) \/ AdvanceWindow(p) \/ RecordUsage(p)
    \/ AddWrite(p) \/ AddLog(p)

WalletCall(p) ==
    \/ GetWallet(p)
    \/ \E amount \in Adjustments, bucket \in AdjustedBuckets : AdjustWallet(p, amount, bucket)
    \/ \E cost \in Costs : Spend(p, cost) \/ CheckedService(p, cost) \/ ChatMessage(p, cost)

Tick ==
    /\ now < MaxTime
    /\ now' = now + 1
    /\ UNCHANGED <<wallet, rowVars, req, torn, historyVars>>

\* The server process stops and starts again: what handlers held is gone.
Restart ==
    /\ req' = [p \in Requests |-> Idle]
    /\ torn' = (torn \/ \E p \in Requests : req[p].pc \in Unlogged)
    /\ UNCHANGED <<wallet, rowVars, now, historyVars>>

WalletInit ==
    /\ wallet = [open |-> FALSE, credits |-> NoCredits, refilled |-> 0,
                 start |-> Never, used |-> 0]
    /\ ledger = 0 /\ last = 0 /\ charged = 0 /\ usage = 0
    /\ now = 0
    /\ req = [p \in Requests |-> Idle]
    /\ torn = FALSE /\ added = NoCredits /\ takenBack = 0

WalletNext ==
    \/ \E p \in Requests :
          \/ WalletCall(p)
          \/ \E amount \in Purchases, bucket \in Buckets, kind \in AddKinds :
                AddCredits(p, amount, bucket, kind)
          \/ WalletStep(p)
          \/ Unwind(p)
    \/ Tick
    \/ Restart

WalletSpec == WalletInit /\ [][WalletNext]_walletVars

-----------------------------------------------------------------------------
(* Properties *)

WalletTypeOK ==
    /\ wallet \in WalletDoc
    /\ ledger \in Int /\ last \in Int /\ charged \in Nat /\ usage \in Nat
    /\ now \in Nat
    /\ req \in [Requests -> Request]
    /\ torn \in BOOLEAN /\ added \in [Buckets -> Nat] /\ takenBack \in Nat

Quiet == \A p \in Requests : req[p].pc \notin Unlogged

\* However many handlers write stale bucket values over each other, a charge
\* never leaves a bucket below zero: only credits an admin took back can.
NoOverdraft == \A b \in Buckets : wallet.credits[b] + takenBack >= 0

\* And although a stale write can give back credits that were spent, a bucket
\* never holds more than was ever put in it (the daily one is refilled, never
\* stacked: add to it what one refill gives).
NeverMoreThanAdded ==
    \A b \in Buckets :
       wallet.credits[b] <= added[b] + (IF b = "daily" THEN DAILY_CREDITS ELSE 0)

\* The balance the newest transaction row shows is the wallet's balance, as
\* soon as every movement has its row, unless two movements overlapped, the
\* server stopped between a write and its row, or the row could not be built.
LastRowIsTheBalance ==
    wallet.open /\ ~torn /\ Quiet => last = Total(wallet.credits)

\* Under the same reservation, the wallet never holds credits that the rows do
\* not account for (it may hold less: a refill row books the whole daily amount
\* although the refill only tops the bucket up).
RowsCoverTheWallet ==
    ~torn /\ Quiet => Total(wallet.credits) <= ledger + takenBack

\* What the usage table and the window report as consumed was charged first,
\* whatever requests were interrupted on the way.
UsageWasCharged == usage <= charged /\ wallet.used <= charged
=============================================================================
