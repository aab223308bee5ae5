---------------------- MODULE PaymentFulfilmentProofs ----------------------
(***************************************************************************)
(* Proofs about CreditWallet and PaymentFulfilment, for every value of     *)
(* their constants: first what the wallet keeps whoever moves it; then     *)
(* that payments move it only as CreditWallet says, so that what is proved *)
(* there holds here, and that what is marked as given was given.           *)
(***************************************************************************)
EXTENDS PaymentFulfilment, FiniteSetTheorems, TLAPS

-----------------------------------------------------------------------------
(* The helpers *)

Amounts == [Buckets -> Int]

LEMMA BucketNames ==
    /\ "welcome" \in Buckets /\ "daily" \in Buckets /\ "bonus" \in Buckets
    /\ "referral" \in Buckets /\ "promotional" \in Buckets /\ "purchased" \in Buckets
BY DEF Buckets

LEMMA TotalType == ASSUME NEW c \in Amounts PROVE Total(c) \in Int
BY BucketNames DEF Total, Amounts

LEMMA PositiveType == \A n \in Int : /\ Positive(n) \in Nat /\ n <= Positive(n)
                                     /\ Positive(n) = 0 \/ Positive(n) = n
BY DEF Positive

\* What the deduction takes from a bucket is there: a bucket that holds nothing,
\* or a debt, is left alone, and another keeps at least zero.
LEMMA DeductedBounds ==
    ASSUME NEW c \in Amounts, NEW amount \in Nat
    PROVE  /\ Deducted(c, amount) \in Amounts
           /\ \A b \in Buckets : /\ Deducted(c, amount)[b] <= c[b]
                                 /\ Deducted(c, amount)[b] >= 0 \/ Deducted(c, amount)[b] = c[b]
<1>1. ASSUME NEW b \in Buckets
      PROVE  Ahead(c)[b] \in Nat
  <2>1. /\ Positive(c["welcome"]) \in Nat /\ Positive(c["daily"]) \in Nat
        /\ Positive(c["bonus"]) \in Nat /\ Positive(c["referral"]) \in Nat
        /\ Positive(c["promotional"]) \in Nat
    BY BucketNames, PositiveType DEF Amounts
  <2> QED  BY <2>1 DEF Ahead, Buckets
<1>2. ASSUME NEW b \in Buckets
      PROVE  /\ Take(c, amount, b) \in Nat
             /\ Take(c, amount, b) = 0 \/ Take(c, amount, b) <= c[b]
  <2>1. c[b] \in Int
    BY DEF Amounts
  <2>2. Positive(amount - Ahead(c)[b]) \in Nat
    BY <1>1, PositiveType
  <2>3. Positive(c[b]) \in Nat /\ (Positive(c[b]) = 0 \/ Positive(c[b]) = c[b])
    BY <2>1, PositiveType
  <2> QED  BY <2>1, <2>2, <2>3 DEF Take
<1>3. ASSUME NEW b \in Buckets
      PROVE  /\ Deducted(c, amount)[b] = c[b] - Take(c, amount, b)
             /\ c[b] \in Int
  BY DEF Deducted, Amounts
<1> QED  BY <1>2, <1>3 DEF Deducted, Amounts

-----------------------------------------------------------------------------
(* The types of handlers *)

\* The handler at pc, with all it holds in memory.
LEMMA AtType ==
    ASSUME NEW q \in Request, NEW pc \in PCs
    PROVE  LET r == [q EXCEPT !.pc = pc]
           IN  /\ r \in Request /\ r.pc = pc
               /\ r.after = q.after /\ r.cost = q.cost /\ r.amount = q.amount
               /\ r.bucket = q.bucket /\ r.kind = q.kind /\ r.held = q.held
BY DEF Request

LEMMA RequestFields ==
    ASSUME NEW q \in Request
    PROVE  /\ q.pc \in PCs /\ q.after \in Callers /\ q.cost \in Nat /\ q.amount \in Int
           /\ q.bucket \in Buckets /\ q.kind \in AddKinds /\ q.precheck \in BOOLEAN
           /\ q.held \in Amounts /\ q.at \in Nat
BY DEF Request, Amounts

LEMMA PCNames ==
    /\ "idle" \in PCs /\ "raised" \in PCs /\ "wallet_read" \in PCs
    /\ "wallet_insert" \in PCs /\ "welcome_log" \in PCs /\ "refill" \in PCs
    /\ "daily_log" \in PCs /\ "window_read" \in PCs /\ "window_reset" \in PCs
    /\ "work" \in PCs /\ "deduct_write" \in PCs /\ "deduct_log" \in PCs
    /\ "window_inc" \in PCs /\ "usage" \in PCs /\ "add_write" \in PCs /\ "add_log" \in PCs
BY DEF PCs

LEMMA IdleType ==
    /\ Idle \in Request /\ Idle.pc = "idle" /\ Idle.held = NoCredits
    /\ Raised \in Request /\ Raised.pc = "raised" /\ Raised.held = NoCredits
<1>1. NoCredits \in Amounts /\ "return" \in Callers /\ "purchase" \in AddKinds
  BY DEF NoCredits, Amounts, Callers, AddKinds
<1>2. Idle \in Request /\ Idle.pc = "idle" /\ Idle.held = NoCredits
  BY <1>1, PCNames, BucketNames DEF Idle, Request, Amounts
<1> QED  BY <1>2, AtType, PCNames DEF Raised

LEMMA FetchType ==
    ASSUME NEW q \in Request, NEW after \in Callers
    PROVE  /\ Fetch(q, after) \in Request
           /\ Fetch(q, after).pc = "wallet_read" /\ Fetch(q, after).held = q.held
BY PCNames DEF Fetch, Request

\* Where a handler goes when get_or_create_wallet has returned.
ResumePCs == {"idle", "raised", "wallet_read", "add_write", "window_read",
              "deduct_write", "work"}

LEMMA ResumedType ==
    ASSUME NEW q \in Request
    PROVE  /\ Resumed(q) \in Request
           /\ Resumed(q).pc \in ResumePCs
           /\ Resumed(q).held \in {NoCredits, q.held}
           /\ Resumed(q).pc \in {"add_write", "deduct_write"} => Resumed(q).held = q.held
<1>1. "add" \in Callers /\ "deduct" \in Callers
  BY DEF Callers
<1>2. Resumed(q) \in {Idle, Raised, Fetch(q, "add"), Fetch(q, "deduct"),
                      [q EXCEPT !.pc = "add_write"], [q EXCEPT !.pc = "window_read"],
                      [q EXCEPT !.pc = "deduct_write"], [q EXCEPT !.pc = "work"]}
  BY DEF Resumed
<1> DEFINE Fine(r) == /\ r \in Request /\ r.pc \in ResumePCs /\ r.held \in {NoCredits, q.held}
                      /\ r.pc \in {"add_write", "deduct_write"} => r.held = q.held
<1>3. Fine(Idle) /\ Fine(Raised)
  BY IdleType DEF ResumePCs
<1>4. Fine(Fetch(q, "add")) /\ Fine(Fetch(q, "deduct"))
  BY <1>1, FetchType DEF ResumePCs
<1>5. ASSUME NEW pc \in {"add_write", "window_read", "deduct_write", "work"}
      PROVE  Fine([q EXCEPT !.pc = pc])
  <2>1. pc \in PCs /\ pc \in ResumePCs
    BY DEF PCs, ResumePCs
  <2> QED  BY <2>1, AtType
<1> HIDE DEF Fine
<1>6. Fine(Resumed(q))
  BY <1>2, <1>3, <1>4, <1>5
<1> QED  BY <1>6 DEF Fine

LEMMA GuardedType ==
    ASSUME NEW q \in Request, NEW used
    PROVE  /\ Guarded(q, used) \in Request
           /\ Guarded(q, used).pc \in {"raised", "wallet_read"}
           /\ Guarded(q, used).held \in {NoCredits, q.held}
<1>1. "balance" \in Callers
  BY DEF Callers
<1>2. Guarded(q, used) \in {Raised, Fetch(q, "balance")}
  BY DEF Guarded
<1> QED  BY <1>1, <1>2, IdleType, FetchType

\* One handler moves on, the others stay where they are.
LEMMA BecomeType ==
    ASSUME req \in [Requests -> Request], NEW p \in Requests, NEW q \in Request,
           Become(p, q)
    PROVE  /\ req' \in [Requests -> Request]
           /\ req'[p] = q
           /\ \A r \in Requests \ {p} : req'[r] = req[r]
BY DEF Become

LEMMA WalletFields ==
    ASSUME wallet \in WalletDoc
    PROVE  /\ wallet.open \in BOOLEAN /\ wallet.credits \in Amounts
           /\ wallet.refilled \in Nat /\ wallet.start \in Nat \cup {Never}
           /\ wallet.used \in Nat
BY DEF WalletDoc, Amounts

-----------------------------------------------------------------------------
(* Calls of the wallet, by a client or by another part of the server *)

\* What a call does to one handler: it was idle, and now waits for the wallet
\* or, when the service is free, records the usage of nothing.
Asks(p) ==
    \/ WalletCall(p)
    \/ \E amount \in Purchases, bucket \in Buckets, kind \in AddKinds :
          AddCredits(p, amount, bucket, kind)

LEMMA CallType ==
    ASSUME WalletTypeOK, NEW p \in Requests, Asks(p)
    PROVE  \E q \in Request : /\ q.pc \in {"wallet_read", "usage"}
                              /\ q.pc = "usage" => q.cost = 0
                              /\ q.held = NoCredits
                              /\ Call(p, q)
<1> DEFINE Fine(q) == /\ q \in Request /\ q.pc \in {"wallet_read", "usage"}
                      /\ q.pc = "usage" => q.cost = 0
                      /\ q.held = NoCredits
<1>0. /\ "return" \in Callers /\ "adjust" \in Callers /\ "add" \in Callers
      /\ "gate" \in Callers /\ "window" \in Callers /\ "admin_adjust" \in AddKinds
  BY DEF Callers, AddKinds
<1>1. ASSUME NEW cost \in Nat
      PROVE  /\ Priced(cost) \in Request /\ Priced(cost).held = NoCredits
             /\ Priced(cost).cost = cost
             /\ [Priced(cost) EXCEPT !.precheck = TRUE] \in Request
             /\ [Priced(cost) EXCEPT !.precheck = TRUE].held = NoCredits
  BY IdleType DEF Priced, Request
<1>2. CASE GetWallet(p)
  BY <1>0, <1>2, IdleType, FetchType DEF GetWallet
<1>3. CASE \E amount \in Adjustments, bucket \in AdjustedBuckets : AdjustWallet(p, amount, bucket)
  <2> PICK amount \in Adjustments, bucket \in AdjustedBuckets : AdjustWallet(p, amount, bucket)
    BY <1>3
  <2> DEFINE q == [Idle EXCEPT !.amount = amount, !.bucket = bucket, !.kind = "admin_adjust"]
  <2>1. q \in Request /\ q.held = NoCredits
    <3>1. amount \in Int /\ bucket \in Buckets
      BY WalletAssumption
    <3> QED  BY <1>0, <3>1, IdleType DEF Request
  <2> HIDE DEF q
  <2>2. Fine(Fetch(q, "adjust"))
    BY <1>0, <2>1, FetchType
  <2>3. Call(p, Fetch(q, "adjust"))
    BY DEF AdjustWallet, q
  <2> QED  BY <2>2, <2>3
<1>4. CASE \E amount \in Purchases, bucket \in Buckets, kind \in AddKinds :
              AddCredits(p, amount, bucket, kind)
  <2> PICK amount \in Purchases, bucket \in Buckets, kind \in AddKinds :
             AddCredits(p, amount, bucket, kind)
    BY <1>4
  <2> DEFINE q == [Idle EXCEPT !.amount = amount, !.bucket = bucket, !.kind = kind]
  <2>1. q \in Request /\ q.held = NoCredits
    <3>1. amount \in Int
      BY WalletAssumption
    <3> QED  BY <3>1, IdleType DEF Request
  <2> HIDE DEF q
  <2>2. Fine(Fetch(q, "add"))
    BY <1>0, <2>1, FetchType
  <2>3. Call(p, Fetch(q, "add"))
    BY DEF AddCredits, q
  <2> QED  BY <2>2, <2>3
<1>5. ASSUME NEW cost \in Costs, Spend(p, cost) \/ CheckedService(p, cost) \/ ChatMessage(p, cost)
      PROVE  \E q : Fine(q) /\ Call(p, q)
  <2>0. cost \in Nat
    BY WalletAssumption
  <2>1. Fine(Fetch(Priced(cost), "window")) /\ Fine(Fetch(Priced(cost), "gate"))
    BY ZenonT(30), <1>0, <1>1, <2>0, FetchType
  <2>2. ASSUME cost = 0
        PROVE  Fine([Priced(cost) EXCEPT !.pc = "usage"])
    <3>1. "usage" \in PCs
      BY PCNames
    <3> DEFINE q == Priced(cost)
    <3>2. q \in Request /\ q.held = NoCredits /\ q.cost = 0
      BY <1>1, <2>0, <2>2
    <3> HIDE DEF q
    <3>3. Fine([q EXCEPT !.pc = "usage"])
      BY <3>1, <3>2, AtType
    <3> QED  BY <3>3 DEF q
  <2>3. Fine(Fetch([Priced(cost) EXCEPT !.precheck = TRUE], "window"))
    BY <1>0, <1>1, <2>0, FetchType
  <2>4. CASE Spend(p, cost)
    <3>1. CASE cost > 0
      BY <2>1, <2>4, <3>1 DEF Spend
    <3>2. CASE cost = 0
      <4>1. Call(p, [Priced(cost) EXCEPT !.pc = "usage"])
        BY <2>4, <3>2 DEF Spend
      <4> HIDE DEF Fine
      <4> QED  BY <2>2, <3>2, <4>1
    <3> QED  BY <2>0, <3>1, <3>2
  <2>5. CASE CheckedService(p, cost)
    BY <2>3, <2>5 DEF CheckedService
  <2>6. CASE ChatMessage(p, cost)
    BY <2>1, <2>6 DEF ChatMessage
  <2> QED  BY <1>5, <2>4, <2>5, <2>6
<1> QED  BY <1>2, <1>3, <1>4, <1>5 DEF Asks, WalletCall

-----------------------------------------------------------------------------
(* Type correctness *)

LEMMA InitType == WalletInit => WalletTypeOK
<1>1. NoCredits \in [Buckets -> Nat] /\ NoCredits \in [Buckets -> Int]
  BY DEF NoCredits
<1>2. WalletInit => wallet \in WalletDoc
  BY <1>1 DEF WalletInit, WalletDoc, Never
<1>3. WalletInit => req \in [Requests -> Request]
  BY IdleType DEF WalletInit
<1>4. WalletInit => torn \in BOOLEAN /\ added \in [Buckets -> Nat]
  BY <1>1 DEF WalletInit
<1>5. WalletInit => /\ ledger \in Int /\ last \in Int /\ charged \in Nat /\ usage \in Nat
                    /\ now \in Nat /\ takenBack \in Nat
  BY DEF WalletInit
<1> QED  BY <1>2, <1>3, <1>4, <1>5 DEF WalletTypeOK

\* An action that leaves the wallet, its rows and its history alone and moves
\* one handler keeps the types.
LEMMA MoveType ==
    ASSUME WalletTypeOK, NEW p \in Requests, NEW q \in Request, Become(p, q),
           UNCHANGED <<wallet, rowVars, now, torn, historyVars>>
    PROVE  WalletTypeOK'
<1>1. req' \in [Requests -> Request]
  BY BecomeType DEF WalletTypeOK
<1> QED  BY <1>1 DEF WalletTypeOK, rowVars, historyVars

\* What an action leaves of the type invariant when it writes the wallet too.
LEMMA WriteType ==
    ASSUME WalletTypeOK, NEW p \in Requests, NEW q \in Request, Become(p, q),
           wallet' \in WalletDoc, UNCHANGED <<rowVars, now>>,
           torn' \in BOOLEAN, added' \in [Buckets -> Nat], takenBack' \in Nat
    PROVE  WalletTypeOK'
<1>1. req' \in [Requests -> Request]
  BY BecomeType DEF WalletTypeOK
<1> QED  BY <1>1 DEF WalletTypeOK, rowVars

\* And when it adds a row.
LEMMA RowType ==
    ASSUME WalletTypeOK, NEW p \in Requests, NEW q \in Request, Become(p, q),
           ledger' \in Int, last' \in Int, charged' \in Nat, usage' \in Nat,
           torn' \in BOOLEAN, UNCHANGED <<wallet, now, historyVars>>
    PROVE  WalletTypeOK'
<1>1. req' \in [Requests -> Request]
  BY BecomeType DEF WalletTypeOK
<1> QED  BY <1>1 DEF WalletTypeOK, historyVars

LEMMA CreditsType ==
    ASSUME wallet \in WalletDoc, NEW c \in Amounts
    PROVE  [wallet EXCEPT !.credits = c] \in WalletDoc
BY DEF WalletDoc, Amounts

LEMMA HeldType ==
    ASSUME NEW q \in Request, NEW c \in Amounts, NEW pc \in PCs
    PROVE  LET r == [q EXCEPT !.pc = pc, !.held = c]
           IN  /\ r \in Request /\ r.pc = pc /\ r.held = c
               /\ r.cost = q.cost /\ r.amount = q.amount /\ r.kind = q.kind
BY DEF Request, Amounts

LEMMA ReadWalletType ==
    ASSUME WalletTypeOK, NEW p \in Requests, ReadWallet(p)
    PROVE  WalletTypeOK'
<1> DEFINE q == [req[p] EXCEPT !.held = wallet.credits, !.at = now]
<1>1. q \in Request
  BY WalletFields DEF WalletTypeOK, Request, Amounts
<1>2. CASE Become(p, Resumed(q))
  <2>1. Resumed(q) \in Request
    BY <1>1, ResumedType
  <2> QED  BY <1>2, <2>1, MoveType DEF ReadWallet
<1>3. CASE Become(p, [q EXCEPT !.pc = "refill", !.held["daily"] = DAILY_CREDITS])
  <2>1. [q EXCEPT !.pc = "refill", !.held["daily"] = DAILY_CREDITS] \in Request
    <3> HIDE DEF q
    <3>1. "refill" \in PCs /\ DAILY_CREDITS \in Int /\ "daily" \in Buckets
      BY WalletAssumption, PCNames, BucketNames
    <3> QED  BY <1>1, <3>1 DEF Request
  <2> QED  BY <1>3, <2>1, MoveType DEF ReadWallet
<1>4. CASE Become(p, [q EXCEPT !.pc = "wallet_insert",
                               !.held = [NoCredits EXCEPT !["welcome"] = WELCOME_CREDITS,
                                                          !["daily"] = DAILY_CREDITS]])
  <2> DEFINE c == [NoCredits EXCEPT !["welcome"] = WELCOME_CREDITS, !["daily"] = DAILY_CREDITS]
  <2>1. c \in Amounts /\ "wallet_insert" \in PCs
    <3>1. WELCOME_CREDITS \in Int /\ DAILY_CREDITS \in Int
      BY WalletAssumption
    <3>2. NoCredits \in Amounts
      BY DEF NoCredits, Amounts
    <3> QED  BY <3>1, <3>2, PCNames DEF Amounts
  <2>2. [q EXCEPT !.pc = "wallet_insert", !.held = c] \in Request
    BY <1>1, <2>1, HeldType
  <2> QED  BY <1>4, <2>2, MoveType DEF ReadWallet
<1> QED  BY <1>2, <1>3, <1>4 DEF ReadWallet

LEMMA StepType ==
    ASSUME WalletTypeOK, NEW p \in Requests, WalletStep(p)
    PROVE  WalletTypeOK'
<1>0. /\ req[p] \in Request /\ wallet \in WalletDoc /\ now \in Nat
      /\ torn \in BOOLEAN /\ added \in [Buckets -> Nat] /\ takenBack \in Nat
      /\ ledger \in Int /\ last \in Int /\ charged \in Nat /\ usage \in Nat
  BY DEF WalletTypeOK
<1>00. /\ WELCOME_CREDITS \in Nat /\ DAILY_CREDITS \in Nat
  BY WalletAssumption
<1>1. CASE ReadWallet(p)
  BY <1>1, ReadWalletType
<1>2. CASE InsertWallet(p)
  <2>1. CASE wallet.open
    BY <1>2, <2>1, <1>0, MoveType, IdleType DEF InsertWallet, historyVars
  <2>2. CASE ~wallet.open
    <3>1. wallet' \in WalletDoc
      <4>1. wallet' = [wallet EXCEPT !.open = TRUE, !.credits = req[p].held,
                                     !.refilled = req[p].at]
        BY <1>2, <2>2 DEF InsertWallet
      <4>2. req[p].held \in Amounts /\ req[p].at \in Nat
        BY <1>0, RequestFields
      <4> QED  BY <1>0, <4>1, <4>2 DEF WalletDoc, Amounts
    <3>2. [req[p] EXCEPT !.pc = "welcome_log"] \in Request
      BY <1>0, AtType, PCNames
    <3>3. added' \in [Buckets -> Nat]
      BY <1>2, <2>2, <1>0, <1>00 DEF InsertWallet
    <3> QED  BY <1>2, <2>2, <1>0, <3>1, <3>2, <3>3, WriteType DEF InsertWallet
  <2> QED  BY <2>1, <2>2
<1>3. CASE WelcomeLog(p)
  <2>1. [req[p] EXCEPT !.pc = "daily_log"] \in Request
    BY <1>0, AtType, PCNames
  <2>2. ledger' \in Int /\ last' \in Int
    BY <1>3, <1>0, <1>00, RequestFields, TotalType DEF WelcomeLog, LogRow
  <2> QED  BY <1>3, <1>0, <2>1, <2>2, RowType DEF WelcomeLog
<1>4. CASE Refill(p)
  <2>1. [req[p] EXCEPT !.pc = "daily_log"] \in Request
    BY <1>0, AtType, PCNames
  <2>2. wallet' \in WalletDoc
    <3> DEFINE c == [wallet.credits EXCEPT !["daily"] = DAILY_CREDITS]
    <3>1. wallet' = [wallet EXCEPT !.credits = c, !.refilled = req[p].at]
      BY <1>4, <1>0 DEF Refill, WalletDoc
    <3>2. req[p].at \in Nat /\ c \in Amounts
      <4>1. wallet.credits \in Amounts /\ req[p].at \in Nat /\ DAILY_CREDITS \in Int
        BY <1>0, <1>00, RequestFields, WalletFields
      <4> QED  BY <4>1 DEF Amounts
    <3> HIDE DEF c
    <3> QED  BY <1>0, <3>1, <3>2 DEF WalletDoc, Amounts
  <2>3. torn' \in BOOLEAN
    BY <1>4 DEF Refill
  <2> QED  BY <1>4, <1>0, <2>1, <2>2, <2>3, WriteType DEF Refill, historyVars
<1>5. CASE DailyLog(p)
  <2>1. Resumed(req[p]) \in Request
    BY <1>0, ResumedType
  <2>2. ledger' \in Int /\ last' \in Int
    BY <1>5, <1>0, <1>00, RequestFields, TotalType DEF DailyLog, LogRow
  <2> QED  BY <1>5, <1>0, <2>1, <2>2, RowType DEF DailyLog
<1>6. CASE ReadWindow(p)
  <2>1. [req[p] EXCEPT !.pc = "window_reset", !.at = now] \in Request
    BY <1>0, PCNames DEF Request
  <2>2. Guarded(req[p], wallet.used) \in Request
    BY <1>0, GuardedType
  <2> QED  BY <1>6, <2>1, <2>2, MoveType DEF ReadWindow
<1>7. CASE ResetWindow(p)
  <2>1. Guarded(req[p], 0) \in Request
    BY <1>0, GuardedType
  <2>2. wallet' \in WalletDoc
    <3>1. wallet' = [wallet EXCEPT !.start = req[p].at, !.used = 0] /\ req[p].at \in Nat
      BY <1>7, <1>0, RequestFields DEF ResetWindow
    <3> QED  BY <1>0, <3>1 DEF WalletDoc
  <2> QED  BY <1>7, <1>0, <2>1, <2>2, WriteType DEF ResetWindow, historyVars
<1>8. CASE Work(p)
  <2>1. [req[p] EXCEPT !.precheck = FALSE] \in Request /\ "window" \in Callers
    BY <1>0 DEF Request, Callers
  <2>2. Fetch([req[p] EXCEPT !.precheck = FALSE], "window") \in Request
    BY <2>1, FetchType
  <2> QED  BY <1>8, <2>2, IdleType, MoveType DEF Work
<1>9. CASE DeductWrite(p)
  <2> DEFINE q == req[p]
             new == Deducted(q.held, q.cost)
             c == [b \in Buckets |-> IF new[b] # q.held[b] THEN new[b] ELSE wallet.credits[b]]
  <2>1. new \in Amounts
    BY <1>0, RequestFields, DeductedBounds
  <2>2. c \in Amounts
    <3> HIDE DEF new
    <3> QED  BY <2>1, <1>0, WalletFields DEF Amounts
  <2>3. wallet' = [wallet EXCEPT !.credits = c]
    BY <1>9 DEF DeductWrite
  <2>4. wallet' \in WalletDoc
    <3> HIDE DEF c
    <3> QED  BY <2>2, <2>3, <1>0, CreditsType
  <2>5. [q EXCEPT !.pc = "deduct_log", !.held = new] \in Request
    <3> HIDE DEF new
    <3> QED  BY <2>1, <1>0, HeldType, PCNames
  <2>6. torn' \in BOOLEAN
    BY <1>9 DEF DeductWrite
  <2> QED  BY <1>9, <1>0, <2>4, <2>5, <2>6, WriteType DEF DeductWrite, historyVars
<1>10. CASE DeductLog(p)
  <2>1. [req[p] EXCEPT !.pc = "window_inc"] \in Request
    BY <1>0, AtType, PCNames
  <2>2. ledger' \in Int /\ last' \in Int /\ charged' \in Nat
    BY <1>10, <1>0, RequestFields, TotalType DEF DeductLog, LogRow
  <2> QED  BY <1>10, <1>0, <2>1, <2>2, RowType DEF DeductLog
<1>11. CASE AdvanceWindow(p)
  <2>1. [req[p] EXCEPT !.pc = "usage"] \in Request
    BY <1>0, AtType, PCNames
  <2>2. wallet' \in WalletDoc
    BY <1>11, <1>0, RequestFields DEF AdvanceWindow, WalletDoc
  <2> QED  BY <1>11, <1>0, <2>1, <2>2, WriteType DEF AdvanceWindow, historyVars
<1>12. CASE RecordUsage(p)
  <2>1. usage' \in Nat
    BY <1>12, <1>0, RequestFields DEF RecordUsage
  <2> QED  BY <1>12, <1>0, <2>1, IdleType, RowType DEF RecordUsage
<1>13. CASE AddWrite(p)
  <2> DEFINE q == req[p]
             new == q.held[q.bucket] + q.amount
  <2>1. /\ q.bucket \in Buckets /\ q.amount \in Int /\ q.held \in Amounts /\ new \in Int
    BY <1>0, RequestFields DEF Amounts
  <2>2. [q EXCEPT !.pc = "add_log", !.held[q.bucket] = new] \in Request
    <3>1. "add_log" \in PCs
      BY PCNames
    <3> HIDE DEF new
    <3> QED  BY <1>0, <2>1, <3>1 DEF Request
  <2>3. wallet' \in WalletDoc
    <3>1. wallet' = [wallet EXCEPT !.credits[q.bucket] = new]
      BY <1>13 DEF AddWrite
    <3> HIDE DEF new
    <3> QED  BY <1>0, <2>1, <3>1 DEF WalletDoc
  <2>4. Positive(q.amount) \in Nat /\ Positive(-q.amount) \in Nat
    BY <2>1, PositiveType
  <2>5. added' \in [Buckets -> Nat] /\ takenBack' \in Nat
    BY <1>13, <1>0, <2>1, <2>4 DEF AddWrite
  <2>6. torn' \in BOOLEAN
    BY <1>13 DEF AddWrite
  <2> QED  BY <1>13, <1>0, <2>2, <2>3, <2>5, <2>6, WriteType DEF AddWrite
<1>14. CASE AddLog(p)
  <2>1. CASE req[p].kind \in TransactionKinds
    <3>1. ledger' \in Int /\ last' \in Int
      BY <1>14, <2>1, <1>0, RequestFields, TotalType DEF AddLog, LogRow
    <3> QED  BY <1>14, <2>1, <1>0, <3>1, IdleType, RowType DEF AddLog
  <2>2. CASE req[p].kind \notin TransactionKinds
    <3>1. torn' \in BOOLEAN
      BY <1>14, <2>2 DEF AddLog
    <3> QED  BY <1>14, <2>2, <1>0, <3>1, IdleType, RowType DEF AddLog
  <2> QED  BY <2>1, <2>2
<1> QED  BY <1>1, <1>2, <1>3, <1>4, <1>5, <1>6, <1>7, <1>8, <1>9, <1>10, <1>11,
            <1>12, <1>13, <1>14 DEF WalletStep

LEMMA NextType == WalletTypeOK /\ [WalletNext]_walletVars => WalletTypeOK'
<1> SUFFICES ASSUME WalletTypeOK, [WalletNext]_walletVars PROVE WalletTypeOK'
  OBVIOUS
<1>1. ASSUME NEW p \in Requests, Asks(p)
      PROVE  WalletTypeOK'
  <2>1. PICK q \in Request : Call(p, q)
    BY <1>1, CallType
  <2> QED  BY <2>1, MoveType DEF Call, Become
<1>2. ASSUME NEW p \in Requests, WalletStep(p)
      PROVE  WalletTypeOK'
  BY <1>2, StepType
<1>3. ASSUME NEW p \in Requests, Unwind(p)
      PROVE  WalletTypeOK'
  BY <1>3, IdleType, MoveType DEF Unwind
<1>4. CASE Tick
  BY <1>4 DEF Tick, WalletTypeOK, rowVars, historyVars
<1>5. CASE Restart
  <2>1. req' \in [Requests -> Request]
    BY <1>5, IdleType DEF Restart
  <2>2. torn' \in BOOLEAN
    BY <1>5 DEF Restart
  <2> QED  BY <1>5, <2>1, <2>2 DEF Restart, WalletTypeOK, rowVars, historyVars
<1>6. CASE UNCHANGED walletVars
  BY <1>6 DEF WalletTypeOK, walletVars, rowVars, historyVars
<1> QED  BY <1>1, <1>2, <1>3, <1>4, <1>5, <1>6 DEF WalletNext, Asks

\* The wallet, its rows and the handlers of credit_service.py and
\* pricing_engine.py keep their types for any number of handlers.
THEOREM WalletTypeInvariant == WalletSpec => []WalletTypeOK
BY InitType, NextType, PTL DEF WalletSpec

-----------------------------------------------------------------------------
(* Bounds of the buckets.  NoOverdraft and NeverMoreThanAdded speak of the   *)
(* wallet document; a handler writes back what it holds in memory, however   *)
(* old, so both have to hold of every handler's copy as well.  A copy made   *)
(* for a new wallet is the only one that is not a wallet that once was.      *)

Gift == [NoCredits EXCEPT !["welcome"] = WELCOME_CREDITS, !["daily"] = DAILY_CREDITS]

Cap(b) == added[b] + (IF b = "daily" THEN DAILY_CREDITS ELSE 0)

Solvent ==
    /\ NoOverdraft
    /\ \A p \in Requests, b \in Buckets : req[p].held[b] + takenBack >= 0

\* A movement is under way only in a wallet that exists.
Opened == \A p \in Requests : req[p].pc \in Busy => wallet.open

Capped ==
    /\ NeverMoreThanAdded
    /\ ~wallet.open => added["welcome"] = 0
    /\ \A p \in Requests :
          IF req[p].pc = "wallet_insert" THEN req[p].held = Gift
          ELSE \A b \in Buckets : req[p].held[b] <= Cap(b)

Bounded == WalletTypeOK /\ Solvent /\ Opened /\ Capped

LEMMA GiftType ==
    /\ Gift \in [Buckets -> Nat] /\ Gift["welcome"] = WELCOME_CREDITS
    /\ Gift["daily"] = DAILY_CREDITS
    /\ \A b \in Buckets : b \notin {"welcome", "daily"} => Gift[b] = 0
<1>1. NoCredits \in [Buckets -> Nat] /\ \A b \in Buckets : NoCredits[b] = 0
  BY DEF NoCredits
<1>2. WELCOME_CREDITS \in Nat /\ DAILY_CREDITS \in Nat
  BY WalletAssumption
<1> QED  BY <1>1, <1>2, BucketNames DEF Gift

LEMMA CapType == WalletTypeOK => \A b \in Buckets : Cap(b) \in Nat
BY WalletAssumption DEF Cap, WalletTypeOK

\* A handler that drops what it holds or keeps it, and touches no bucket, keeps
\* the bounds.
LEMMA KeepsBounds ==
    ASSUME Bounded, NEW p \in Requests, NEW q \in Request, Become(p, q),
           q.held = NoCredits \/ (q.held = req[p].held /\ req[p].pc # "wallet_insert"),
           q.pc # "wallet_insert", q.pc \in Busy => req[p].pc \in Busy \/ wallet.open,
           wallet'.open = wallet.open, wallet'.credits = wallet.credits,
           UNCHANGED historyVars
    PROVE  Solvent' /\ Opened' /\ Capped'
<1>1. req'[p] = q /\ \A r \in Requests \ {p} : req'[r] = req[r]
  BY BecomeType DEF Bounded, WalletTypeOK
<1>2. \A b \in Buckets : NoCredits[b] = 0 /\ Cap(b) \in Nat /\ Cap(b)' = Cap(b)
  BY CapType DEF NoCredits, Bounded, Cap, historyVars
<1>3. takenBack \in Nat /\ takenBack' = takenBack /\ added' = added
  BY DEF Bounded, WalletTypeOK, historyVars
<1>4. Solvent'
  BY <1>1, <1>2, <1>3 DEF Bounded, Solvent, NoOverdraft
<1>5. Opened'
  BY <1>1 DEF Bounded, Opened
<1>6. NeverMoreThanAdded'
  BY <1>3 DEF Bounded, Capped, NeverMoreThanAdded
<1>7. \A r \in Requests : (IF req[r].pc = "wallet_insert" THEN req[r].held = Gift
                          ELSE \A b \in Buckets : req[r].held[b] <= Cap(b))'
  <2> TAKE r \in Requests
  <2>1. CASE r = p
    BY <1>1, <1>2, <2>1 DEF Bounded, Capped
  <2>2. CASE r # p
    BY <1>1, <1>2, <2>2 DEF Bounded, Capped
  <2> QED  BY <2>1, <2>2
<1> QED  BY <1>3, <1>4, <1>5, <1>6, <1>7 DEF Bounded, Capped

LEMMA InitBounded == WalletInit => Bounded
<1> SUFFICES ASSUME WalletInit PROVE Bounded
  OBVIOUS
<1>1. \A b \in Buckets : NoCredits[b] = 0
  BY DEF NoCredits
<1>2. /\ wallet.credits = NoCredits /\ added = NoCredits /\ takenBack = 0
      /\ \A p \in Requests : req[p] = Idle
  BY DEF WalletInit
<1>3. WalletTypeOK
  BY InitType
<1>4. Solvent
  BY <1>1, <1>2, IdleType DEF Solvent, NoOverdraft
<1>5. Opened
  BY <1>2, IdleType DEF Opened, Busy, Unlogged
<1>6. Capped
  <2>1. \A b \in Buckets : Cap(b) \in Nat
    BY <1>3, CapType
  <2>2. \A b \in Buckets : 0 <= Cap(b)
    BY <2>1
  <2> QED  BY <1>1, <1>2, <2>2, BucketNames, IdleType DEF Capped, NeverMoreThanAdded, Cap
<1> QED  BY <1>3, <1>4, <1>5, <1>6 DEF Bounded

LEMMA ReadWalletBounded ==
    ASSUME Bounded, NEW p \in Requests, ReadWallet(p)
    PROVE  Solvent' /\ Opened' /\ Capped'
<1> DEFINE q == [req[p] EXCEPT !.held = wallet.credits, !.at = now]
<1>0. /\ req \in [Requests -> Request] /\ wallet.credits \in Amounts /\ takenBack \in Nat
      /\ DAILY_CREDITS \in Nat /\ \A b \in Buckets : Cap(b) \in Nat
      /\ added \in [Buckets -> Nat]
  BY WalletFields, CapType, WalletAssumption DEF Bounded, WalletTypeOK
<1>1. q \in Request /\ q.held = wallet.credits
  BY <1>0, WalletFields DEF Bounded, WalletTypeOK, Request, Amounts
<1>2. UNCHANGED <<wallet, historyVars, takenBack, added>> /\ \A b \in Buckets : Cap(b)' = Cap(b)
  BY DEF ReadWallet, historyVars, Cap
<1>3. PICK r \in Request :
        /\ Become(p, r)
        /\ \/ /\ wallet.open /\ r.pc # "wallet_insert"
              /\ \/ r.held \in {NoCredits, wallet.credits}
                 \/ r.held = [wallet.credits EXCEPT !["daily"] = DAILY_CREDITS]
           \/ r.pc = "wallet_insert" /\ r.held = Gift
  <2>1. CASE wallet.open /\ Become(p, Resumed(q))
    <3> HIDE DEF q
    <3> QED  BY <1>1, <2>1, ResumedType DEF ResumePCs
  <2>2. CASE wallet.open /\ Become(p, [q EXCEPT !.pc = "refill", !.held["daily"] = DAILY_CREDITS])
    <3> DEFINE c == [wallet.credits EXCEPT !["daily"] = DAILY_CREDITS]
    <3>1. c \in Amounts /\ "refill" \in PCs
      <4>1. wallet.credits \in Amounts /\ DAILY_CREDITS \in Int
        BY <1>0
      <4> QED  BY <4>1, PCNames DEF Amounts
    <3>2. [q EXCEPT !.pc = "refill", !.held["daily"] = DAILY_CREDITS]
            = [q EXCEPT !.pc = "refill", !.held = c]
      <4> HIDE DEF q
      <4> QED  BY <1>1 DEF Request
    <3>3. [q EXCEPT !.pc = "refill", !.held = c] \in Request
          /\ [q EXCEPT !.pc = "refill", !.held = c].pc = "refill"
          /\ [q EXCEPT !.pc = "refill", !.held = c].held = c
      <4> HIDE DEF q, c
      <4> QED  BY <1>1, <3>1, HeldType
    <3> QED  BY <2>2, <3>2, <3>3
  <2>3. CASE Become(p, [q EXCEPT !.pc = "wallet_insert", !.held = Gift])
    <3>1. Gift \in Amounts /\ "wallet_insert" \in PCs
      BY GiftType, PCNames DEF Amounts
    <3> DEFINE new == [q EXCEPT !.pc = "wallet_insert", !.held = Gift]
    <3>2. new \in Request /\ new.pc = "wallet_insert" /\ new.held = Gift
      <4> HIDE DEF q
      <4> QED  BY <1>1, <3>1, HeldType
    <3>3. Become(p, new)
      BY <2>3
    <3> HIDE DEF new
    <3> QED  BY <3>2, <3>3
  <2> QED  BY <2>1, <2>2, <2>3 DEF ReadWallet, Gift
<1>4. req'[p] = r /\ \A s \in Requests \ {p} : req'[s] = req[s]
  BY <1>0, <1>3, BecomeType
<1>5. \A b \in Buckets : NoCredits[b] = 0 /\ Gift[b] \in Nat
  BY GiftType DEF NoCredits
<1>6. \A b \in Buckets : /\ wallet.credits[b] \in Int /\ wallet.credits[b] + takenBack >= 0
                         /\ wallet.credits[b] <= Cap(b)
  BY <1>0 DEF Bounded, Solvent, NoOverdraft, Capped, NeverMoreThanAdded, Cap, Amounts
<1>7. \A b \in Buckets : /\ r.held[b] + takenBack >= 0
                         /\ r.pc # "wallet_insert" => r.held[b] <= Cap(b)
  <2> TAKE b \in Buckets
  <2>1. CASE r.held = [wallet.credits EXCEPT !["daily"] = DAILY_CREDITS] /\ r.pc # "wallet_insert"
    <3>1. CASE b = "daily"
      <4>1. r.held[b] = DAILY_CREDITS /\ Cap(b) = added[b] + DAILY_CREDITS /\ added[b] \in Nat
        BY <1>0, <2>1, <3>1 DEF Cap, Amounts
      <4> QED  BY <1>0, <4>1
    <3>2. CASE b # "daily"
      BY <1>0, <1>6, <2>1, <3>2 DEF Amounts
    <3> QED  BY <3>1, <3>2
  <2>2. CASE r.held \in {NoCredits, wallet.credits}
    <3>1. NoCredits[b] = 0 /\ 0 <= Cap(b)
      BY <1>0, <1>5
    <3> QED  BY <1>0, <1>6, <2>2, <3>1
  <2>3. CASE r.pc = "wallet_insert" /\ r.held = Gift
    BY <1>0, <1>5, <2>3
  <2> QED  BY <1>3, <2>1, <2>2, <2>3
<1>8. Solvent'
  BY <1>2, <1>4, <1>7 DEF Bounded, Solvent, NoOverdraft
<1>9. Opened'
  BY <1>2, <1>3, <1>4 DEF Bounded, Opened, Busy, Unlogged
<1>10. Capped'
  BY <1>2, <1>3, <1>4, <1>7 DEF Bounded, Capped, NeverMoreThanAdded
<1> QED  BY <1>8, <1>9, <1>10

LEMMA InsertWalletBounded ==
    ASSUME Bounded, NEW p \in Requests, InsertWallet(p)
    PROVE  Solvent' /\ Opened' /\ Capped'
<1>0. /\ req \in [Requests -> Request] /\ req[p] \in Request /\ wallet \in WalletDoc
      /\ takenBack \in Nat /\ added \in [Buckets -> Nat]
      /\ WELCOME_CREDITS \in Nat /\ DAILY_CREDITS \in Nat
  BY WalletAssumption DEF Bounded, WalletTypeOK
<1>1. CASE wallet.open
  <2>1. Become(p, Raised) /\ UNCHANGED <<wallet, historyVars>>
    BY <1>1 DEF InsertWallet, historyVars
  <2>2. "raised" \notin Busy
    BY DEF Busy, Unlogged
  <2> QED  BY <2>1, <2>2, IdleType, KeepsBounds
<1>2. CASE ~wallet.open
  <2> DEFINE r == [req[p] EXCEPT !.pc = "welcome_log"]
  <2>1. r \in Request /\ r.pc = "welcome_log" /\ r.held = Gift
    BY <1>0, AtType, PCNames DEF InsertWallet, At, Bounded, Capped
  <2>2. req'[p] = r /\ \A s \in Requests \ {p} : req'[s] = req[s]
    BY <1>0, <1>2, <2>1, BecomeType DEF InsertWallet
  <2> HIDE DEF r
  <2>3. /\ wallet'.open /\ wallet'.credits = Gift /\ takenBack' = takenBack
        /\ added' = [added EXCEPT !["welcome"] = WELCOME_CREDITS]
    <3>1. req[p].held = Gift
      BY DEF InsertWallet, At, Bounded, Capped
    <3> QED  BY <1>0, <1>2, <3>1 DEF InsertWallet, WalletDoc
  <2>4. \A b \in Buckets : /\ Gift[b] \in Nat /\ Cap(b) \in Nat /\ Cap(b)' \in Nat
                           /\ Cap(b) <= Cap(b)' /\ Gift[b] <= Cap(b)'
    <3> TAKE b \in Buckets
    <3>1. added["welcome"] = 0 /\ added[b] \in Nat /\ Gift[b] \in Nat
      BY <1>0, <1>2, GiftType DEF Bounded, Capped
    <3>2. CASE b = "welcome"
      BY <1>0, <2>3, <3>1, <3>2, GiftType DEF Cap
    <3>3. CASE b # "welcome"
      BY <1>0, <2>3, <3>1, <3>3, GiftType DEF Cap
    <3> QED  BY <3>2, <3>3
  <2>5. \A s \in Requests, b \in Buckets : req[s].held[b] \in Int
    BY RequestFields DEF Bounded, WalletTypeOK, Amounts
  <2>6. Solvent'
    BY <1>0, <2>1, <2>2, <2>3, <2>4 DEF Bounded, Solvent, NoOverdraft
  <2>7. Opened'
    BY <2>3 DEF Opened
  <2>8. NeverMoreThanAdded'
    BY <2>3, <2>4 DEF NeverMoreThanAdded, Cap
  <2>9. \A s \in Requests : (IF req[s].pc = "wallet_insert" THEN req[s].held = Gift
                            ELSE \A b \in Buckets : req[s].held[b] <= Cap(b))'
    <3> TAKE s \in Requests
    <3>1. CASE s = p
      BY <2>1, <2>2, <2>4, <3>1
    <3>2. CASE s # p
      BY <2>2, <2>4, <2>5, <3>2 DEF Bounded, Capped
    <3> QED  BY <3>1, <3>2
  <2> QED  BY <2>3, <2>6, <2>7, <2>8, <2>9 DEF Capped
<1> QED  BY <1>1, <1>2

\* A write of bucket values: every bucket it writes is within the bounds, and so
\* is what the handler holds afterwards.
LEMMA WriteBounded ==
    ASSUME Bounded, NEW p \in Requests, NEW q \in Request, Become(p, q),
           req[p].pc \in Busy, q.pc \in Busy, q.pc # "wallet_insert",
           wallet'.open = wallet.open, wallet'.credits \in Amounts,
           takenBack' \in Nat, takenBack <= takenBack', added' \in [Buckets -> Nat],
           \A b \in Buckets : added[b] <= added'[b],
           \A b \in Buckets : \/ wallet'.credits[b] = wallet.credits[b]
                              \/ /\ wallet'.credits[b] + takenBack' >= 0
                                 /\ wallet'.credits[b] <= Cap(b)',
           \A b \in Buckets : q.held[b] + takenBack' >= 0 /\ q.held[b] <= Cap(b)'
    PROVE  Solvent' /\ Opened' /\ Capped'
<1>0. /\ req \in [Requests -> Request] /\ wallet.credits \in Amounts
      /\ takenBack \in Nat /\ added \in [Buckets -> Nat] /\ DAILY_CREDITS \in Nat
  BY WalletFields, WalletAssumption DEF Bounded, WalletTypeOK
<1>1. req'[p] = q /\ \A s \in Requests \ {p} : req'[s] = req[s]
  BY <1>0, BecomeType
<1>2. \A s \in Requests, b \in Buckets : req[s].held[b] \in Int
  BY RequestFields DEF Bounded, WalletTypeOK, Amounts
<1>3. \A b \in Buckets : Cap(b) \in Nat /\ Cap(b)' \in Nat /\ Cap(b) <= Cap(b)'
  BY <1>0 DEF Cap
<1>4. wallet.open
  BY DEF Bounded, Opened
<1>5. \A b \in Buckets : /\ wallet.credits[b] \in Int /\ wallet.credits[b] + takenBack >= 0
                         /\ wallet.credits[b] <= Cap(b)
  BY <1>0 DEF Bounded, Solvent, NoOverdraft, Capped, NeverMoreThanAdded, Cap, Amounts
<1>6. NoOverdraft' /\ \A b \in Buckets : wallet'.credits[b] <= Cap(b)'
  BY <1>0, <1>3, <1>5 DEF NoOverdraft
<1>7. \A s \in Requests, b \in Buckets : req'[s].held[b] + takenBack' >= 0
  <2> TAKE s \in Requests, b \in Buckets
  <2>1. CASE s = p
    BY <1>1, <2>1
  <2>2. CASE s # p
    BY <1>0, <1>1, <1>2, <2>2 DEF Bounded, Solvent
  <2> QED  BY <2>1, <2>2
<1>8. \A s \in Requests : (IF req[s].pc = "wallet_insert" THEN req[s].held = Gift
                          ELSE \A b \in Buckets : req[s].held[b] <= Cap(b))'
  <2> TAKE s \in Requests
  <2>1. CASE s = p
    BY <1>1, <2>1
  <2>2. CASE s # p
    BY <1>1, <1>2, <1>3, <2>2 DEF Bounded, Capped
  <2> QED  BY <2>1, <2>2
<1>9. Opened'
  BY <1>4 DEF Opened
<1> QED  BY <1>4, <1>6, <1>7, <1>8, <1>9 DEF Solvent, Capped, NeverMoreThanAdded, Cap

LEMMA StepBounded ==
    ASSUME Bounded, NEW p \in Requests, WalletStep(p)
    PROVE  Solvent' /\ Opened' /\ Capped'
<1>0. /\ req \in [Requests -> Request] /\ req[p] \in Request /\ wallet \in WalletDoc
      /\ wallet.credits \in Amounts /\ takenBack \in Nat /\ added \in [Buckets -> Nat]
      /\ DAILY_CREDITS \in Nat
  BY WalletFields, WalletAssumption DEF Bounded, WalletTypeOK
<1>00. /\ req[p].held \in Amounts /\ req[p].cost \in Nat /\ req[p].amount \in Int
       /\ req[p].bucket \in Buckets
  BY <1>0, RequestFields
<1>b. /\ "raised" \notin Busy /\ "idle" \notin Busy /\ "wallet_read" \notin Busy
      /\ "window_reset" \notin Busy /\ "window_inc" \notin Busy /\ "usage" \notin Busy
      /\ "window_read" \notin Busy /\ "work" \notin Busy
      /\ "daily_log" \in Busy /\ "welcome_log" \in Busy /\ "refill" \in Busy
      /\ "deduct_write" \in Busy /\ "deduct_log" \in Busy
      /\ "add_write" \in Busy /\ "add_log" \in Busy
  BY DEF Busy, Unlogged
<1>c. req[p].pc # "wallet_insert" =>
        \A b \in Buckets : req[p].held[b] + takenBack >= 0 /\ req[p].held[b] <= Cap(b)
  BY DEF Bounded, Solvent, Capped
<1>1. CASE ReadWallet(p)
  BY <1>1, ReadWalletBounded
<1>2. CASE InsertWallet(p)
  BY <1>2, InsertWalletBounded
<1>3. CASE WelcomeLog(p)
  <2> DEFINE q == [req[p] EXCEPT !.pc = "daily_log"]
  <2>1. q \in Request /\ q.pc = "daily_log" /\ q.held = req[p].held
    BY <1>0, AtType, PCNames
  <2>2. /\ Become(p, q) /\ req[p].pc = "welcome_log" /\ UNCHANGED <<wallet, historyVars>>
    BY <1>3 DEF WelcomeLog, At
  <2> HIDE DEF q
  <2> QED  BY <1>b, <2>1, <2>2, KeepsBounds
<1>4. CASE Refill(p)
  <2> DEFINE q == [req[p] EXCEPT !.pc = "daily_log"]
             c == [wallet.credits EXCEPT !["daily"] = DAILY_CREDITS]
  <2>1. q \in Request /\ q.pc = "daily_log" /\ q.held = req[p].held
    BY <1>0, AtType, PCNames
  <2>2. /\ Become(p, q) /\ req[p].pc = "refill" /\ added' = added /\ takenBack' = takenBack
    BY <1>4 DEF Refill, At, historyVars
  <2>3. c \in Amounts
    <3>1. wallet.credits \in Amounts /\ DAILY_CREDITS \in Int
      BY <1>0
    <3> QED  BY <3>1 DEF Amounts
  <2>4. wallet'.open = wallet.open /\ wallet'.credits = c
    BY <1>4, <1>0 DEF Refill, WalletDoc
  <2>5. \A b \in Buckets : c[b] = wallet.credits[b]
                           \/ (c[b] + takenBack >= 0 /\ c[b] <= Cap(b))
    <3> TAKE b \in Buckets
    <3>1. CASE b = "daily"
      <4>1. c[b] = DAILY_CREDITS /\ Cap(b) = added[b] + DAILY_CREDITS /\ added[b] \in Nat
        BY <1>0, <3>1 DEF Cap, Amounts
      <4> QED  BY <1>0, <4>1
    <3>2. CASE b # "daily"
      BY <1>0, <3>2 DEF Amounts
    <3> QED  BY <3>1, <3>2
  <2>6. \A b \in Buckets : Cap(b)' = Cap(b) /\ added[b] \in Nat
    BY <1>0, <2>2 DEF Cap
  <2> HIDE DEF q, c
  <2>7. \A b \in Buckets : q.held[b] + takenBack' >= 0 /\ q.held[b] <= Cap(b)'
    BY <1>c, <2>1, <2>2, <2>6
  <2>8. \A b \in Buckets : \/ wallet'.credits[b] = wallet.credits[b]
                            \/ /\ wallet'.credits[b] + takenBack' >= 0
                               /\ wallet'.credits[b] <= Cap(b)'
    BY <2>2, <2>4, <2>5, <2>6
  <2>9. /\ \A b \in Buckets : added[b] <= added'[b]
        /\ takenBack' \in Nat /\ takenBack <= takenBack' /\ added' \in [Buckets -> Nat]
    BY <1>0, <2>2, <2>6
  <2> QED  BY <1>b, <2>1, <2>2, <2>3, <2>4, <2>7, <2>8, <2>9, WriteBounded
<1>5. CASE DailyLog(p)
  <2> DEFINE q == Resumed(req[p])
  <2>1. q \in Request /\ q.pc \in ResumePCs /\ q.held \in {NoCredits, req[p].held}
    BY <1>0, ResumedType
  <2>2. /\ Become(p, q) /\ req[p].pc = "daily_log" /\ UNCHANGED <<wallet, historyVars>>
    BY <1>5 DEF DailyLog, At
  <2>3. "wallet_insert" \notin ResumePCs
    BY DEF ResumePCs
  <2> HIDE DEF q
  <2> QED  BY <1>b, <2>1, <2>2, <2>3, KeepsBounds
<1>6. CASE ReadWindow(p)
  <2> DEFINE q1 == [req[p] EXCEPT !.pc = "window_reset", !.at = now]
             q2 == Guarded(req[p], wallet.used)
  <2>1. q1 \in Request /\ q1.pc = "window_reset" /\ q1.held = req[p].held
    BY <1>0, PCNames DEF Request, Bounded, WalletTypeOK
  <2>2. q2 \in Request /\ q2.pc \in {"raised", "wallet_read"} /\ q2.held \in {NoCredits, req[p].held}
    BY <1>0, GuardedType
  <2>3. /\ Become(p, q1) \/ Become(p, q2)
        /\ req[p].pc = "window_read" /\ UNCHANGED <<wallet, historyVars>>
    BY <1>6 DEF ReadWindow, At
  <2> HIDE DEF q1, q2
  <2> QED  BY <1>b, <2>1, <2>2, <2>3, KeepsBounds
<1>7. CASE ResetWindow(p)
  <2> DEFINE q == Guarded(req[p], 0)
  <2>1. q \in Request /\ q.pc \in {"raised", "wallet_read"} /\ q.held \in {NoCredits, req[p].held}
    BY <1>0, GuardedType
  <2>2. /\ Become(p, q) /\ req[p].pc = "window_reset" /\ UNCHANGED historyVars
    BY <1>7 DEF ResetWindow, At, historyVars
  <2>3. wallet'.open = wallet.open /\ wallet'.credits = wallet.credits
    BY <1>7, <1>0 DEF ResetWindow, WalletDoc
  <2> HIDE DEF q
  <2> QED  BY <1>b, <2>1, <2>2, <2>3, KeepsBounds
<1>8. CASE Work(p)
  <2> DEFINE w == [req[p] EXCEPT !.precheck = FALSE]
             q == Fetch(w, "window")
  <2>1. w \in Request /\ w.held = req[p].held /\ "window" \in Callers
    BY <1>0 DEF Request, Callers
  <2>2. q \in Request /\ q.pc = "wallet_read" /\ q.held = req[p].held
    <3> HIDE DEF w
    <3> QED  BY <2>1, FetchType
  <2>3. /\ Become(p, q) \/ Become(p, Raised)
        /\ req[p].pc = "work" /\ UNCHANGED <<wallet, historyVars>>
    BY <1>8 DEF Work, At
  <2> HIDE DEF q
  <2> QED  BY <1>b, <2>2, <2>3, IdleType, KeepsBounds
<1>9. CASE DeductWrite(p)
  <2> DEFINE held == req[p].held
             new == Deducted(held, req[p].cost)
             q == [req[p] EXCEPT !.pc = "deduct_log", !.held = new]
             c == [b \in Buckets |-> IF new[b] # held[b] THEN new[b] ELSE wallet.credits[b]]
  <2>1. /\ new \in Amounts
        /\ \A b \in Buckets : new[b] <= held[b] /\ (new[b] >= 0 \/ new[b] = held[b])
    BY <1>00, DeductedBounds
  <2>2. /\ Become(p, q) /\ req[p].pc = "deduct_write" /\ added' = added /\ takenBack' = takenBack
    BY <1>9 DEF DeductWrite, At, historyVars
  <2>3. wallet'.open = wallet.open /\ wallet'.credits = c
    BY <1>9, <1>0 DEF DeductWrite, WalletDoc
  <2> HIDE DEF new
  <2>4. q \in Request /\ q.pc = "deduct_log" /\ q.held = new
    <3>1. "deduct_log" \in PCs /\ req[p] \in Request
      BY <1>0, PCNames
    <3> QED  BY <2>1, <3>1, HeldType
  <2>5. c \in Amounts
    BY <1>0, <2>1 DEF Amounts
  <2>6. \A b \in Buckets : /\ Cap(b)' = Cap(b) /\ Cap(b) \in Nat /\ added[b] \in Nat
                           /\ new[b] \in Int /\ held[b] \in Int
    BY <1>0, <1>00, <2>1, <2>2, CapType DEF Cap, Amounts, Bounded
  <2>7. \A b \in Buckets : new[b] + takenBack >= 0 /\ new[b] <= Cap(b)
    BY <1>0, <1>c, <2>1, <2>2, <2>6
  <2>8. \A b \in Buckets : c[b] = wallet.credits[b] \/ c[b] = new[b]
    OBVIOUS
  <2> HIDE DEF q, c, held
  <2>9. \A b \in Buckets : q.held[b] + takenBack' >= 0 /\ q.held[b] <= Cap(b)'
    BY <2>2, <2>4, <2>6, <2>7
  <2>10. \A b \in Buckets : \/ wallet'.credits[b] = wallet.credits[b]
                             \/ /\ wallet'.credits[b] + takenBack' >= 0
                                /\ wallet'.credits[b] <= Cap(b)'
    BY <2>2, <2>3, <2>6, <2>7, <2>8
  <2>11. /\ \A b \in Buckets : added[b] <= added'[b]
         /\ takenBack' \in Nat /\ takenBack <= takenBack' /\ added' \in [Buckets -> Nat]
    BY <1>0, <2>2, <2>6
  <2> QED  BY <1>b, <2>2, <2>3, <2>4, <2>5, <2>9, <2>10, <2>11, WriteBounded
<1>10. CASE DeductLog(p)
  <2> DEFINE q == [req[p] EXCEPT !.pc = "window_inc"]
  <2>1. q \in Request /\ q.pc = "window_inc" /\ q.held = req[p].held
    BY <1>0, AtType, PCNames
  <2>2. /\ Become(p, q) /\ req[p].pc = "deduct_log" /\ UNCHANGED <<wallet, historyVars>>
    BY <1>10 DEF DeductLog, At
  <2> HIDE DEF q
  <2> QED  BY <1>b, <2>1, <2>2, KeepsBounds
<1>11. CASE AdvanceWindow(p)
  <2> DEFINE q == [req[p] EXCEPT !.pc = "usage"]
  <2>1. q \in Request /\ q.pc = "usage" /\ q.held = req[p].held
    BY <1>0, AtType, PCNames
  <2>2. /\ Become(p, q) /\ req[p].pc = "window_inc" /\ UNCHANGED historyVars
    BY <1>11 DEF AdvanceWindow, At, historyVars
  <2>3. wallet'.open = wallet.open /\ wallet'.credits = wallet.credits
    BY <1>11, <1>0 DEF AdvanceWindow, WalletDoc
  <2> HIDE DEF q
  <2> QED  BY <1>b, <2>1, <2>2, <2>3, KeepsBounds
<1>12. CASE RecordUsage(p)
  <2>1. Become(p, Idle) /\ UNCHANGED <<wallet, historyVars>>
    BY <1>12 DEF RecordUsage
  <2> QED  BY <1>b, <2>1, IdleType, KeepsBounds
<1>13. CASE AddWrite(p)
  <2>0. PICK k \in Buckets, a \in Int : k = req[p].bucket /\ a = req[p].amount
    BY <1>00
  <2> DEFINE new == req[p].held[k] + a
             q == [req[p] EXCEPT !.pc = "add_log", !.held[k] = new]
             c == [wallet.credits EXCEPT ![k] = new]
             h == [req[p].held EXCEPT ![k] = new]
  <2>1. k \in Buckets /\ a \in Int /\ new \in Int
    BY <1>00, <2>0 DEF Amounts
  <2>2. /\ Become(p, q) /\ req[p].pc = "add_write"
        /\ added' = [added EXCEPT ![k] = @ + Positive(a)]
        /\ takenBack' = takenBack + Positive(-a)
    BY <1>13, <2>0 DEF AddWrite, At
  <2>3. wallet'.open = wallet.open /\ wallet'.credits = c
    BY <1>13, <1>0, <2>0 DEF AddWrite, WalletDoc
  <2>4. /\ Positive(a) \in Nat /\ Positive(-a) \in Nat
        /\ a <= Positive(a) /\ -a <= Positive(-a)
    BY <2>1, PositiveType
  <2> HIDE DEF new
  <2>5. c \in Amounts /\ h \in Amounts
    BY <1>0, <1>00, <2>1 DEF Amounts
  <2>6. q = [req[p] EXCEPT !.pc = "add_log", !.held = h]
    BY <1>0 DEF Request
  <2>7. q \in Request /\ q.pc = "add_log" /\ q.held = h
    <3>1. "add_log" \in PCs /\ req[p] \in Request
      BY <1>0, PCNames
    <3> HIDE DEF q, h
    <3> QED  BY <2>5, <2>6, <3>1, HeldType
  <2>8. /\ takenBack' \in Nat /\ takenBack <= takenBack' /\ added' \in [Buckets -> Nat]
        /\ \A b \in Buckets : added[b] <= added'[b] /\ Cap(b) \in Nat /\ Cap(b)' \in Nat
                              /\ Cap(b) <= Cap(b)'
        /\ Cap(k)' = Cap(k) + Positive(a)
    <3>1. takenBack' \in Nat /\ takenBack <= takenBack'
      BY <1>0, <2>2, <2>4
    <3>2. added' \in [Buckets -> Nat] /\ added'[k] = added[k] + Positive(a)
          /\ \A b \in Buckets : b # k => added'[b] = added[b]
      BY <1>0, <2>1, <2>2, <2>4
    <3>3. \A b \in Buckets : added[b] \in Nat /\ added'[b] \in Nat /\ added[b] <= added'[b]
      BY <1>0, <2>1, <2>4, <3>2
    <3>4. \A b \in Buckets : Cap(b) \in Nat /\ Cap(b)' \in Nat /\ Cap(b) <= Cap(b)'
      BY <1>0, <3>3 DEF Cap
    <3>5. Cap(k)' = Cap(k) + Positive(a)
      <4>1. added[k] \in Nat /\ added'[k] = added[k] + Positive(a)
        BY <2>1, <3>2, <3>3
      <4>2. CASE k = "daily"
        BY <1>0, <2>4, <4>1, <4>2 DEF Cap
      <4>3. CASE k # "daily"
        BY <2>4, <4>1, <4>3 DEF Cap
      <4> QED  BY <4>2, <4>3
    <3> QED  BY <3>1, <3>2, <3>3, <3>4, <3>5
  <2>9. \A b \in Buckets : /\ req[p].held[b] \in Int /\ req[p].held[b] + takenBack >= 0
                           /\ req[p].held[b] <= Cap(b)
    BY <1>00, <1>c, <2>2 DEF Amounts
  <2>10. new + takenBack' >= 0 /\ new <= Cap(k)'
    BY <1>0, <2>1, <2>2, <2>4, <2>8, <2>9 DEF new
  <2>11. \A b \in Buckets : h[b] + takenBack' >= 0 /\ h[b] <= Cap(b)'
    <3> TAKE b \in Buckets
    <3>1. CASE b = k
      <4>1. h[b] = new
        BY <1>00, <2>1, <3>1 DEF Amounts
      <4> HIDE DEF h
      <4> QED  BY <2>10, <3>1, <4>1
    <3>2. CASE b # k
      <4>1. h[b] = req[p].held[b]
        BY <1>00, <3>2 DEF Amounts
      <4> HIDE DEF h
      <4> QED  BY <1>0, <2>8, <2>9, <4>1
    <3> QED  BY <3>1, <3>2
  <2>12. \A b \in Buckets : c[b] = wallet.credits[b] \/ c[b] = h[b]
    BY <1>0, <1>00, <2>1 DEF Amounts
  <2> HIDE DEF q, c, h
  <2>13. \A b \in Buckets : q.held[b] + takenBack' >= 0 /\ q.held[b] <= Cap(b)'
    BY <2>7, <2>11
  <2>14. \A b \in Buckets : \/ wallet'.credits[b] = wallet.credits[b]
                             \/ /\ wallet'.credits[b] + takenBack' >= 0
                                /\ wallet'.credits[b] <= Cap(b)'
    BY <2>3, <2>11, <2>12
  <2> QED  BY <1>b, <2>2, <2>3, <2>5, <2>7, <2>8, <2>13, <2>14, WriteBounded
<1>14. CASE AddLog(p)
  <2>1. (Become(p, Idle) \/ Become(p, Raised)) /\ UNCHANGED <<wallet, historyVars>>
    BY <1>14 DEF AddLog
  <2> QED  BY <1>b, <2>1, IdleType, KeepsBounds
<1> QED  BY <1>1, <1>2, <1>3, <1>4, <1>5, <1>6, <1>7, <1>8, <1>9, <1>10, <1>11,
            <1>12, <1>13, <1>14 DEF WalletStep

LEMMA NextBounded == Bounded /\ [WalletNext]_walletVars => Bounded'
<1> SUFFICES ASSUME Bounded, [WalletNext]_walletVars PROVE Solvent' /\ Opened' /\ Capped'
  BY NextType DEF Bounded
<1>1. ASSUME NEW p \in Requests, Asks(p)
      PROVE  Solvent' /\ Opened' /\ Capped'
  <2>1. PICK q \in Request : /\ q.pc \in {"wallet_read", "usage"} /\ q.held = NoCredits
                             /\ Call(p, q)
    BY <1>1, CallType DEF Bounded
  <2>2. q.pc # "wallet_insert" /\ q.pc \notin Busy
    BY <2>1 DEF Busy, Unlogged
  <2>3. Become(p, q) /\ UNCHANGED <<wallet, historyVars>>
    BY <2>1 DEF Call, Become
  <2> QED  BY <2>1, <2>2, <2>3, KeepsBounds
<1>2. ASSUME NEW p \in Requests, WalletStep(p)
      PROVE  Solvent' /\ Opened' /\ Capped'
  BY <1>2, StepBounded
<1>3. ASSUME NEW p \in Requests, Unwind(p)
      PROVE  Solvent' /\ Opened' /\ Capped'
  <2>1. Become(p, Idle) /\ UNCHANGED <<wallet, historyVars>> /\ "idle" \notin Busy
    BY <1>3 DEF Unwind, Busy, Unlogged
  <2> QED  BY <2>1, IdleType, KeepsBounds
<1>4. CASE UNCHANGED <<wallet, req, historyVars>>
  BY <1>4 DEF Bounded, Solvent, NoOverdraft, Opened, Capped, NeverMoreThanAdded, Cap, historyVars
<1>5. CASE Restart
  <2>1. /\ \A p \in Requests : req'[p] = Idle
        /\ wallet' = wallet /\ added' = added /\ takenBack' = takenBack
    BY <1>5 DEF Restart, historyVars
  <2>2. \A b \in Buckets : NoCredits[b] = 0 /\ Cap(b) \in Nat /\ Cap(b)' = Cap(b)
    BY <2>1, CapType DEF NoCredits, Bounded, Cap
  <2>3. Solvent'
    BY <2>1, <2>2, IdleType DEF Bounded, Solvent, NoOverdraft, WalletTypeOK
  <2>4. Opened'
    BY <2>1, IdleType DEF Opened, Busy, Unlogged
  <2>5. Capped'
    <3>1. \A p \in Requests : req'[p].pc # "wallet_insert" /\ req'[p].held = NoCredits
      BY <2>1, IdleType
    <3>2. \A b \in Buckets : NoCredits[b] <= Cap(b)'
      BY <2>2
    <3> QED  BY <2>1, <3>1, <3>2 DEF Bounded, Capped, NeverMoreThanAdded
  <2> QED  BY <2>3, <2>4, <2>5
<1> QED  BY <1>1, <1>2, <1>3, <1>4, <1>5 DEF WalletNext, Asks, Tick, walletVars

LEMMA BoundedInvariant == WalletSpec => []Bounded
BY InitBounded, NextBounded, PTL DEF WalletSpec

\* However many handlers of a user overwrite each other's bucket values, no
\* charge takes a bucket below zero.
THEOREM NoOverdraftInvariant == WalletSpec => []NoOverdraft
<1>1. Bounded => NoOverdraft
  BY DEF Bounded, Solvent
<1> QED  BY <1>1, BoundedInvariant, PTL

\* And no bucket ever holds more than was put in it.
THEOREM NeverMoreThanAddedInvariant == WalletSpec => []NeverMoreThanAdded
<1>1. Bounded => NeverMoreThanAdded
  BY DEF Bounded, Capped
<1> QED  BY <1>1, BoundedInvariant, PTL

-----------------------------------------------------------------------------
(* The amount that is charged is the amount that leaves the buckets.         *)

Smaller(m, n) == IF m < n THEN m ELSE n

\* Buckets that hold `ahead` have been emptied first; this one holds n.
LEMMA TakeNext ==
    ASSUME NEW amount \in Nat, NEW ahead \in Nat, NEW n \in Nat
    PROVE  Smaller(amount, ahead) + Smaller(n, Positive(amount - ahead))
             = Smaller(amount, ahead + n)
BY DEF Smaller, Positive

LEMMA DeductionIsExact ==
    ASSUME NEW c \in Amounts, NEW amount \in Nat, amount <= Total(c)
    PROVE  Total(Deducted(c, amount)) = Total(c) - amount
<1> DEFINE w == Positive(c["welcome"])
           d == Positive(c["daily"])
           b == Positive(c["bonus"])
           r == Positive(c["referral"])
           m == Positive(c["promotional"])
           u == Positive(c["purchased"])
           T(k) == Take(c, amount, k)
<1>1. /\ c["welcome"] \in Int /\ c["daily"] \in Int /\ c["bonus"] \in Int
      /\ c["referral"] \in Int /\ c["promotional"] \in Int /\ c["purchased"] \in Int
  BY BucketNames DEF Amounts
<1>2. /\ w \in Nat /\ d \in Nat /\ b \in Nat /\ r \in Nat /\ m \in Nat /\ u \in Nat
      /\ c["welcome"] <= w /\ c["daily"] <= d /\ c["bonus"] <= b
      /\ c["referral"] <= r /\ c["promotional"] <= m /\ c["purchased"] <= u
  BY <1>1, PositiveType
<1>3. /\ Ahead(c)["welcome"] = 0 /\ Ahead(c)["daily"] = w /\ Ahead(c)["bonus"] = w + d
      /\ Ahead(c)["referral"] = w + d + b /\ Ahead(c)["promotional"] = w + d + b + r
      /\ Ahead(c)["purchased"] = w + d + b + r + m
  BY BucketNames DEF Ahead
<1>4. \A k \in Buckets : T(k) = Smaller(Positive(c[k]), Positive(amount - Ahead(c)[k]))
  BY DEF Take, Smaller
<1>5. /\ T("welcome") = Smaller(w, Positive(amount - 0))
      /\ T("daily") = Smaller(d, Positive(amount - w))
      /\ T("bonus") = Smaller(b, Positive(amount - (w + d)))
      /\ T("referral") = Smaller(r, Positive(amount - (w + d + b)))
      /\ T("promotional") = Smaller(m, Positive(amount - (w + d + b + r)))
      /\ T("purchased") = Smaller(u, Positive(amount - (w + d + b + r + m)))
  BY <1>3, <1>4, BucketNames
<1>6. /\ Deducted(c, amount)["welcome"] = c["welcome"] - T("welcome")
      /\ Deducted(c, amount)["daily"] = c["daily"] - T("daily")
      /\ Deducted(c, amount)["bonus"] = c["bonus"] - T("bonus")
      /\ Deducted(c, amount)["referral"] = c["referral"] - T("referral")
      /\ Deducted(c, amount)["promotional"] = c["promotional"] - T("promotional")
      /\ Deducted(c, amount)["purchased"] = c["purchased"] - T("purchased")
  BY BucketNames DEF Deducted
<1> HIDE DEF w, d, b, r, m, u, T
<1>7. \A i, j \in Nat : Smaller(i, j) \in Nat
  BY DEF Smaller
<1>8. PICK s2 \in Nat, s3 \in Nat, s4 \in Nat, s5 \in Nat, s6 \in Nat :
        s2 = w + d /\ s3 = s2 + b /\ s4 = s3 + r /\ s5 = s4 + m /\ s6 = s5 + u
  BY <1>2
<1>9. /\ T("welcome") = Smaller(w, Positive(amount - 0))
      /\ T("daily") = Smaller(d, Positive(amount - w))
      /\ T("bonus") = Smaller(b, Positive(amount - s2))
      /\ T("referral") = Smaller(r, Positive(amount - s3))
      /\ T("promotional") = Smaller(m, Positive(amount - s4))
      /\ T("purchased") = Smaller(u, Positive(amount - s5))
  BY <1>5, <1>8
<1>10. /\ Smaller(amount, 0) + T("welcome") = Smaller(amount, w)
       /\ Smaller(amount, w) + T("daily") = Smaller(amount, s2)
       /\ Smaller(amount, s2) + T("bonus") = Smaller(amount, s3)
       /\ Smaller(amount, s3) + T("referral") = Smaller(amount, s4)
       /\ Smaller(amount, s4) + T("promotional") = Smaller(amount, s5)
       /\ Smaller(amount, s5) + T("purchased") = Smaller(amount, s6)
  <2>1. Smaller(amount, 0) + T("welcome") = Smaller(amount, 0 + w)
    BY <1>2, <1>9, TakeNext
  <2>2. Smaller(amount, w) + T("daily") = Smaller(amount, w + d)
    BY <1>2, <1>9, TakeNext
  <2>3. Smaller(amount, s2) + T("bonus") = Smaller(amount, s2 + b)
    BY <1>2, <1>9, TakeNext
  <2>4. Smaller(amount, s3) + T("referral") = Smaller(amount, s3 + r)
    BY <1>2, <1>9, TakeNext
  <2>5. Smaller(amount, s4) + T("promotional") = Smaller(amount, s4 + m)
    BY <1>2, <1>9, TakeNext
  <2>6. Smaller(amount, s5) + T("purchased") = Smaller(amount, s5 + u)
    BY <1>2, <1>9, TakeNext
  <2>7. 0 + w = w
    BY <1>2
  <2> QED  BY <1>8, <2>1, <2>2, <2>3, <2>4, <2>5, <2>6, <2>7
<1>11. Smaller(amount, 0) = 0 /\ Smaller(amount, s6) = amount
  <2>1. amount <= s6
    BY <1>1, <1>2, <1>8 DEF Total
  <2> QED  BY <2>1 DEF Smaller
<1>12. /\ T("welcome") \in Nat /\ T("daily") \in Nat /\ T("bonus") \in Nat
       /\ T("referral") \in Nat /\ T("promotional") \in Nat /\ T("purchased") \in Nat
  <2>1. \A n \in Int : Positive(n) \in Nat
    BY PositiveType
  <2>2. /\ Positive(amount - 0) \in Nat /\ Positive(amount - w) \in Nat
        /\ Positive(amount - s2) \in Nat /\ Positive(amount - s3) \in Nat
        /\ Positive(amount - s4) \in Nat /\ Positive(amount - s5) \in Nat
    BY <1>2, <2>1
  <2> QED  BY <1>2, <1>7, <1>9, <2>2
<1>13. T("welcome") + T("daily") + T("bonus") + T("referral") + T("promotional")
         + T("purchased") = amount
  <2>1. /\ Smaller(amount, w) \in Nat /\ Smaller(amount, s2) \in Nat
        /\ Smaller(amount, s3) \in Nat /\ Smaller(amount, s4) \in Nat
        /\ Smaller(amount, s5) \in Nat
    BY <1>2, <1>7
  <2> QED  BY <1>10, <1>11, <1>12, <2>1
<1> QED  BY <1>1, <1>6, <1>12, <1>13 DEF Total

LEMMA TotalChange ==
    ASSUME NEW c \in Amounts, NEW k \in Buckets, NEW n \in Int
    PROVE  Total([c EXCEPT ![k] = n]) = Total(c) - c[k] + n
<1> DEFINE e == [c EXCEPT ![k] = n]
<1>1. \A b \in Buckets : c[b] \in Int /\ e[b] = IF b = k THEN n ELSE c[b]
  BY DEF Amounts
<1> HIDE DEF e
<1>2. Total(e) = Total(c) - c[k] + n
  BY <1>1 DEF Buckets, Total
<1> QED  BY <1>2 DEF e

-----------------------------------------------------------------------------
(* The wallet and its rows.  While no movement has been torn apart at most   *)
(* one is between its write and its row, what a handler is about to write    *)
(* was computed from the wallet as it is, and the wallet is worth no more    *)
(* than the rows, the one that is due, and what admins took back; `worth'    *)
(* leaves a debt of the daily bucket aside, because the next refill does.    *)

Worth(c) == Total(c) + Positive(-c["daily"])

RowsDue(q) ==
    CASE q.pc = "welcome_log" -> WELCOME_CREDITS + DAILY_CREDITS
      [] q.pc = "daily_log" -> DAILY_CREDITS
      [] q.pc = "deduct_log" -> -q.cost
      [] q.pc = "add_log" -> q.amount
      [] OTHER -> 0

Unopened == ~wallet.open => wallet.credits = NoCredits

Affordable(q) == q.pc = "deduct_write" => q.cost <= Total(q.held)

Fresh(q) ==
    /\ q.pc \in {"deduct_write", "add_write"} \cup Unlogged => q.held = wallet.credits
    /\ q.pc = "refill" => q.held = [wallet.credits EXCEPT !["daily"] = DAILY_CREDITS]

Booked ==
    /\ \A p \in Requests : Fresh(req[p])
    /\ \A p, q \in Requests : req[p].pc \in Unlogged /\ req[q].pc \in Unlogged => p = q
    /\ \A p \in Requests :
          req[p].pc \in Unlogged =>
            Worth(wallet.credits) <= ledger + RowsDue(req[p]) + takenBack
    /\ Quiet => /\ Worth(wallet.credits) <= ledger + takenBack
                /\ wallet.open => last = Total(wallet.credits)

Books ==
    /\ Bounded
    /\ Unopened
    /\ \A p \in Requests : Affordable(req[p])
    /\ ~torn => Booked

LEMMA WorthType ==
    ASSUME NEW c \in Amounts
    PROVE  Worth(c) \in Int /\ Total(c) \in Int /\ Total(c) <= Worth(c)
<1>1. Total(c) \in Int /\ c["daily"] \in Int
  BY TotalType, BucketNames DEF Amounts
<1>2. Positive(-c["daily"]) \in Nat
  BY <1>1, PositiveType
<1> QED  BY <1>1, <1>2 DEF Worth

LEMMA RowsDueType == \A q \in Request : RowsDue(q) \in Int
<1> SUFFICES ASSUME NEW q \in Request PROVE RowsDue(q) \in Int
  OBVIOUS
<1>1. WELCOME_CREDITS \in Int /\ DAILY_CREDITS \in Int /\ q.cost \in Int /\ q.amount \in Int
  BY WalletAssumption, RequestFields
<1> QED  BY <1>1 DEF RowsDue

\* The shapes of the wallet's steps, as far as the rows are concerned: a
\* handler moves without a movement, writes one row, writes the buckets, or
\* fails to write its row.
Silent(p, q) ==
    /\ req[p].pc \notin Unlogged /\ q.pc \notin Unlogged
    /\ Affordable(q) /\ (~torn => Fresh(q))
    /\ wallet'.open = wallet.open /\ wallet'.credits = wallet.credits
    /\ UNCHANGED <<ledger, last, torn, takenBack>>

LogsARow(p, q) ==
    /\ req[p].pc \in Unlogged
    /\ Affordable(q) /\ (~torn => Fresh(q))
    /\ UNCHANGED <<wallet, torn, takenBack>>
    /\ last' = Total(req[p].held)
    /\ \/ q.pc \notin Unlogged /\ ledger' = ledger + RowsDue(req[p])
       \/ q.pc \in Unlogged /\ ledger' + RowsDue(q) = ledger + RowsDue(req[p])

Writes(p, q) ==
    /\ req[p].pc \notin Unlogged /\ q.pc \in Unlogged
    /\ wallet'.open /\ wallet'.credits \in Amounts
    /\ UNCHANGED <<ledger, last>>
    /\ ~torn' => /\ ~torn /\ \A s \in Requests \ {p} : req[s].pc \notin Busy
                 /\ q.held = wallet'.credits
                 /\ Worth(wallet'.credits) + takenBack
                      <= Worth(wallet.credits) + RowsDue(q) + takenBack'

Tears(p, q) ==
    /\ q.pc \notin Busy /\ torn'
    /\ wallet' = wallet

Shaped(p, q) ==
    /\ Become(p, q)
    /\ Silent(p, q) \/ LogsARow(p, q) \/ Writes(p, q) \/ Tears(p, q)

LEMMA PCClasses ==
    /\ "deduct_write" \notin Unlogged /\ "add_write" \notin Unlogged /\ "refill" \notin Unlogged
    /\ Unlogged \subseteq Busy
    /\ "deduct_write" \in Busy /\ "add_write" \in Busy /\ "refill" \in Busy
BY DEF Unlogged, Busy

LEMMA ShapeKeepsBooks ==
    ASSUME Books, Bounded', NEW p \in Requests, NEW q \in Request, Shaped(p, q)
    PROVE  Books'
<1>0. /\ req'[p] = q /\ \A s \in Requests \ {p} : req'[s] = req[s]
  BY BecomeType DEF Books, Bounded, WalletTypeOK, Shaped
<1>1. Unopened' /\ \A s \in Requests : Affordable(req[s])'
  <2>1. Unopened'
    BY DEF Books, Unopened, Shaped, Silent, LogsARow, Writes, Tears
  <2>2. Affordable(q)
    BY PCClasses DEF Shaped, Silent, LogsARow, Writes, Tears, Affordable
  <2> QED  BY <1>0, <2>1, <2>2 DEF Books, Affordable
<1>2. ASSUME ~torn'
      PROVE  Booked'
  <2>0. /\ ledger \in Int /\ ledger' \in Int /\ takenBack \in Nat /\ takenBack' \in Nat
        /\ wallet.credits \in Amounts /\ wallet'.credits \in Amounts
        /\ \A s \in Requests : RowsDue(req[s]) \in Int
        /\ RowsDue(q) \in Int
    BY WalletFields, RowsDueType DEF Books, Bounded, WalletTypeOK, WalletDoc, Amounts
  <2>1. CASE Silent(p, q)
    <3>0. Booked /\ Fresh(q) /\ wallet'.credits = wallet.credits
          /\ ledger' = ledger /\ last' = last /\ takenBack' = takenBack
          /\ (wallet'.open = wallet.open) /\ req[p].pc \notin Unlogged /\ q.pc \notin Unlogged
      BY <1>2, <2>1 DEF Silent, Books
    <3>1. \A s \in Requests : Fresh(req[s])'
      BY <1>0, <3>0 DEF Booked, Fresh
    <3>2. \A r, s \in Requests : req'[r].pc \in Unlogged /\ req'[s].pc \in Unlogged => r = s
      BY <1>0, <3>0 DEF Booked
    <3>3. \A s \in Requests : req'[s].pc \in Unlogged =>
            Worth(wallet'.credits) <= ledger' + RowsDue(req'[s]) + takenBack'
      BY <1>0, <3>0 DEF Booked
    <3>4. Quiet' => /\ Worth(wallet'.credits) <= ledger' + takenBack'
                    /\ wallet'.open => last' = Total(wallet'.credits)
      BY <1>0, <3>0 DEF Booked, Quiet
    <3> QED  BY <3>1, <3>2, <3>3, <3>4 DEF Booked
  <2>2. CASE LogsARow(p, q)
    <3>0. Booked /\ Fresh(q) /\ wallet' = wallet /\ takenBack' = takenBack
          /\ req[p].pc \in Unlogged /\ last' = Total(req[p].held)
      BY <1>2, <2>2 DEF LogsARow, Books
    <3>1. \A s \in Requests : Fresh(req[s])'
      BY <1>0, <3>0 DEF Booked, Fresh
    <3>2. \A s \in Requests \ {p} : req[s].pc \notin Unlogged
      BY <3>0 DEF Booked
    <3>3. /\ Worth(wallet.credits) <= ledger + RowsDue(req[p]) + takenBack
          /\ Worth(wallet.credits) \in Int
      BY <2>0, <3>0, WorthType DEF Booked
    <3>4. \A s \in Requests : req'[s].pc \in Unlogged =>
            Worth(wallet'.credits) <= ledger' + RowsDue(req'[s]) + takenBack'
      <4>1. q.pc \in Unlogged => Worth(wallet.credits) <= ledger' + RowsDue(q) + takenBack
        BY <2>0, <2>2, <3>3 DEF LogsARow
      <4> QED  BY <1>0, <3>0, <3>2, <4>1
    <3>5. Quiet' => /\ Worth(wallet'.credits) <= ledger' + takenBack'
                    /\ wallet'.open => last' = Total(wallet'.credits)
      <4>1. req[p].held = wallet.credits
        BY <3>0 DEF Booked, Fresh
      <4>2. Quiet' => q.pc \notin Unlogged
        BY <1>0 DEF Quiet
      <4>3. q.pc \notin Unlogged => Worth(wallet.credits) <= ledger' + takenBack
        BY <2>0, <2>2, <3>3 DEF LogsARow
      <4> QED  BY <3>0, <4>1, <4>2, <4>3
    <3>6. \A r, s \in Requests : req'[r].pc \in Unlogged /\ req'[s].pc \in Unlogged => r = s
      BY <1>0, <3>2
    <3> QED  BY <3>1, <3>4, <3>5, <3>6 DEF Booked
  <2>3. CASE Writes(p, q)
    <3>0. /\ Booked /\ q.held = wallet'.credits /\ ledger' = ledger
          /\ \A s \in Requests \ {p} : req[s].pc \notin Busy
          /\ req[p].pc \notin Unlogged /\ q.pc \in Unlogged
          /\ Worth(wallet'.credits) + takenBack
               <= Worth(wallet.credits) + RowsDue(q) + takenBack'
      BY <1>2, <2>3 DEF Writes, Books
    <3>1. \A s \in Requests : Fresh(req[s])'
      BY <1>0, <3>0, PCClasses DEF Fresh
    <3>2. \A r, s \in Requests : req'[r].pc \in Unlogged /\ req'[s].pc \in Unlogged => r = s
      BY <1>0, <3>0, PCClasses
    <3>3. Quiet
      BY <3>0, PCClasses DEF Quiet
    <3>4. Worth(wallet'.credits) <= ledger' + RowsDue(q) + takenBack'
      <4>1. Worth(wallet'.credits) \in Int /\ Worth(wallet.credits) \in Int
        BY <2>0, WorthType
      <4>2. Worth(wallet.credits) <= ledger + takenBack
        BY <3>0, <3>3 DEF Booked
      <4> QED  BY <2>0, <3>0, <4>1, <4>2
    <3>5. \A s \in Requests : req'[s].pc \in Unlogged =>
            Worth(wallet'.credits) <= ledger' + RowsDue(req'[s]) + takenBack'
      BY <1>0, <3>0, <3>4, PCClasses
    <3>6. ~Quiet'
      BY <1>0, <3>0 DEF Quiet
    <3> QED  BY <3>1, <3>2, <3>5, <3>6 DEF Booked
  <2>4. CASE Tears(p, q)
    BY <1>2, <2>4 DEF Tears
  <2> QED  BY <2>1, <2>2, <2>3, <2>4 DEF Shaped
<1> QED  BY <1>1, <1>2 DEF Books

\* Where get_or_create_wallet returns to: with the wallet as it is in hand, the
\* handler is ready to write it.
LEMMA ResumedReady ==
    ASSUME NEW q \in Request
    PROVE  /\ Resumed(q) \in Request /\ Resumed(q).pc \notin Unlogged
           /\ Affordable(Resumed(q))
           /\ q.held = wallet.credits => Fresh(Resumed(q))
<1> DEFINE r == Resumed(q)
<1>1. /\ r \in Request /\ r.pc \in ResumePCs
      /\ r.pc \in {"add_write", "deduct_write"} => r.held = q.held
  BY ResumedType
<1>2. r.pc \notin Unlogged /\ r.pc # "refill"
  BY <1>1 DEF ResumePCs, Unlogged
<1>3. Affordable(r)
  <2>1. CASE Total(q.held) < q.cost
    <3>1. r \in {Idle, Raised, Fetch(q, "add"), [q EXCEPT !.pc = "add_write"],
                 [q EXCEPT !.pc = "window_read"]}
      BY <2>1 DEF Resumed
    <3>2. "add" \in Callers /\ "add_write" \in PCs /\ "window_read" \in PCs
      BY PCNames DEF Callers
    <3>3. r.pc # "deduct_write"
      BY <3>1, <3>2, IdleType, FetchType, AtType
    <3> QED  BY <3>3 DEF Affordable
  <2>2. CASE ~(Total(q.held) < q.cost)
    <3>1. Total(q.held) \in Int /\ q.cost \in Nat
      BY RequestFields, TotalType
    <3>2. r.pc = "deduct_write" => r.cost = q.cost
      <4> DEFINE Keeps(t) == t.pc = "deduct_write" => t.cost = q.cost
      <4>1. r \in {Idle, Raised, Fetch(q, "add"), Fetch(q, "deduct"),
                   [q EXCEPT !.pc = "add_write"], [q EXCEPT !.pc = "window_read"],
                   [q EXCEPT !.pc = "deduct_write"], [q EXCEPT !.pc = "work"]}
        BY DEF Resumed
      <4>2. "add" \in Callers /\ "deduct" \in Callers
        BY DEF Callers
      <4>3. Keeps(Idle) /\ Keeps(Raised) /\ Keeps(Fetch(q, "add")) /\ Keeps(Fetch(q, "deduct"))
        BY <4>2, IdleType, FetchType
      <4>4. ASSUME NEW pc \in PCs
            PROVE  Keeps([q EXCEPT !.pc = pc])
        BY AtType
      <4>5. /\ "add_write" \in PCs /\ "window_read" \in PCs
            /\ "deduct_write" \in PCs /\ "work" \in PCs
        BY PCNames
      <4> HIDE DEF r, Keeps
      <4>6. Keeps(r)
        BY <4>1, <4>3, <4>4, <4>5
      <4> QED  BY <4>6 DEF Keeps
    <3> HIDE DEF r
    <3> QED  BY <1>1, <2>2, <3>1, <3>2 DEF Affordable
  <2> QED  BY <2>1, <2>2
<1>4. q.held = wallet.credits => Fresh(r)
  <2> HIDE DEF r
  <2> QED  BY <1>1, <1>2 DEF Fresh
<1> QED  BY <1>1, <1>2, <1>3, <1>4

\* A handler that is not about to write the buckets has nothing to be ready for.
LEMMA NotWriting ==
    ASSUME NEW q \in Request, q.pc \notin Busy
    PROVE  q.pc \notin Unlogged /\ Affordable(q) /\ Fresh(q)
BY PCClasses DEF Affordable, Fresh

LEMMA ReadWalletShaped ==
    ASSUME Books, NEW p \in Requests, ReadWallet(p)
    PROVE  \E q \in Request : Shaped(p, q)
<1> DEFINE q == [req[p] EXCEPT !.held = wallet.credits, !.at = now]
           gift == [NoCredits EXCEPT !["welcome"] = WELCOME_CREDITS, !["daily"] = DAILY_CREDITS]
           c == [wallet.credits EXCEPT !["daily"] = DAILY_CREDITS]
<1>1. q \in Request /\ q.held = wallet.credits /\ wallet.credits \in Amounts
  BY WalletFields DEF Books, Bounded, WalletTypeOK, Request, Amounts
<1>2. /\ req[p].pc \notin Unlogged /\ UNCHANGED <<wallet, ledger, last, torn, takenBack>>
  BY DEF ReadWallet, At, Unlogged, rowVars, historyVars
<1>3. CASE Become(p, Resumed(q))
  <2> HIDE DEF q
  <2> QED  BY <1>1, <1>2, <1>3, ResumedReady DEF Shaped, Silent
<1>4. CASE Become(p, [q EXCEPT !.pc = "refill", !.held["daily"] = DAILY_CREDITS])
  <2>1. c \in Amounts /\ "refill" \in PCs
    <3>1. DAILY_CREDITS \in Int
      BY WalletAssumption
    <3> QED  BY <1>1, <3>1, PCNames DEF Amounts
  <2> DEFINE r == [q EXCEPT !.pc = "refill", !.held = c]
  <2>2. Become(p, r)
    <3>1. [q EXCEPT !.pc = "refill", !.held["daily"] = DAILY_CREDITS] = r
      <4> HIDE DEF q
      <4> QED  BY <1>1 DEF Request
    <3> QED  BY <1>4, <3>1
  <2>3. r \in Request /\ r.pc = "refill" /\ r.held = c
    <3> HIDE DEF q, c
    <3> QED  BY <1>1, <2>1, HeldType
  <2> HIDE DEF r
  <2>4. r.pc \notin Unlogged /\ Affordable(r) /\ Fresh(r)
    BY <2>3, PCClasses DEF Affordable, Fresh
  <2> QED  BY <1>2, <2>2, <2>3, <2>4 DEF Shaped, Silent
<1>5. CASE Become(p, [q EXCEPT !.pc = "wallet_insert", !.held = gift])
  <2>1. gift \in Amounts /\ "wallet_insert" \in PCs
    BY GiftType, PCNames DEF Gift, Amounts
  <2> DEFINE r == [q EXCEPT !.pc = "wallet_insert", !.held = gift]
  <2>2. r \in Request /\ r.pc = "wallet_insert"
    <3> HIDE DEF q, gift
    <3> QED  BY <1>1, <2>1, HeldType
  <2>3. Become(p, r)
    BY <1>5
  <2> HIDE DEF r
  <2>4. r.pc \notin Busy
    BY <2>2 DEF Busy, Unlogged
  <2> QED  BY <1>2, <2>2, <2>3, <2>4, NotWriting DEF Shaped, Silent
<1> QED  BY <1>3, <1>4, <1>5 DEF ReadWallet

\* A handler that writes the buckets: one step for each way it does.
LEMMA InsertWalletShaped ==
    ASSUME Books, NEW p \in Requests, InsertWallet(p)
    PROVE  \E q \in Request : Shaped(p, q)
<1>0. /\ req[p] \in Request /\ req[p].pc = "wallet_insert" /\ wallet \in WalletDoc
      /\ WELCOME_CREDITS \in Nat /\ DAILY_CREDITS \in Nat /\ takenBack \in Nat
  BY WalletAssumption DEF Books, Bounded, WalletTypeOK, InsertWallet, At
<1>1. /\ req[p].pc \notin Unlogged
      /\ ledger' = ledger /\ last' = last /\ torn' = torn /\ takenBack' = takenBack
  BY <1>0 DEF InsertWallet, Unlogged, rowVars
<1>2. CASE wallet.open
  <2>1. Become(p, Raised) /\ wallet' = wallet
    BY <1>2 DEF InsertWallet
  <2>2. Raised \in Request /\ Raised.pc \notin Busy
    BY IdleType DEF Busy, Unlogged
  <2> QED  BY <1>1, <2>1, <2>2, NotWriting DEF Shaped, Silent
<1>3. CASE ~wallet.open
  <2> DEFINE r == [req[p] EXCEPT !.pc = "welcome_log"]
  <2>1. r \in Request /\ r.pc = "welcome_log" /\ r.held = Gift
    BY <1>0, AtType, PCNames DEF Books, Bounded, Capped
  <2>2. Become(p, r)
    BY <1>3 DEF InsertWallet
  <2>3. wallet'.open /\ wallet'.credits = Gift
    <3>1. req[p].held = Gift
      BY <1>0 DEF Books, Bounded, Capped
    <3> QED  BY <1>0, <1>3, <3>1 DEF InsertWallet, WalletDoc
  <2> HIDE DEF r
  <2>4. \A s \in Requests : req[s].pc \notin Busy
    BY <1>3 DEF Books, Bounded, Opened
  <2>5. Gift \in Amounts /\ Worth(Gift) = WELCOME_CREDITS + DAILY_CREDITS
    <3>1. /\ Gift["welcome"] = WELCOME_CREDITS /\ Gift["daily"] = DAILY_CREDITS
          /\ Gift["bonus"] = 0 /\ Gift["referral"] = 0
          /\ Gift["promotional"] = 0 /\ Gift["purchased"] = 0
      BY GiftType, BucketNames
    <3>2. Positive(-DAILY_CREDITS) = 0
      BY <1>0 DEF Positive
    <3>3. Gift \in Amounts
      BY GiftType DEF Amounts
    <3> QED  BY <1>0, <3>1, <3>2, <3>3 DEF Worth, Total
  <2>6. Worth(wallet.credits) = 0
    <3>1. wallet.credits = NoCredits
      BY <1>3 DEF Books, Unopened
    <3>2. \A b \in Buckets : NoCredits[b] = 0
      BY DEF NoCredits
    <3> QED  BY <3>1, <3>2, BucketNames DEF Worth, Total, Positive
  <2>7. RowsDue(r) = WELCOME_CREDITS + DAILY_CREDITS /\ r.pc \in Unlogged
    BY <2>1 DEF RowsDue, Unlogged
  <2>8. Worth(wallet'.credits) + takenBack <= Worth(wallet.credits) + RowsDue(r) + takenBack'
    BY <1>0, <1>1, <2>3, <2>5, <2>6, <2>7
  <2> QED  BY <1>1, <2>1, <2>2, <2>3, <2>4, <2>5, <2>7, <2>8 DEF Shaped, Writes
<1> QED  BY <1>2, <1>3

LEMMA RefillShaped ==
    ASSUME Books, NEW p \in Requests, Refill(p)
    PROVE  \E q \in Request : Shaped(p, q)
<1> DEFINE r == [req[p] EXCEPT !.pc = "daily_log"]
           c == [wallet.credits EXCEPT !["daily"] = DAILY_CREDITS]
<1>0. /\ req[p] \in Request /\ req[p].pc = "refill" /\ wallet \in WalletDoc
      /\ wallet.credits \in Amounts /\ DAILY_CREDITS \in Nat /\ takenBack \in Nat
      /\ ledger' = ledger /\ last' = last /\ takenBack' = takenBack
  BY WalletFields, WalletAssumption
     DEF Books, Bounded, WalletTypeOK, Refill, At, rowVars, historyVars
<1>1. r \in Request /\ r.pc = "daily_log" /\ r.held = req[p].held
  BY <1>0, AtType, PCNames
<1>2. Become(p, r) /\ torn' = (torn \/ Overlaps(p))
  BY DEF Refill
<1>3. wallet'.open /\ wallet'.credits = c
  <2>1. wallet.open
    BY <1>0, PCClasses DEF Books, Bounded, Opened
  <2> QED  BY <1>0, <2>1 DEF Refill, WalletDoc
<1>4. c \in Amounts /\ Total(c) = Total(wallet.credits) - wallet.credits["daily"] + DAILY_CREDITS
      /\ c["daily"] = DAILY_CREDITS
  <2>1. DAILY_CREDITS \in Int /\ "daily" \in Buckets /\ wallet.credits \in Amounts
    BY <1>0, BucketNames
  <2>2. Total(c) = Total(wallet.credits) - wallet.credits["daily"] + DAILY_CREDITS
    BY <2>1, TotalChange
  <2> QED  BY <2>1, <2>2 DEF Amounts
<1> HIDE DEF r, c
<1>5. Worth(c) <= Worth(wallet.credits) + DAILY_CREDITS
  <2>1. Total(wallet.credits) \in Int /\ wallet.credits["daily"] \in Int
    BY <1>0, TotalType, BucketNames DEF Amounts
  <2>2. Positive(-DAILY_CREDITS) = 0
    BY <1>0 DEF Positive
  <2>3. /\ -wallet.credits["daily"] <= Positive(-wallet.credits["daily"])
        /\ Positive(-wallet.credits["daily"]) \in Nat
    BY <2>1, PositiveType
  <2> QED  BY <1>0, <1>4, <2>1, <2>2, <2>3 DEF Worth
<1>6. RowsDue(r) = DAILY_CREDITS /\ r.pc \in Unlogged
  BY <1>1 DEF RowsDue, Unlogged
<1>7. ASSUME ~torn'
      PROVE  ~torn /\ (\A s \in Requests \ {p} : req[s].pc \notin Busy) /\ r.held = c
  BY <1>0, <1>1, <1>2, <1>7 DEF Overlaps, Books, Booked, Fresh, c
<1>8. Worth(wallet'.credits) + takenBack <= Worth(wallet.credits) + RowsDue(r) + takenBack'
  <2>1. Worth(c) \in Int /\ Worth(wallet.credits) \in Int
    BY <1>0, <1>4, WorthType
  <2> QED  BY <1>0, <1>3, <1>5, <1>6, <2>1
<1>9. req[p].pc \notin Unlogged
  BY <1>0, PCClasses
<1> QED  BY <1>0, <1>1, <1>2, <1>3, <1>4, <1>6, <1>7, <1>8, <1>9 DEF Shaped, Writes

LEMMA DeductWriteShaped ==
    ASSUME Books, NEW p \in Requests, DeductWrite(p)
    PROVE  \E q \in Request : Shaped(p, q)
<1> DEFINE held == req[p].held
           new == Deducted(held, req[p].cost)
           r == [req[p] EXCEPT !.pc = "deduct_log", !.held = new]
           c == [b \in Buckets |-> IF new[b] # held[b] THEN new[b] ELSE wallet.credits[b]]
<1>0. /\ req[p] \in Request /\ req[p].pc = "deduct_write" /\ wallet \in WalletDoc
      /\ wallet.credits \in Amounts /\ held \in Amounts /\ req[p].cost \in Nat
      /\ takenBack \in Nat /\ takenBack' = takenBack
      /\ ledger' = ledger /\ last' = last
  BY WalletFields, RequestFields
     DEF Books, Bounded, WalletTypeOK, DeductWrite, At, rowVars, historyVars
<1>1. /\ new \in Amounts
      /\ \A b \in Buckets : new[b] >= 0 \/ new[b] = held[b]
  BY <1>0, DeductedBounds
<1>2. Become(p, r) /\ torn' = (torn \/ Overlaps(p))
  BY DEF DeductWrite
<1>3. wallet'.open /\ wallet'.credits = c
  <2>1. wallet.open
    BY <1>0, PCClasses DEF Books, Bounded, Opened
  <2> QED  BY <1>0, <2>1 DEF DeductWrite, WalletDoc
<1>4. Total(new) = Total(held) - req[p].cost
  BY <1>0, DeductionIsExact DEF Books, Affordable
<1> HIDE DEF new, held
<1>5. r \in Request /\ r.pc = "deduct_log" /\ r.held = new /\ r.cost = req[p].cost
  <2>1. "deduct_log" \in PCs /\ req[p] \in Request
    BY <1>0, PCNames
  <2> QED  BY <1>1, <2>1, HeldType
<1>6. c \in Amounts
  BY <1>0, <1>1 DEF Amounts
<1>7. held = wallet.credits => c = new
  BY <1>1 DEF Amounts
<1> HIDE DEF r, c
<1>8. Worth(new) <= Worth(held) - req[p].cost
  <2>1. /\ new["daily"] \in Int /\ held["daily"] \in Int
        /\ new["daily"] >= 0 \/ new["daily"] = held["daily"]
    BY <1>0, <1>1, BucketNames DEF Amounts
  <2>2. Positive(-new["daily"]) <= Positive(-held["daily"])
    BY <2>1 DEF Positive
  <2>3. Total(new) \in Int /\ Total(held) \in Int
    BY <1>0, <1>1, TotalType
  <2>4. Positive(-new["daily"]) \in Nat /\ Positive(-held["daily"]) \in Nat
    BY <2>1, PositiveType
  <2> QED  BY <1>0, <1>4, <2>2, <2>3, <2>4 DEF Worth
<1>9. RowsDue(r) = -req[p].cost /\ r.pc \in Unlogged
  BY <1>5 DEF RowsDue, Unlogged
<1>10. ASSUME ~torn'
       PROVE  /\ ~torn /\ \A s \in Requests \ {p} : req[s].pc \notin Busy
              /\ held = wallet.credits /\ c = new
  BY <1>0, <1>2, <1>7, <1>10 DEF Overlaps, Books, Booked, Fresh, held
<1>11. ASSUME ~torn'
       PROVE  Worth(wallet'.credits) + takenBack
                <= Worth(wallet.credits) + RowsDue(r) + takenBack'
  <2>1. Worth(new) \in Int /\ Worth(held) \in Int
    BY <1>0, <1>1, WorthType
  <2>2. c = new /\ held = wallet.credits
    BY <1>10, <1>11
  <2> QED  BY <1>0, <1>3, <1>8, <1>9, <2>1, <2>2
<1>12. req[p].pc \notin Unlogged
  BY <1>0, PCClasses
<1> QED  BY <1>0, <1>2, <1>3, <1>5, <1>6, <1>9, <1>10, <1>11, <1>12 DEF Shaped, Writes

LEMMA AddWriteShaped ==
    ASSUME Books, NEW p \in Requests, AddWrite(p)
    PROVE  \E q \in Request : Shaped(p, q)
<1>0. /\ req[p] \in Request /\ req[p].pc = "add_write" /\ wallet \in WalletDoc
      /\ wallet.credits \in Amounts /\ req[p].held \in Amounts
      /\ takenBack \in Nat /\ ledger' = ledger /\ last' = last
  BY WalletFields, RequestFields
     DEF Books, Bounded, WalletTypeOK, AddWrite, At, rowVars
<1>00. PICK k \in Buckets, a \in Int : k = req[p].bucket /\ a = req[p].amount
  BY <1>0, RequestFields
<1> DEFINE new == req[p].held[k] + a
           h == [req[p].held EXCEPT ![k] = new]
           c == [wallet.credits EXCEPT ![k] = new]
           r == [req[p] EXCEPT !.pc = "add_log", !.held = h]
<1>1. new \in Int
  BY <1>0 DEF Amounts
<1>2. torn' = (torn \/ Overlaps(p)) /\ takenBack' = takenBack + Positive(-a)
      /\ Become(p, r)
  <2>1. [req[p] EXCEPT !.pc = "add_log", !.held[k] = new] = r
    <3> HIDE DEF new
    <3> QED  BY <1>0 DEF Request
  <2> HIDE DEF r
  <2> QED  BY <1>00, <2>1 DEF AddWrite
<1>3. wallet'.open /\ wallet'.credits = c
  <2>1. wallet.open
    BY <1>0, PCClasses DEF Books, Bounded, Opened
  <2> QED  BY <1>0, <1>00, <2>1 DEF AddWrite, WalletDoc
<1> HIDE DEF new
<1>4. h \in Amounts /\ c \in Amounts /\ c[k] = new
  BY <1>0, <1>1 DEF Amounts
<1>5. Total(c) = Total(wallet.credits) - wallet.credits[k] + new
  BY <1>0, <1>1, TotalChange
<1>55. k # "daily" => c["daily"] = wallet.credits["daily"]
  BY <1>0, BucketNames DEF Amounts
<1>6. req[p].held = wallet.credits => h = c
  OBVIOUS
<1> HIDE DEF h, c
<1>7. r \in Request /\ r.pc = "add_log" /\ r.held = h /\ r.amount = a
  <2>1. "add_log" \in PCs /\ req[p] \in Request
    BY <1>0, PCNames
  <2> QED  BY <1>00, <1>4, <2>1, HeldType
<1> HIDE DEF r
<1>8. Positive(-a) \in Nat /\ -a <= Positive(-a)
  BY PositiveType
<1>9. ASSUME req[p].held = wallet.credits
      PROVE  Worth(c) + takenBack <= Worth(wallet.credits) + a + takenBack'
  <2>1. /\ wallet.credits["daily"] \in Int /\ wallet.credits[k] \in Int
        /\ c["daily"] \in Int /\ Total(wallet.credits) \in Int /\ Total(c) \in Int
    BY <1>0, <1>4, TotalType, BucketNames DEF Amounts
  <2>2. Total(c) = Total(wallet.credits) + a
    BY <1>5, <1>9, <2>1 DEF new
  <2>3. Positive(-c["daily"]) <= Positive(-wallet.credits["daily"]) + Positive(-a)
    <3>1. CASE k = "daily"
      <4>1. c["daily"] = wallet.credits["daily"] + a
        BY <1>4, <1>9, <3>1 DEF new
      <4> QED  BY <2>1, <4>1 DEF Positive
    <3>2. CASE k # "daily"
      <4>1. Positive(-wallet.credits["daily"]) \in Nat
        BY <2>1, PositiveType
      <4> QED  BY <1>8, <1>55, <3>2, <4>1
    <3> QED  BY <3>1, <3>2
  <2>4. Positive(-c["daily"]) \in Nat /\ Positive(-wallet.credits["daily"]) \in Nat
    BY <2>1, PositiveType
  <2> QED  BY <1>0, <1>2, <1>8, <2>1, <2>2, <2>3, <2>4 DEF Worth
<1>10. RowsDue(r) = a /\ r.pc \in Unlogged
  BY <1>7 DEF RowsDue, Unlogged
<1>11. ASSUME ~torn'
       PROVE  /\ ~torn /\ \A s \in Requests \ {p} : req[s].pc \notin Busy
              /\ req[p].held = wallet.credits
  BY <1>0, <1>2, <1>11 DEF Overlaps, Books, Booked, Fresh
<1>12. req[p].pc \notin Unlogged
  BY <1>0, PCClasses
<1>13. Writes(p, r)
  BY <1>0, <1>3, <1>4, <1>6, <1>7, <1>9, <1>10, <1>11, <1>12 DEF Writes
<1> QED  BY <1>2, <1>7, <1>13 DEF Shaped

\* A handler that neither reads nor writes the buckets, or writes a row.
LEMMA StepShaped ==
    ASSUME Books, NEW p \in Requests, WalletStep(p)
    PROVE  \E q \in Request : Shaped(p, q)
<1>0. /\ req[p] \in Request /\ wallet \in WalletDoc /\ now \in Nat /\ ledger \in Int
      /\ WELCOME_CREDITS \in Nat /\ DAILY_CREDITS \in Nat
      /\ req[p].cost \in Nat /\ req[p].amount \in Int
  BY RequestFields, WalletAssumption DEF Books, Bounded, WalletTypeOK
<1>00. ~torn /\ req[p].pc \in Unlogged => req[p].held = wallet.credits
  BY DEF Books, Booked, Fresh
<1>a. ASSUME NEW q \in Request, Become(p, q), q.pc \notin Busy, req[p].pc \notin Unlogged,
             wallet'.open = wallet.open, wallet'.credits = wallet.credits,
             UNCHANGED <<ledger, last, torn, takenBack>>
      PROVE  \E r \in Request : Shaped(p, r)
  BY <1>a, NotWriting DEF Shaped, Silent
<1>b. /\ "raised" \notin Busy /\ "idle" \notin Busy /\ "wallet_read" \notin Busy
      /\ "window_reset" \notin Busy /\ "window_inc" \notin Busy /\ "usage" \notin Busy
      /\ "window_read" \notin Unlogged /\ "window_reset" \notin Unlogged
      /\ "work" \notin Unlogged /\ "window_inc" \notin Unlogged /\ "usage" \notin Unlogged
      /\ "welcome_log" \in Unlogged /\ "daily_log" \in Unlogged
      /\ "deduct_log" \in Unlogged /\ "add_log" \in Unlogged
  BY DEF Busy, Unlogged
<1>1. CASE ReadWallet(p)
  BY <1>1, ReadWalletShaped
<1>2. CASE InsertWallet(p)
  BY <1>2, InsertWalletShaped
<1>3. CASE WelcomeLog(p)
  <2> DEFINE q == [req[p] EXCEPT !.pc = "daily_log"]
  <2>1. q \in Request /\ q.pc = "daily_log" /\ q.held = req[p].held
    BY <1>0, AtType, PCNames
  <2>2. /\ Become(p, q) /\ req[p].pc = "welcome_log" /\ ledger' = ledger + WELCOME_CREDITS
        /\ last' = Total(req[p].held) /\ UNCHANGED <<wallet, torn, takenBack>>
    BY <1>3 DEF WelcomeLog, LogRow, At, historyVars
  <2> HIDE DEF q
  <2>3. /\ RowsDue(q) = DAILY_CREDITS /\ RowsDue(req[p]) = WELCOME_CREDITS + DAILY_CREDITS
        /\ q.pc \in Unlogged /\ req[p].pc \in Unlogged
    BY <2>1, <2>2 DEF RowsDue, Unlogged
  <2>4. Affordable(q) /\ (~torn => Fresh(q))
    BY <1>00, <2>1, <2>2, <2>3 DEF Affordable, Fresh
  <2>5. ledger' + RowsDue(q) = ledger + RowsDue(req[p])
    BY <1>0, <2>2, <2>3
  <2> QED  BY <2>1, <2>2, <2>3, <2>4, <2>5 DEF Shaped, LogsARow
<1>4. CASE Refill(p)
  BY <1>4, RefillShaped
<1>5. CASE DailyLog(p)
  <2> DEFINE q == Resumed(req[p])
  <2>1. /\ q \in Request /\ q.pc \notin Unlogged /\ Affordable(q)
        /\ req[p].held = wallet.credits => Fresh(q)
    BY <1>0, ResumedReady
  <2>2. /\ Become(p, q) /\ req[p].pc = "daily_log" /\ ledger' = ledger + DAILY_CREDITS
        /\ last' = Total(req[p].held) /\ UNCHANGED <<wallet, torn, takenBack>>
    BY <1>5 DEF DailyLog, LogRow, At, historyVars
  <2>3. RowsDue(req[p]) = DAILY_CREDITS /\ req[p].pc \in Unlogged
    BY <2>2 DEF RowsDue, Unlogged
  <2> HIDE DEF q
  <2> QED  BY <1>00, <2>1, <2>2, <2>3 DEF Shaped, LogsARow
<1>6. CASE ReadWindow(p)
  <2> DEFINE q1 == [req[p] EXCEPT !.pc = "window_reset", !.at = now]
             q2 == Guarded(req[p], wallet.used)
  <2>1. q1 \in Request /\ q1.pc = "window_reset"
    BY <1>0, PCNames DEF Request
  <2>2. q2 \in Request /\ q2.pc \in {"raised", "wallet_read"}
    BY <1>0, GuardedType
  <2>3. /\ Become(p, q1) \/ Become(p, q2)
        /\ req[p].pc = "window_read" /\ UNCHANGED <<wallet, ledger, last, torn, takenBack>>
    BY <1>6 DEF ReadWindow, At, rowVars, historyVars
  <2> HIDE DEF q1, q2
  <2> QED  BY <1>a, <1>b, <2>1, <2>2, <2>3
<1>7. CASE ResetWindow(p)
  <2> DEFINE q == Guarded(req[p], 0)
  <2>1. q \in Request /\ q.pc \in {"raised", "wallet_read"}
    BY <1>0, GuardedType
  <2>2. /\ Become(p, q) /\ req[p].pc = "window_reset"
        /\ UNCHANGED <<ledger, last, torn, takenBack>>
    BY <1>7 DEF ResetWindow, At, rowVars, historyVars
  <2>3. wallet'.open = wallet.open /\ wallet'.credits = wallet.credits
    BY <1>7, <1>0 DEF ResetWindow, WalletDoc
  <2> HIDE DEF q
  <2> QED  BY <1>a, <1>b, <2>1, <2>2, <2>3
<1>8. CASE Work(p)
  <2> DEFINE w == [req[p] EXCEPT !.precheck = FALSE]
             q == Fetch(w, "window")
  <2>1. w \in Request /\ "window" \in Callers
    BY <1>0 DEF Request, Callers
  <2>2. q \in Request /\ q.pc = "wallet_read"
    <3> HIDE DEF w
    <3> QED  BY <2>1, FetchType
  <2>3. /\ Become(p, q) \/ Become(p, Raised)
        /\ req[p].pc = "work" /\ UNCHANGED <<wallet, ledger, last, torn, takenBack>>
    BY <1>8 DEF Work, At, rowVars, historyVars
  <2> HIDE DEF q
  <2> QED  BY <1>a, <1>b, <2>2, <2>3, IdleType
<1>9. CASE DeductWrite(p)
  BY <1>9, DeductWriteShaped
<1>10. CASE DeductLog(p)
  <2> DEFINE q == [req[p] EXCEPT !.pc = "window_inc"]
  <2>1. q \in Request /\ q.pc = "window_inc"
    BY <1>0, AtType, PCNames
  <2>2. /\ Become(p, q) /\ req[p].pc = "deduct_log" /\ ledger' = ledger + (-req[p].cost)
        /\ last' = Total(req[p].held) /\ UNCHANGED <<wallet, torn, takenBack>>
    BY <1>10 DEF DeductLog, LogRow, At, historyVars
  <2> HIDE DEF q
  <2>3. RowsDue(req[p]) = -req[p].cost /\ req[p].pc \in Unlogged
    BY <2>2 DEF RowsDue, Unlogged
  <2>4. q.pc \notin Unlogged /\ Affordable(q) /\ Fresh(q)
    BY <1>b, <2>1, NotWriting
  <2> QED  BY <2>1, <2>2, <2>3, <2>4 DEF Shaped, LogsARow
<1>11. CASE AdvanceWindow(p)
  <2> DEFINE q == [req[p] EXCEPT !.pc = "usage"]
  <2>1. q \in Request /\ q.pc = "usage"
    BY <1>0, AtType, PCNames
  <2>2. /\ Become(p, q) /\ req[p].pc = "window_inc"
        /\ UNCHANGED <<ledger, last, torn, takenBack>>
    BY <1>11 DEF AdvanceWindow, At, rowVars, historyVars
  <2>3. wallet'.open = wallet.open /\ wallet'.credits = wallet.credits
    BY <1>11, <1>0 DEF AdvanceWindow, WalletDoc
  <2> HIDE DEF q
  <2> QED  BY <1>a, <1>b, <2>1, <2>2, <2>3
<1>12. CASE RecordUsage(p)
  <2>1. /\ Become(p, Idle) /\ req[p].pc = "usage"
        /\ UNCHANGED <<wallet, ledger, last, torn, takenBack>>
    BY <1>12 DEF RecordUsage, At, historyVars
  <2> QED  BY <1>a, <1>b, <2>1, IdleType
<1>13. CASE AddWrite(p)
  BY <1>13, AddWriteShaped
<1>14. CASE AddLog(p)
  <2>0. req[p].pc = "add_log" /\ wallet' = wallet /\ takenBack' = takenBack
    BY <1>14 DEF AddLog, At, historyVars
  <2>1. CASE req[p].kind \in TransactionKinds
    <3>1. /\ Become(p, Idle) /\ ledger' = ledger + req[p].amount
          /\ last' = Total(req[p].held) /\ torn' = torn
      BY <1>14, <2>1 DEF AddLog, LogRow
    <3>2. RowsDue(req[p]) = req[p].amount /\ req[p].pc \in Unlogged
      BY <2>0 DEF RowsDue, Unlogged
    <3>3. Idle \in Request /\ Idle.pc \notin Unlogged /\ Affordable(Idle) /\ Fresh(Idle)
      BY <1>b, IdleType, NotWriting
    <3> QED  BY <2>0, <3>1, <3>2, <3>3 DEF Shaped, LogsARow
  <2>2. CASE req[p].kind \notin TransactionKinds
    <3>1. Become(p, Raised) /\ torn'
      BY <1>14, <2>2 DEF AddLog
    <3>2. Raised \in Request /\ Raised.pc \notin Busy
      BY <1>b, IdleType
    <3> QED  BY <2>0, <3>1, <3>2 DEF Shaped, Tears
  <2> QED  BY <2>1, <2>2
<1> QED  BY <1>1, <1>2, <1>3, <1>4, <1>5, <1>6, <1>7, <1>8, <1>9, <1>10, <1>11,
            <1>12, <1>13, <1>14 DEF WalletStep

LEMMA InitBooks == WalletInit => Books
<1> SUFFICES ASSUME WalletInit PROVE Books
  OBVIOUS
<1>1. /\ ~wallet.open /\ wallet.credits = NoCredits /\ ledger = 0 /\ takenBack = 0
      /\ \A p \in Requests : req[p] = Idle
  BY DEF WalletInit
<1>2. \A p \in Requests : req[p].pc \notin Unlogged /\ Affordable(req[p]) /\ Fresh(req[p])
  <2>1. Idle.pc \notin Busy
    BY IdleType DEF Busy, Unlogged
  <2> QED  BY <1>1, <2>1, IdleType, NotWriting
<1>3. Worth(NoCredits) = 0
  <2>1. \A b \in Buckets : NoCredits[b] = 0
    BY DEF NoCredits
  <2> QED  BY <2>1, BucketNames DEF Worth, Total, Positive
<1>4. Booked
  BY <1>1, <1>2, <1>3 DEF Booked
<1> QED  BY <1>1, <1>2, <1>4, InitBounded DEF Books, Unopened

LEMMA NextBooks == Books /\ [WalletNext]_walletVars => Books'
<1> SUFFICES ASSUME Books, [WalletNext]_walletVars PROVE Books'
  OBVIOUS
<1>0. Bounded' /\ \A p \in Requests : req[p] \in Request
  BY NextBounded DEF Books, Bounded, WalletTypeOK
<1>a. ASSUME NEW p \in Requests, NEW q \in Request, Become(p, q),
             q.pc \notin Busy, req[p].pc \notin Unlogged,
             UNCHANGED <<wallet, ledger, last, torn, takenBack>>
      PROVE  Books'
  <2>1. Shaped(p, q)
    BY <1>a, NotWriting DEF Shaped, Silent
  <2> QED  BY <1>0, <2>1, ShapeKeepsBooks
<1>b. /\ "wallet_read" \notin Busy /\ "usage" \notin Busy /\ "idle" \notin Busy
      /\ "raised" \notin Unlogged /\ "idle" \notin Unlogged
  BY DEF Busy, Unlogged
<1>1. ASSUME NEW p \in Requests, Asks(p)
      PROVE  Books'
  <2>1. PICK q \in Request : q.pc \in {"wallet_read", "usage"} /\ Call(p, q)
    BY <1>1, CallType DEF Books, Bounded
  <2>2. /\ Become(p, q) /\ req[p].pc = "idle"
        /\ UNCHANGED <<wallet, ledger, last, torn, takenBack>>
    BY <2>1, IdleType DEF Call, Become, rowVars, historyVars
  <2> QED  BY <1>a, <1>b, <2>1, <2>2
<1>2. ASSUME NEW p \in Requests, WalletStep(p)
      PROVE  Books'
  <2>1. PICK q \in Request : Shaped(p, q)
    BY <1>2, StepShaped
  <2> QED  BY <1>0, <2>1, ShapeKeepsBooks
<1>3. ASSUME NEW p \in Requests, Unwind(p)
      PROVE  Books'
  <2>1. /\ Become(p, Idle) /\ req[p].pc = "raised"
        /\ UNCHANGED <<wallet, ledger, last, torn, takenBack>>
    BY <1>3 DEF Unwind, At, rowVars, historyVars
  <2> QED  BY <1>a, <1>b, <2>1, IdleType
<1>4. CASE UNCHANGED <<wallet, req, ledger, last, torn, takenBack>>
  BY <1>0, <1>4 DEF Books, Unopened, Booked, Fresh, Affordable, Quiet
<1>5. CASE Restart
  <2>1. /\ \A p \in Requests : req'[p] = Idle
        /\ UNCHANGED <<wallet, ledger, last, takenBack>>
        /\ torn' = (torn \/ \E p \in Requests : req[p].pc \in Unlogged)
    BY <1>5 DEF Restart, rowVars, historyVars
  <2>2. \A p \in Requests : /\ req'[p].pc \notin Unlogged
                            /\ Affordable(req[p])' /\ Fresh(req[p])'
    BY <1>b, <2>1, IdleType, PCClasses DEF Affordable, Fresh
  <2>3. Unopened'
    BY <2>1 DEF Books, Unopened
  <2>4. ~torn' => Booked'
    BY <2>1, <2>2 DEF Books, Booked, Quiet
  <2> QED  BY <1>0, <2>2, <2>3, <2>4 DEF Books
<1> QED  BY <1>1, <1>2, <1>3, <1>4, <1>5
         DEF WalletNext, Asks, Tick, walletVars, rowVars, historyVars

LEMMA BooksInvariant == WalletSpec => []Books
BY InitBooks, NextBooks, PTL DEF WalletSpec

\* The newest transaction row shows the wallet's balance once every movement has
\* its row, unless movements overlapped or one was cut off before its row.
THEOREM LastRowInvariant == WalletSpec => []LastRowIsTheBalance
<1>1. Books => LastRowIsTheBalance
  BY DEF Books, Booked, LastRowIsTheBalance
<1> QED  BY <1>1, BooksInvariant, PTL

\* Under the same reservation the wallet holds no credits without a row for them.
THEOREM RowsCoverInvariant == WalletSpec => []RowsCoverTheWallet
<1>1. Books => RowsCoverTheWallet
  <2> SUFFICES ASSUME Books, ~torn, Quiet
               PROVE  Total(wallet.credits) <= ledger + takenBack
    BY DEF RowsCoverTheWallet
  <2>1. Worth(wallet.credits) <= ledger + takenBack
    BY DEF Books, Booked
  <2>2. wallet.credits \in Amounts /\ ledger \in Int /\ takenBack \in Nat
    BY WalletFields DEF Books, Bounded, WalletTypeOK
  <2> QED  BY <2>1, <2>2, WorthType
<1> QED  BY <1>1, BooksInvariant, PTL

-----------------------------------------------------------------------------
(* UsageWasCharged.  A handler that wrote its ai_usage row has still to      *)
(* advance the window and to write the usage row.  What those handlers will  *)
(* add is counted credit by credit, as a set, so that it needs no sum.       *)

\* The credits that handlers at the places pcs have been charged.
Carried(r, pcs) == {x \in Requests \X Nat : r[x[1]].pc \in pcs /\ x[2] \in 1..r[x[1]].cost}

ToCount == {"window_inc", "usage"}
ToAdvance == {"window_inc"}

ChargeInv ==
    /\ IsFiniteSet(Carried(req, ToCount)) /\ IsFiniteSet(Carried(req, ToAdvance))
    /\ usage + Cardinality(Carried(req, ToCount)) <= charged
    /\ wallet.used + Cardinality(Carried(req, ToAdvance)) <= charged

Brings(q, pcs) == IF q.pc \in pcs THEN q.cost ELSE 0

\* When one handler moves, only what it carries is exchanged.
LEMMA CarriedMove ==
    ASSUME req \in [Requests -> Request], NEW p \in Requests, NEW q \in Request, Become(p, q),
           NEW pcs, IsFiniteSet(Carried(req, pcs))
    PROVE  /\ IsFiniteSet(Carried(req', pcs))
           /\ Cardinality(Carried(req, pcs)) \in Nat /\ Cardinality(Carried(req', pcs)) \in Nat
           /\ Cardinality(Carried(req', pcs)) + Brings(req[p], pcs)
                = Cardinality(Carried(req, pcs)) + Brings(q, pcs)
<1> DEFINE mine == {p} \X Nat
           old == {p} \X (1..Brings(req[p], pcs))
           new == {p} \X (1..Brings(q, pcs))
           rest == Carried(req, pcs) \ mine
<1>1. req' \in [Requests -> Request] /\ req'[p] = q /\ \A s \in Requests \ {p} : req'[s] = req[s]
  BY DEF Become
<1>2. Brings(req[p], pcs) \in Nat /\ Brings(q, pcs) \in Nat
  BY RequestFields DEF Brings
<1>3. ASSUME NEW r \in [Requests -> Request], \A s \in Requests \ {p} : r[s] = req[s]
      PROVE  Carried(r, pcs) = rest \cup ({p} \X (1..Brings(r[p], pcs)))
  <2>1. ASSUME NEW x \in Requests \X Nat, x \notin mine
        PROVE  x \in Carried(r, pcs) <=> x \in rest
    BY <1>3, <2>1 DEF Carried
  <2>2. ASSUME NEW x \in mine
        PROVE  x \in Carried(r, pcs) <=> x \in {p} \X (1..Brings(r[p], pcs))
    BY <2>2 DEF Carried, Brings
  <2>3. {p} \X (1..Brings(r[p], pcs)) \subseteq mine
    BY DEF Brings, Nat
  <2> QED  BY <2>1, <2>2, <2>3 DEF Carried
<1>4. Carried(req, pcs) = rest \cup old /\ Carried(req', pcs) = rest \cup new
  BY <1>1, <1>3
<1>5. ASSUME NEW n \in Nat
      PROVE  /\ IsFiniteSet(rest \cup ({p} \X (1..n)))
             /\ Cardinality(rest \cup ({p} \X (1..n))) = Cardinality(rest) + n
             /\ Cardinality(rest) \in Nat
  <2> DEFINE piece == {p} \X (1..n)
  <2>1. /\ IsFiniteSet({p}) /\ Cardinality({p}) = 1
        /\ IsFiniteSet(1..n) /\ Cardinality(1..n) = n
    <3>1. Cardinality(1..n) = IF 1 > n THEN 0 ELSE n - 1 + 1
      BY FS_Interval
    <3>2. IsFiniteSet(1..n)
      BY FS_Interval
    <3>3. Cardinality(1..n) = n
      BY <3>1
    <3>4. IsFiniteSet({p}) /\ Cardinality({p}) = 1
      BY FS_Singleton
    <3> QED  BY <3>2, <3>3, <3>4
  <2>2. IsFiniteSet(piece) /\ Cardinality(piece) = n
    <3>1. IsFiniteSet(piece) /\ Cardinality(piece) = 1 * n
      BY ZenonT(30), <2>1, FS_Product
    <3> QED  BY <3>1
  <2>3. IsFiniteSet(rest) /\ Cardinality(rest) \in Nat
    BY FS_Difference, FS_CardinalityType
  <2>4. rest \cap piece = {}
    OBVIOUS
  <2>5. Cardinality(rest \cap piece) = 0
    BY <2>4, FS_EmptySet
  <2> HIDE DEF rest, piece
  <2>6. /\ IsFiniteSet(rest \cup piece)
        /\ Cardinality(rest \cup piece)
             = Cardinality(rest) + Cardinality(piece) - Cardinality(rest \cap piece)
    BY <2>2, <2>3, FS_Union
  <2>7. Cardinality(rest \cup piece) = Cardinality(rest) + n
    BY <2>2, <2>3, <2>5, <2>6
  <2> QED  BY <2>3, <2>6, <2>7 DEF piece
<1> HIDE DEF rest
<1> QED  BY <1>2, <1>4, <1>5

\* Nothing is counted, and nothing advanced, that the step does not pay for.
Pays(p) ==
    /\ Become(p, req'[p])
    /\ usage' + Brings(req'[p], ToCount) + charged <= usage + Brings(req[p], ToCount) + charged'
    /\ wallet'.used + Brings(req'[p], ToAdvance) + charged
         <= wallet.used + Brings(req[p], ToAdvance) + charged'

LEMMA PaysKeepsCharge ==
    ASSUME WalletTypeOK, WalletTypeOK', ChargeInv, NEW p \in Requests, Pays(p)
    PROVE  ChargeInv'
<1>0. /\ req \in [Requests -> Request] /\ req'[p] \in Request /\ Become(p, req'[p])
      /\ charged \in Nat /\ charged' \in Nat /\ usage \in Nat /\ usage' \in Nat
      /\ wallet.used \in Nat /\ wallet'.used \in Nat
  BY WalletFields DEF WalletTypeOK, Pays, WalletDoc
<1>1. ASSUME NEW pcs
      PROVE  Brings(req'[p], pcs) \in Nat /\ Brings(req[p], pcs) \in Nat
  BY <1>0, RequestFields DEF Brings
<1>2. /\ IsFiniteSet(Carried(req', ToCount))
      /\ usage' + Cardinality(Carried(req', ToCount)) <= charged'
  <2>1. /\ IsFiniteSet(Carried(req', ToCount))
        /\ Cardinality(Carried(req, ToCount)) \in Nat /\ Cardinality(Carried(req', ToCount)) \in Nat
        /\ Cardinality(Carried(req', ToCount)) + Brings(req[p], ToCount)
             = Cardinality(Carried(req, ToCount)) + Brings(req'[p], ToCount)
    BY <1>0, CarriedMove DEF ChargeInv
  <2> QED  BY <1>0, <1>1, <2>1 DEF ChargeInv, Pays
<1>3. /\ IsFiniteSet(Carried(req', ToAdvance))
      /\ wallet'.used + Cardinality(Carried(req', ToAdvance)) <= charged'
  <2>1. /\ IsFiniteSet(Carried(req', ToAdvance))
        /\ Cardinality(Carried(req, ToAdvance)) \in Nat
        /\ Cardinality(Carried(req', ToAdvance)) \in Nat
        /\ Cardinality(Carried(req', ToAdvance)) + Brings(req[p], ToAdvance)
             = Cardinality(Carried(req, ToAdvance)) + Brings(req'[p], ToAdvance)
    BY <1>0, CarriedMove DEF ChargeInv
  <2> QED  BY <1>0, <1>1, <2>1 DEF ChargeInv, Pays
<1> QED  BY <1>2, <1>3 DEF ChargeInv, ToCount, ToAdvance

\* A step that neither charges nor counts, of a handler that carries nothing.
LEMMA FreeStepPays ==
    ASSUME WalletTypeOK, NEW p \in Requests, Become(p, req'[p]),
           req[p].pc \notin ToCount,
           req'[p].pc \in ToCount => req'[p].pc = "usage" /\ req'[p].cost = 0,
           UNCHANGED <<charged, usage>>, wallet'.used = wallet.used \/ wallet'.used = 0
    PROVE  Pays(p)
<1>1. charged \in Nat /\ usage \in Nat /\ wallet.used \in Nat
  BY WalletFields DEF WalletTypeOK
<1>2. Brings(req[p], ToCount) = 0 /\ Brings(req[p], ToAdvance) = 0
  BY DEF Brings, ToCount, ToAdvance
<1>3. Brings(req'[p], ToCount) = 0 /\ Brings(req'[p], ToAdvance) = 0
  BY DEF Brings, ToCount, ToAdvance
<1> QED  BY <1>1, <1>2, <1>3 DEF Pays

LEMMA StepPays ==
    ASSUME WalletTypeOK, WalletTypeOK', NEW p \in Requests, WalletStep(p)
    PROVE  Pays(p)
<1>0. /\ req \in [Requests -> Request] /\ req[p] \in Request /\ wallet \in WalletDoc
      /\ req[p].cost \in Nat /\ charged \in Nat /\ usage \in Nat /\ wallet.used \in Nat
      /\ now \in Nat
  BY RequestFields, WalletFields DEF WalletTypeOK
<1>1. ASSUME NEW q, Become(p, q)
      PROVE  req'[p] = q /\ Become(p, req'[p])
  BY <1>0, <1>1 DEF Become
<1>2. ASSUME NEW q, Become(p, q), q.pc \notin ToCount, req[p].pc \notin ToCount,
             UNCHANGED <<charged, usage>>, wallet'.used = wallet.used \/ wallet'.used = 0
      PROVE  Pays(p)
  BY <1>1, <1>2, FreeStepPays
<1>3. ASSUME NEW q \in Request, NEW pc \in PCs, Become(p, [q EXCEPT !.pc = pc])
      PROVE  req'[p].pc = pc /\ req'[p].cost = q.cost
  <2>1. req'[p] = [q EXCEPT !.pc = pc]
    BY <1>1, <1>3
  <2> QED  BY <2>1, AtType
<1>4. CASE ReadWallet(p)
  <2> DEFINE q == [req[p] EXCEPT !.held = wallet.credits, !.at = now]
  <2>0. q \in Request
    BY <1>0, WalletFields DEF Request, Amounts
  <2>1. req[p].pc \notin ToCount /\ UNCHANGED <<wallet, charged, usage>>
    BY <1>4 DEF ReadWallet, At, ToCount, rowVars
  <2>2. CASE Become(p, Resumed(q))
    <3> HIDE DEF q
    <3>1. Resumed(q).pc \notin ToCount
      BY <2>0, ResumedType DEF ResumePCs, ToCount
    <3> QED  BY <1>2, <2>1, <2>2, <3>1
  <2>3. CASE \E c : Become(p, [q EXCEPT !.pc = "wallet_insert", !.held = c])
    <3> PICK c : Become(p, [q EXCEPT !.pc = "wallet_insert", !.held = c])
      BY <2>3
    <3>1. [q EXCEPT !.pc = "wallet_insert", !.held = c].pc = "wallet_insert"
      <4> HIDE DEF q
      <4> QED  BY <2>0 DEF Request
    <3>2. "wallet_insert" \notin ToCount
      BY DEF ToCount
    <3> HIDE DEF q
    <3> QED  BY <1>2, <2>1, <3>1, <3>2
  <2>4. CASE Become(p, [q EXCEPT !.pc = "refill", !.held["daily"] = DAILY_CREDITS])
    <3>1. [q EXCEPT !.pc = "refill", !.held["daily"] = DAILY_CREDITS].pc = "refill"
      <4> HIDE DEF q
      <4> QED  BY <2>0 DEF Request
    <3>2. "refill" \notin ToCount
      BY DEF ToCount
    <3> HIDE DEF q
    <3> QED  BY <1>2, <2>1, <2>4, <3>1, <3>2
  <2> QED  BY <1>4, <2>2, <2>3, <2>4 DEF ReadWallet
<1>5. CASE InsertWallet(p)
  <2> DEFINE r == [req[p] EXCEPT !.pc = "welcome_log"]
  <2>1. /\ req[p].pc \notin ToCount /\ UNCHANGED <<charged, usage>>
        /\ wallet'.used = wallet.used
    BY <1>0, <1>5 DEF InsertWallet, At, ToCount, rowVars, WalletDoc
  <2>2. r.pc \notin ToCount /\ Raised.pc \notin ToCount
    BY <1>0, AtType, PCNames, IdleType DEF ToCount
  <2>3. Become(p, r) \/ Become(p, Raised)
    BY <1>5 DEF InsertWallet
  <2> HIDE DEF r
  <2> QED  BY <1>2, <2>1, <2>2, <2>3
<1>6. CASE WelcomeLog(p)
  <2>1. [req[p] EXCEPT !.pc = "daily_log"].pc \notin ToCount
    BY <1>0, AtType, PCNames DEF ToCount
  <2>2. req[p].pc \notin ToCount /\ UNCHANGED <<wallet, charged, usage>>
    BY <1>6 DEF WelcomeLog, At, ToCount
  <2> QED  BY <1>2, <1>6, <2>1, <2>2 DEF WelcomeLog
<1>7. CASE Refill(p)
  <2>1. [req[p] EXCEPT !.pc = "daily_log"].pc \notin ToCount
    BY <1>0, AtType, PCNames DEF ToCount
  <2>2. req[p].pc \notin ToCount /\ UNCHANGED <<charged, usage>> /\ wallet'.used = wallet.used
    BY <1>0, <1>7 DEF Refill, At, ToCount, rowVars, WalletDoc
  <2> QED  BY <1>2, <1>7, <2>1, <2>2 DEF Refill
<1>8. CASE DailyLog(p)
  <2>1. Resumed(req[p]).pc \notin ToCount
    BY <1>0, ResumedType DEF ResumePCs, ToCount
  <2>2. req[p].pc \notin ToCount /\ UNCHANGED <<wallet, charged, usage>>
    BY <1>8 DEF DailyLog, At, ToCount
  <2> QED  BY <1>2, <1>8, <2>1, <2>2 DEF DailyLog
<1>9. CASE ReadWindow(p)
  <2> DEFINE q == [req[p] EXCEPT !.pc = "window_reset", !.at = now]
  <2>1. q.pc \notin ToCount /\ Guarded(req[p], wallet.used).pc \notin ToCount
    BY <1>0, GuardedType DEF Request, ToCount
  <2>2. req[p].pc \notin ToCount /\ UNCHANGED <<wallet, charged, usage>>
    BY <1>9 DEF ReadWindow, At, ToCount, rowVars
  <2>3. Become(p, q) \/ Become(p, Guarded(req[p], wallet.used))
    BY <1>9 DEF ReadWindow
  <2> HIDE DEF q
  <2> QED  BY <1>2, <2>1, <2>2, <2>3
<1>10. CASE ResetWindow(p)
  <2>1. Guarded(req[p], 0).pc \notin ToCount
    BY <1>0, GuardedType DEF ToCount
  <2>2. req[p].pc \notin ToCount /\ UNCHANGED <<charged, usage>> /\ wallet'.used = 0
    BY <1>0, <1>10 DEF ResetWindow, At, ToCount, rowVars, WalletDoc
  <2> QED  BY <1>2, <1>10, <2>1, <2>2 DEF ResetWindow
<1>11. CASE Work(p)
  <2> DEFINE w == [req[p] EXCEPT !.precheck = FALSE]
  <2>1. w \in Request /\ "window" \in Callers
    BY <1>0 DEF Request, Callers
  <2> HIDE DEF w
  <2>2. Fetch(w, "window").pc \notin ToCount /\ Raised.pc \notin ToCount
    BY <2>1, FetchType, IdleType DEF ToCount
  <2>3. req[p].pc \notin ToCount /\ UNCHANGED <<wallet, charged, usage>>
    BY <1>11 DEF Work, At, ToCount, rowVars
  <2>4. Become(p, Fetch(w, "window")) \/ Become(p, Raised)
    BY <1>11 DEF Work, w
  <2> QED  BY <1>2, <2>2, <2>3, <2>4
<1>12. CASE DeductWrite(p)
  <2> DEFINE new == Deducted(req[p].held, req[p].cost)
             r == [req[p] EXCEPT !.pc = "deduct_log", !.held = new]
  <2>1. r.pc \notin ToCount
    <3> HIDE DEF new
    <3> QED  BY <1>0 DEF Request, ToCount
  <2>2. req[p].pc \notin ToCount /\ UNCHANGED <<charged, usage>> /\ wallet'.used = wallet.used
    BY <1>0, <1>12 DEF DeductWrite, At, ToCount, rowVars, WalletDoc
  <2>3. Become(p, r)
    BY <1>12 DEF DeductWrite
  <2> HIDE DEF r
  <2> QED  BY <1>2, <2>1, <2>2, <2>3
<1>13. CASE DeductLog(p)
  <2>1. req'[p].pc = "window_inc" /\ req'[p].cost = req[p].cost /\ Become(p, req'[p])
    BY <1>0, <1>1, <1>3, <1>13, PCNames DEF DeductLog
  <2>2. /\ req[p].pc = "deduct_log" /\ UNCHANGED <<wallet, usage>>
        /\ charged' = charged + req[p].cost
    BY <1>13 DEF DeductLog, At
  <2> QED  BY <1>0, <2>1, <2>2 DEF Pays, Brings, ToCount, ToAdvance
<1>14. CASE AdvanceWindow(p)
  <2>1. req'[p].pc = "usage" /\ req'[p].cost = req[p].cost /\ Become(p, req'[p])
    BY <1>0, <1>1, <1>3, <1>14, PCNames DEF AdvanceWindow
  <2>2. /\ req[p].pc = "window_inc" /\ UNCHANGED <<charged, usage>>
        /\ wallet'.used = wallet.used + req[p].cost
    BY <1>0, <1>14 DEF AdvanceWindow, At, rowVars, WalletDoc
  <2> QED  BY <1>0, <2>1, <2>2 DEF Pays, Brings, ToCount, ToAdvance
<1>15. CASE RecordUsage(p)
  <2>1. req'[p] = Idle /\ Become(p, req'[p])
    BY <1>1, <1>15 DEF RecordUsage
  <2>2. /\ req[p].pc = "usage" /\ UNCHANGED <<charged, wallet>>
        /\ usage' = usage + req[p].cost
    BY <1>15 DEF RecordUsage, At
  <2> QED  BY <1>0, <2>1, <2>2, IdleType DEF Pays, Brings, ToCount, ToAdvance
<1>16. CASE AddWrite(p)
  <2> DEFINE new == req[p].held[req[p].bucket] + req[p].amount
             r == [req[p] EXCEPT !.pc = "add_log", !.held[req[p].bucket] = new]
  <2>1. r.pc \notin ToCount
    <3> HIDE DEF new
    <3> QED  BY <1>0 DEF Request, ToCount
  <2>2. req[p].pc \notin ToCount /\ UNCHANGED <<charged, usage>> /\ wallet'.used = wallet.used
    BY <1>0, <1>16 DEF AddWrite, At, ToCount, rowVars, WalletDoc
  <2>3. Become(p, r)
    BY <1>16 DEF AddWrite
  <2> HIDE DEF r
  <2> QED  BY <1>2, <2>1, <2>2, <2>3
<1>17. CASE AddLog(p)
  <2>1. Idle.pc \notin ToCount /\ Raised.pc \notin ToCount
    BY IdleType DEF ToCount
  <2>2. req[p].pc \notin ToCount /\ UNCHANGED <<wallet, charged, usage>>
    BY <1>17 DEF AddLog, At, ToCount
  <2> QED  BY <1>2, <1>17, <2>1, <2>2 DEF AddLog
<1> QED  BY <1>4, <1>5, <1>6, <1>7, <1>8, <1>9, <1>10, <1>11, <1>12, <1>13, <1>14, <1>15,
            <1>16, <1>17 DEF WalletStep

LEMMA NothingCarried ==
    ASSUME NEW r, \A p \in Requests : r[p] = Idle
    PROVE  \A pcs \in {ToCount, ToAdvance} :
              /\ IsFiniteSet(Carried(r, pcs)) /\ Cardinality(Carried(r, pcs)) = 0
<1>1. ASSUME NEW pcs \in {ToCount, ToAdvance}
      PROVE  Carried(r, pcs) = {}
  BY IdleType DEF Carried, ToCount, ToAdvance
<1> QED  BY <1>1, FS_EmptySet

LEMMA NextCharge == WalletTypeOK /\ ChargeInv /\ [WalletNext]_walletVars => ChargeInv'
<1> SUFFICES ASSUME WalletTypeOK, ChargeInv, [WalletNext]_walletVars PROVE ChargeInv'
  OBVIOUS
<1>0. WalletTypeOK'
  BY NextType
<1>1. ASSUME NEW p \in Requests, Asks(p)
      PROVE  ChargeInv'
  <2>1. PICK q \in Request : /\ q.pc \in {"wallet_read", "usage"}
                             /\ q.pc = "usage" => q.cost = 0
                             /\ Call(p, q)
    BY <1>1, CallType
  <2>2. /\ req[p] = Idle /\ req'[p] = q /\ Become(p, req'[p])
        /\ UNCHANGED <<wallet, charged, usage>>
    BY <2>1 DEF Call, Become, WalletTypeOK, rowVars
  <2>3. Pays(p)
    BY <2>1, <2>2, IdleType, FreeStepPays DEF ToCount
  <2> QED  BY <1>0, <2>3, PaysKeepsCharge
<1>2. ASSUME NEW p \in Requests, WalletStep(p)
      PROVE  ChargeInv'
  BY <1>0, <1>2, StepPays, PaysKeepsCharge
<1>3. ASSUME NEW p \in Requests, Unwind(p)
      PROVE  ChargeInv'
  <2>1. /\ req[p].pc = "raised" /\ req'[p] = Idle /\ Become(p, req'[p])
        /\ UNCHANGED <<wallet, charged, usage>>
    BY <1>3 DEF Unwind, At, Become, WalletTypeOK, rowVars
  <2>2. Pays(p)
    BY <2>1, IdleType, FreeStepPays DEF ToCount
  <2> QED  BY <1>0, <2>2, PaysKeepsCharge
<1>4. CASE UNCHANGED <<wallet, req, charged, usage>>
  BY <1>4 DEF ChargeInv, Carried
<1>5. CASE Restart
  <2>1. (\A p \in Requests : req'[p] = Idle) /\ UNCHANGED <<wallet, charged, usage>>
    BY <1>5 DEF Restart, rowVars
  <2>2. \A pcs \in {ToCount, ToAdvance} :
           IsFiniteSet(Carried(req', pcs)) /\ Cardinality(Carried(req', pcs)) = 0
    BY <2>1, NothingCarried
  <2>3. usage <= charged /\ wallet.used <= charged
    BY FS_CardinalityType, WalletFields DEF ChargeInv, WalletTypeOK
  <2>4. usage' \in Nat /\ wallet'.used \in Nat
    BY <1>0, WalletFields DEF WalletTypeOK, WalletDoc
  <2> QED  BY <2>1, <2>2, <2>3, <2>4 DEF ChargeInv, ToCount, ToAdvance
<1> QED  BY <1>1, <1>2, <1>3, <1>4, <1>5 DEF WalletNext, Asks, Tick, walletVars, rowVars

\* spend() writes the ai_usage row before it advances the window and before it
\* records the usage: neither ever shows credits that were not charged, however
\* many handlers spend at once and wherever they are cut off.
THEOREM UsageWasChargedInvariant == WalletSpec => []UsageWasCharged
<1>1. WalletInit => ChargeInv
  <2> SUFFICES ASSUME WalletInit PROVE ChargeInv
    OBVIOUS
  <2>1. \A pcs \in {ToCount, ToAdvance} :
           IsFiniteSet(Carried(req, pcs)) /\ Cardinality(Carried(req, pcs)) = 0
    BY NothingCarried DEF WalletInit
  <2> QED  BY <2>1 DEF WalletInit, ChargeInv
<1>2. WalletTypeOK /\ ChargeInv => UsageWasCharged
  BY FS_CardinalityType, WalletFields DEF ChargeInv, UsageWasCharged, WalletTypeOK
<1> QED  BY <1>1, <1>2, NextCharge, InitType, NextType, PTL DEF WalletSpec

-----------------------------------------------------------------------------
(* What a payment handler has in hand at each place *)

OrderPCs == {"order_insert", "sessions_insert", "sessions_log", "order_fulfil",
             "order_credited", "discount_use"}
TxnPCs == {"receipt_insert", "receipt_credit", "receipt_next"}
GrantPCs == {"plan_assign", "plan_credit", "plan_subscribe"}

InHand(j) ==
    /\ j.pc = "none" => j = NoJob
    /\ j.pc \in OrderPCs => j.order \in Orders /\ j.txn = NoTxn
    /\ j.pc \notin OrderPCs => j.order = NoOrder
    /\ j.pc \notin TxnPCs \cup GrantPCs => j.txn = NoTxn
    /\ j.event # NoEvent => j.txn = NoTxn
    /\ j.pc \in TxnPCs => j.txn \in Txns /\ j.event = NoEvent
    /\ j.pc \in GrantPCs => \/ j.event \in Events
                            \/ j.event = NoEvent /\ j.txn \in Txns /\ TxnProduct[j.txn] # "pack"
    /\ j.pc = "plan_credit" => MonthlyCredits[PlanOf(j)] > 0
    /\ j.pc \in {"plan_free", "plan_cancel"} => j.event \in Events

\* The places at which a handler awaits the wallet, and those of the wallet
\* call before and after its write.
Waiting == {"order_credited", "receipt_next", "plan_subscribe"}
Before == {"wallet_read", "wallet_insert", "welcome_log", "refill", "daily_log", "add_write"}

\* A payment handler and the wallet call that it awaits.
Paired(j, r) ==
    \/ r = Idle
    \/ j = NoJob
    \/ /\ j.pc \in Waiting
       /\ \/ r.pc = "raised"
          \/ r.pc \in Before \cup {"add_log"} /\ r.after = "add"

Hands == \A p \in Requests : InHand(job[p]) /\ Paired(job[p], req[p])

LEMMA NoJobType == NoJob \in Job /\ NoJob.pc = "none" /\ InHand(NoJob)
BY DEF NoJob, Job, JobPCs, InHand, OrderPCs, TxnPCs, GrantPCs

LEMMA JobFields ==
    ASSUME NEW j \in Job
    PROVE  /\ j.pc \in JobPCs /\ j.order \in Orders \cup {NoOrder}
           /\ j.txn \in Txns \cup {NoTxn} /\ j.event \in Events \cup {NoEvent}
           /\ j.todo \subseteq Txns /\ j.kind \in {"credits", "interview_sessions"}
           /\ j.discount \in BOOLEAN
BY DEF Job

\* The handler goes on to pc with what it has.
LEMMA AdvanceType ==
    ASSUME NEW j \in Job, NEW pc \in JobPCs
    PROVE  LET k == [j EXCEPT !.pc = pc]
           IN  /\ k \in Job /\ k.pc = pc
               /\ k.order = j.order /\ k.txn = j.txn /\ k.event = j.event /\ k.todo = j.todo
BY DEF Job

-----------------------------------------------------------------------------
(* Payments move the wallet only as CreditWallet says *)

LEMMA MonthlyIsPurchase ==
    ASSUME NEW j \in Job, InHand(j), j.pc = "plan_credit"
    PROVE  MonthlyCredits[PlanOf(j)] \in Purchases
<1>1. PlanOf(j) \in Plans
  BY JobFields, PaymentAssumption DEF InHand, PlanOf, GrantPCs
<1> QED  BY <1>1, PaymentAssumption DEF InHand

LEMMA PaymentMovesWallet ==
    ASSUME job \in [Requests -> Job], Hands, [Next]_allVars
    PROVE  [WalletNext]_walletVars
<1>1. ASSUME NEW p \in Requests, CallWallet(p)
      PROVE  WalletNext
  BY <1>1 DEF CallWallet, WalletNext, WalletCall
<1>2. ASSUME NEW p \in Requests, StepWallet(p) \/ UnwindJob(p)
      PROVE  WalletNext
  BY <1>2 DEF StepWallet, UnwindJob, WalletNext
<1>3. ASSUME NEW p \in Requests, FulfilCredits(p) \/ CreditPack(p)
      PROVE  WalletNext
  <2>1. "purchase" \in AddKinds /\ PackCredits \in Purchases
    BY PaymentAssumption DEF AddKinds
  <2>2. AddCredits(p, PackCredits, "purchased", "purchase")
    BY <1>3 DEF FulfilCredits, CreditPack
  <2> QED  BY <2>1, <2>2, BucketNames DEF WalletNext
<1>4. ASSUME NEW p \in Requests, CreditMonthly(p)
      PROVE  WalletNext
  <2>1. "plan_credit" \in AddKinds /\ MonthlyCredits[PlanOf(job[p])] \in Purchases
    BY <1>4, MonthlyIsPurchase DEF AddKinds, CreditMonthly, JobAt, Hands
  <2>2. AddCredits(p, MonthlyCredits[PlanOf(job[p])], "bonus", "plan_credit")
    BY <1>4 DEF CreditMonthly
  <2> QED  BY <2>1, <2>2, BucketNames DEF WalletNext
<1>5. ASSUME NEW p \in Requests,
             \/ InsertOrder(p) \/ InsertSessions(p) \/ LogSessions(p) \/ MarkCredited(p)
             \/ CountUse(p) \/ FindReceipt(p) \/ InsertReceipt(p) \/ ReceiptDone(p)
             \/ AssignPlan(p) \/ Subscribe(p) \/ FreePlan(p) \/ CancelSubscription(p)
      PROVE  UNCHANGED walletVars
  BY <1>5 DEF InsertOrder, InsertSessions, LogSessions, MarkCredited, CountUse, FindReceipt,
              InsertReceipt, ReceiptDone, AssignPlan, Subscribe, FreePlan, CancelSubscription
<1>6. ASSUME NEW p \in Requests,
             \/ \E o \in Orders, kind \in {"credits", "interview_sessions"},
                   discount \in BOOLEAN : CreateOrder(p, o, kind, discount)
             \/ \E o \in Orders : ConfirmOrder(p, o)
             \/ \E todo \in SUBSET Txns : VerifyReceipt(p, todo)
             \/ \E e \in Events : Webhook(p, e)
      PROVE  UNCHANGED walletVars
  BY <1>6 DEF CreateOrder, ConfirmOrder, VerifyReceipt, Webhook
<1>7. CASE (\E o \in Orders : Pay(o)) \/ (\E e \in Events : OpenSubscription(e))
  BY <1>7 DEF Pay, OpenSubscription
<1>8. CASE PassTime \/ RestartServer
  BY <1>8 DEF PassTime, RestartServer, WalletNext
<1>9. CASE UNCHANGED allVars
  BY <1>9 DEF allVars
<1> QED  BY <1>1, <1>2, <1>3, <1>4, <1>5, <1>6, <1>7, <1>8, <1>9
         DEF Next, OrderStep, ReceiptStep, PlanStep

-----------------------------------------------------------------------------
(* The call of add_credits that a payment awaits *)

\* A step of the wallet moves one handler.
LEMMA StepMovesOne ==
    ASSUME NEW p \in Requests, WalletStep(p)
    PROVE  \E q : Become(p, q)
BY DEF WalletStep, ReadWallet, InsertWallet, WelcomeLog, Refill, DailyLog, ReadWindow,
       ResetWindow, Work, DeductWrite, DeductLog, AdvanceWindow, RecordUsage, AddWrite, AddLog

LEMMA CopyType ==
    ASSUME NEW q \in Request, NEW c \in Amounts, NEW t \in Nat
    PROVE  LET r == [q EXCEPT !.held = c, !.at = t]
           IN  r \in Request /\ r.after = q.after
BY DEF Request, Amounts

\* It reads or opens or refills the wallet, writes it, adds its row and is over,
\* or it raises, before its write or after.
LEMMA AddCallStep ==
    ASSUME WalletTypeOK, NEW p \in Requests, WalletStep(p),
           req[p].after = "add", req[p].pc \in Before \cup {"add_log"}
    PROVE  \/ /\ At(p, "add_write")
              /\ req'[p].pc = "add_log" /\ req'[p].after = "add"
           \/ /\ ~At(p, "add_write") /\ ~At(p, "add_log")
              /\ req'[p].pc \in Before /\ req'[p].after = "add"
           \/ ~At(p, "add_write") /\ req'[p].pc = "raised"
           \/ At(p, "add_log") /\ req'[p] = Idle
<1> DEFINE GoesOn(r) == r.pc \in Before /\ r.after = "add"
<1>0. /\ req \in [Requests -> Request] /\ req[p] \in Request
      /\ wallet \in WalletDoc /\ now \in Nat
  BY DEF WalletTypeOK
<1>1. ASSUME NEW q \in Request, q.after = "add"
      PROVE  GoesOn(Resumed(q))
  <2>1. Resumed(q) = [q EXCEPT !.pc = "add_write"]
    BY <1>1 DEF Resumed
  <2>2. "add_write" \in PCs
    BY PCNames
  <2> QED  BY <1>1, <2>1, <2>2, AtType DEF Before
<1>2. ASSUME NEW q, Become(p, q)
      PROVE  req'[p] = q
  BY <1>0, <1>2 DEF Become
<1>3. CASE ReadWallet(p)
  <2> DEFINE q == [req[p] EXCEPT !.held = wallet.credits, !.at = now]
  <2>1. q \in Request /\ q.after = "add"
    BY <1>0, WalletFields, CopyType
  <2>2. ~At(p, "add_write") /\ ~At(p, "add_log")
    BY <1>3 DEF ReadWallet, At
  <2>3. CASE Become(p, Resumed(q))
    <3>1. GoesOn(Resumed(q))
      BY <1>1, <2>1
    <3> QED  BY <1>2, <2>2, <2>3, <3>1
  <2>4. CASE Become(p, [q EXCEPT !.pc = "refill", !.held["daily"] = DAILY_CREDITS])
    <3>1. GoesOn([q EXCEPT !.pc = "refill", !.held["daily"] = DAILY_CREDITS])
      <4> HIDE DEF q
      <4> QED  BY <2>1, PCNames DEF Before, Request
    <3> QED  BY <1>2, <2>2, <2>4, <3>1
  <2>5. CASE \E c : Become(p, [q EXCEPT !.pc = "wallet_insert", !.held = c])
    <3> PICK c : Become(p, [q EXCEPT !.pc = "wallet_insert", !.held = c])
      BY <2>5
    <3>1. GoesOn([q EXCEPT !.pc = "wallet_insert", !.held = c])
      <4> HIDE DEF q
      <4> QED  BY <2>1, PCNames DEF Before, Request
    <3> QED  BY <1>2, <2>2, <3>1
  <2> QED  BY <1>3, <2>3, <2>4, <2>5 DEF ReadWallet
<1>4. CASE InsertWallet(p)
  <2>1. ~At(p, "add_write") /\ ~At(p, "add_log")
    BY <1>4 DEF InsertWallet, At
  <2>2. GoesOn([req[p] EXCEPT !.pc = "welcome_log"])
    BY <1>0, AtType, PCNames DEF Before
  <2>3. req'[p] \in {Raised, [req[p] EXCEPT !.pc = "welcome_log"]}
    BY <1>2, <1>4 DEF InsertWallet
  <2> QED  BY <2>1, <2>2, <2>3, IdleType
<1>5. CASE WelcomeLog(p)
  <2>1. ~At(p, "add_write") /\ ~At(p, "add_log")
    BY <1>5 DEF WelcomeLog, At
  <2>2. GoesOn([req[p] EXCEPT !.pc = "daily_log"])
    BY <1>0, AtType, PCNames DEF Before
  <2> QED  BY <1>2, <1>5, <2>1, <2>2 DEF WelcomeLog
<1>6. CASE Refill(p)
  <2>1. ~At(p, "add_write") /\ ~At(p, "add_log")
    BY <1>6 DEF Refill, At
  <2>2. GoesOn([req[p] EXCEPT !.pc = "daily_log"])
    BY <1>0, AtType, PCNames DEF Before
  <2> QED  BY <1>2, <1>6, <2>1, <2>2 DEF Refill
<1>7. CASE DailyLog(p)
  <2>1. ~At(p, "add_write") /\ ~At(p, "add_log")
    BY <1>7 DEF DailyLog, At
  <2> QED  BY <1>0, <1>1, <1>2, <1>7, <2>1 DEF DailyLog
<1>8. CASE AddWrite(p)
  <2> DEFINE q == req[p]
             new == q.held[q.bucket] + q.amount
             r == [q EXCEPT !.pc = "add_log", !.held[q.bucket] = new]
  <2>1. Become(p, r) /\ At(p, "add_write")
    BY <1>8 DEF AddWrite
  <2>2. r.pc = "add_log" /\ r.after = "add"
    BY <1>0 DEF Request
  <2> QED  BY <1>2, <2>1, <2>2
<1>9. CASE AddLog(p)
  <2>1. At(p, "add_log") /\ ~At(p, "add_write") /\ req'[p] \in {Idle, Raised}
    BY <1>2, <1>9 DEF AddLog, At
  <2> QED  BY <2>1, IdleType
<1>10. CASE \/ ReadWindow(p) \/ ResetWindow(p) \/ Work(p) \/ DeductWrite(p) \/ DeductLog(p)
            \/ AdvanceWindow(p) \/ RecordUsage(p)
  BY <1>10 DEF ReadWindow, ResetWindow, Work, DeductWrite, DeductLog, AdvanceWindow,
               RecordUsage, At, Before
<1> QED  BY <1>3, <1>4, <1>5, <1>6, <1>7, <1>8, <1>9, <1>10 DEF WalletStep

-----------------------------------------------------------------------------
(* Hands: every payment handler has what its place requires *)

LEMMA JobMove ==
    ASSUME job \in [Requests -> Job], Hands, NEW p \in Requests, NEW j \in Job, InHand(j),
           job' = [job EXCEPT ![p] = j], Paired(j, req'[p]),
           \A q \in Requests \ {p} : req'[q] = req[q]
    PROVE  job' \in [Requests -> Job] /\ Hands'
<1>1. \A q \in Requests : job'[q] = IF q = p THEN j ELSE job[q]
  OBVIOUS
<1>2. ASSUME NEW q \in Requests
      PROVE  InHand(job'[q]) /\ Paired(job'[q], req'[q])
  BY <1>1 DEF Hands
<1> QED  BY <1>2 DEF Hands

\* The places a handler may go on to, from where it is.
LEMMA AdvanceInHand ==
    ASSUME NEW j \in Job, InHand(j), NEW pc \in JobPCs,
           \/ j.pc \in OrderPCs /\ pc \in OrderPCs
           \/ j.pc \in TxnPCs /\ pc \in TxnPCs
           \/ j.pc \in GrantPCs /\ pc \in {"plan_assign", "plan_subscribe"}
           \/ j.pc \in GrantPCs /\ pc = "plan_credit" /\ MonthlyCredits[PlanOf(j)] > 0
           \/ j.pc = "receipt_insert" /\ pc = "plan_assign" /\ TxnProduct[j.txn] # "pack"
           \/ j.pc = "plan_free" /\ pc = "plan_cancel"
    PROVE  [j EXCEPT !.pc = pc] \in Job /\ InHand([j EXCEPT !.pc = pc])
<1> DEFINE k == [j EXCEPT !.pc = pc]
<1>1. /\ k \in Job /\ k.pc = pc
      /\ k.order = j.order /\ k.txn = j.txn /\ k.event = j.event
  BY AdvanceType
<1>2. PlanOf(k) = PlanOf(j)
  BY <1>1 DEF PlanOf
<1> HIDE DEF k
<1>3. InHand(k)
  BY <1>1, <1>2 DEF InHand, OrderPCs, TxnPCs, GrantPCs
<1> QED  BY <1>1, <1>3 DEF k

LEMMA NextHands ==
    ASSUME WalletTypeOK, job \in [Requests -> Job], Hands, [Next]_allVars
    PROVE  job' \in [Requests -> Job] /\ Hands'
<1> DEFINE Moves(p, j) == /\ j \in Job /\ InHand(j) /\ job' = [job EXCEPT ![p] = j]
                          /\ Paired(j, req'[p])
                          /\ \A q \in Requests \ {p} : req'[q] = req[q]
<1> DEFINE Good == job' \in [Requests -> Job] /\ Hands'
<1>0. ASSUME NEW p \in Requests, NEW j, Moves(p, j)
      PROVE  Good
  BY <1>0, JobMove
<1>1. ASSUME NEW p \in Requests, req[p] = Idle, UNCHANGED req, NEW j,
             job' = [job EXCEPT ![p] = j], j \in Job, InHand(j)
      PROVE  Good
  <2>1. Moves(p, j)
    BY <1>1 DEF Paired
  <2> QED  BY <1>0, <2>1
<1>2. ASSUME NEW p \in Requests, UNCHANGED job, NEW q, Become(p, q), Paired(job[p], q)
      PROVE  Good
  <2>1. Moves(p, job[p])
    BY <1>2 DEF Hands, WalletTypeOK, Become
  <2> QED  BY <1>0, <2>1
<1>3. ASSUME NEW p \in Requests, JobAt(p, job[p].pc), UNCHANGED req, NEW pc \in JobPCs,
             Advance(p, pc),
             InHand([job[p] EXCEPT !.pc = pc]) /\ [job[p] EXCEPT !.pc = pc] \in Job
      PROVE  Good
  <2>1. job' = [job EXCEPT ![p] = [job[p] EXCEPT !.pc = pc]]
    BY <1>3 DEF Advance
  <2> QED  BY <1>1, <1>3, <2>1 DEF JobAt
<1>4. ASSUME NEW p \in Requests, req[p] = Idle, UNCHANGED req, Finish(p)
      PROVE  Good
  BY <1>1, <1>4, NoJobType DEF Finish
<1> HIDE DEF Good, Moves
<1>5. ASSUME NEW p \in Requests, CallWallet(p)
      PROVE  Good
  <2>1. PICK q : Become(p, q)
    BY <1>5 DEF CallWallet, GetWallet, AdjustWallet, Spend, CheckedService, ChatMessage,
                Call, Become
  <2> QED  BY <1>2, <1>5, <2>1 DEF CallWallet, Paired
<1>6. ASSUME NEW p \in Requests, StepWallet(p)
      PROVE  Good
  <2>1. WalletStep(p) /\ UNCHANGED job
    BY <1>6 DEF StepWallet
  <2>2. PICK q : Become(p, q)
    BY <2>1, StepMovesOne
  <2>3. req'[p] = q
    BY <2>2 DEF Become, WalletTypeOK
  <2>4. req[p].pc \notin {"idle", "raised"}
    BY <2>1 DEF WalletStep, ReadWallet, InsertWallet, WelcomeLog, Refill, DailyLog, ReadWindow,
       ResetWindow, Work, DeductWrite, DeductLog, AdvanceWindow, RecordUsage, AddWrite, AddLog, At
  <2>5. Paired(job[p], req[p])
    BY DEF Hands
  <2>6. Paired(job[p], q)
    <3>1. CASE job[p] = NoJob
      BY <3>1 DEF Paired
    <3>2. CASE job[p] # NoJob
      <4>1. job[p].pc \in Waiting /\ req[p].pc \in Before \cup {"add_log"} /\ req[p].after = "add"
        BY <2>4, <2>5, <3>2, IdleType DEF Paired
      <4> QED  BY <2>1, <2>3, <4>1, AddCallStep DEF Paired
    <3> QED  BY <3>1, <3>2
  <2> QED  BY <1>2, <2>1, <2>2, <2>6
<1>7. ASSUME NEW p \in Requests, UnwindJob(p)
      PROVE  Good
  <2>1. Moves(p, NoJob)
    BY <1>7, NoJobType DEF UnwindJob, Unwind, Become, Finish, Moves, Paired
  <2> QED  BY <1>0, <2>1
<1>8. ASSUME NEW p \in Requests,
             NEW j, j \in Job, InHand(j), NEW op, Begin(p, op, j), UNCHANGED req
      PROVE  Good
  BY <1>1, <1>8 DEF Begin
<1>9. ASSUME NEW p \in Requests, NEW o \in Orders, NEW kind \in {"credits", "interview_sessions"},
             NEW discount \in BOOLEAN, CreateOrder(p, o, kind, discount)
      PROVE  Good
  <2> DEFINE j == [NoJob EXCEPT !.pc = "order_insert", !.order = o,
                                !.kind = kind, !.discount = discount]
  <2>1. j \in Job /\ InHand(j)
    BY DEF NoJob, Job, JobPCs, InHand, OrderPCs, TxnPCs, GrantPCs
  <2>2. Begin(p, "order", j) /\ UNCHANGED req
    BY <1>9 DEF CreateOrder, walletVars
  <2> QED  BY <1>8, <2>1, <2>2
<1>10. ASSUME NEW p \in Requests, NEW o \in Orders, ConfirmOrder(p, o)
       PROVE  Good
  <2> DEFINE pc == IF order[o].kind = "credits" THEN "order_fulfil" ELSE "sessions_insert"
             j == [NoJob EXCEPT !.order = o, !.pc = pc]
  <2>1. j \in Job /\ InHand(j)
    BY DEF NoJob, Job, JobPCs, InHand, OrderPCs, TxnPCs, GrantPCs
  <2>2. Begin(p, "status", j) /\ UNCHANGED req
    BY <1>10 DEF ConfirmOrder, walletVars
  <2> QED  BY <1>8, <2>1, <2>2
<1>11. ASSUME NEW p \in Requests, NEW todo \in SUBSET Txns, VerifyReceipt(p, todo)
       PROVE  Good
  <2> DEFINE j == [NoJob EXCEPT !.pc = "receipt_find", !.todo = todo]
  <2>1. j \in Job /\ InHand(j)
    BY DEF NoJob, Job, JobPCs, InHand, OrderPCs, TxnPCs, GrantPCs
  <2>2. Begin(p, "receipt", j) /\ UNCHANGED req
    BY <1>11 DEF VerifyReceipt, walletVars
  <2> QED  BY <1>8, <2>1, <2>2
<1>12. ASSUME NEW p \in Requests, NEW e \in Events, Webhook(p, e)
       PROVE  Good
  <2> DEFINE j(pc) == [NoJob EXCEPT !.event = e, !.pc = pc]
  <2>1. ASSUME NEW pc \in {"plan_assign", "plan_free", "plan_cancel"}
        PROVE  j(pc) \in Job /\ InHand(j(pc))
    BY DEF NoJob, Job, JobPCs, InHand, OrderPCs, TxnPCs, GrantPCs
  <2>2. PICK pc \in {"plan_assign", "plan_free", "plan_cancel"} : Begin(p, "webhook", j(pc))
    BY <1>12 DEF Webhook
  <2>3. UNCHANGED req
    BY <1>12 DEF Webhook, walletVars
  <2> QED  BY <1>8, <2>1, <2>2, <2>3
<1>13. ASSUME NEW p \in Requests, NEW pc \in JobPCs, Advance(p, pc), req[p] = Idle,
              UNCHANGED req, InHand([job[p] EXCEPT !.pc = pc]) /\ [job[p] EXCEPT !.pc = pc] \in Job
       PROVE  Good
  BY <1>3, <1>13 DEF JobAt
<1>14. ASSUME NEW p \in Requests,
              \/ InsertOrder(p) \/ CountUse(p) \/ Subscribe(p) \/ CancelSubscription(p)
              \/ MarkCredited(p) /\ Finish(p)
       PROVE  Good
  <2>1. req[p] = Idle /\ UNCHANGED req /\ Finish(p)
    BY <1>14 DEF InsertOrder, CountUse, Subscribe, CancelSubscription, MarkCredited, JobAt,
                 walletVars
  <2> QED  BY <1>4, <2>1
<1>15. ASSUME NEW p \in Requests, NEW pc \in {"sessions_log", "order_credited", "discount_use"},
              \/ InsertSessions(p) \/ LogSessions(p) \/ MarkCredited(p), Advance(p, pc)
       PROVE  Good
  <2>1. req[p] = Idle /\ UNCHANGED req /\ job[p].pc \in OrderPCs
    BY <1>15 DEF InsertSessions, LogSessions, MarkCredited, JobAt, walletVars, OrderPCs
  <2>2. pc \in JobPCs /\ pc \in OrderPCs
    BY DEF JobPCs, OrderPCs
  <2>3. [job[p] EXCEPT !.pc = pc] \in Job /\ InHand([job[p] EXCEPT !.pc = pc])
    BY <2>1, <2>2, AdvanceInHand DEF Hands
  <2> QED  BY <1>13, <1>15, <2>1, <2>2, <2>3
<1>16. ASSUME NEW p \in Requests, NEW pc \in Waiting,
              FulfilCredits(p) \/ CreditPack(p) \/ CreditMonthly(p), Advance(p, pc),
              [job[p] EXCEPT !.pc = pc] \in Job, InHand([job[p] EXCEPT !.pc = pc])
       PROVE  Good
  <2> DEFINE j == [job[p] EXCEPT !.pc = pc]
  <2>1. \E amount, bucket, kind : AddCredits(p, amount, bucket, kind)
    BY <1>16 DEF FulfilCredits, CreditPack, CreditMonthly
  <2>2. PICK q : Call(p, Fetch(q, "add")) /\ \E amount, bucket, kind :
                     q = [Idle EXCEPT !.amount = amount, !.bucket = bucket, !.kind = kind]
    BY <2>1 DEF AddCredits
  <2>3. Fetch(q, "add").pc = "wallet_read" /\ Fetch(q, "add").after = "add"
    BY <2>2 DEF Fetch, Idle
  <2>4. /\ req'[p] = Fetch(q, "add")
        /\ \A r \in Requests \ {p} : req'[r] = req[r]
    BY <2>2 DEF Call, WalletTypeOK
  <2>5. j.pc = pc /\ job' = [job EXCEPT ![p] = j]
    BY <1>16, AdvanceType DEF Advance, Waiting, JobPCs
  <2>6. Paired(j, req'[p])
    BY <2>3, <2>4, <2>5 DEF Paired, Before
  <2> QED  BY <1>0, <1>16, <2>4, <2>5, <2>6 DEF Moves
<1>17. ASSUME NEW p \in Requests, FulfilCredits(p) \/ CreditPack(p) \/ CreditMonthly(p)
       PROVE  Good
  <2>1. PICK pc \in Waiting : /\ Advance(p, pc)
                              /\ \/ job[p].pc = "order_fulfil" /\ pc = "order_credited"
                                 \/ job[p].pc = "receipt_credit" /\ pc = "receipt_next"
                                 \/ job[p].pc = "plan_credit" /\ pc = "plan_subscribe"
    BY <1>17 DEF FulfilCredits, CreditPack, CreditMonthly, JobAt, Waiting
  <2>2. pc \in JobPCs
    BY DEF Waiting, JobPCs
  <2>3. [job[p] EXCEPT !.pc = pc] \in Job /\ InHand([job[p] EXCEPT !.pc = pc])
    BY <2>1, <2>2, AdvanceInHand DEF Hands, OrderPCs, TxnPCs, GrantPCs
  <2> QED  BY <1>16, <1>17, <2>1, <2>3
<1>18. ASSUME NEW p \in Requests, NEW j, job' = [job EXCEPT ![p] = j], req[p] = Idle, UNCHANGED req,
              NEW todo \in SUBSET Txns,
              \/ j = NextPurchase(todo)
              \/ \E t \in Txns : j = [NoJob EXCEPT !.pc = "receipt_insert", !.txn = t, !.todo = todo]
       PROVE  Good
  <2>1. j \in Job /\ InHand(j)
    BY ZenonT(30), <1>18, NoJobType DEF NextPurchase, NoJob, Job, JobPCs, InHand, OrderPCs, TxnPCs, GrantPCs
  <2> QED  BY <1>1, <1>18, <2>1
<1>19. ASSUME NEW p \in Requests, FindReceipt(p) \/ ReceiptDone(p)
       PROVE  Good
  <2>1. req[p] = Idle /\ UNCHANGED req /\ job[p].todo \subseteq Txns
    BY <1>19, JobFields DEF FindReceipt, ReceiptDone, JobAt, walletVars
  <2>2. CASE FindReceipt(p)
    <3> PICK t \in job[p].todo :
           \/ job' = [job EXCEPT ![p] = NextPurchase(job[p].todo \ {t})]
           \/ job' = [job EXCEPT ![p] = [NoJob EXCEPT !.pc = "receipt_insert", !.txn = t,
                                                      !.todo = job[p].todo \ {t}]]
      BY <2>2 DEF FindReceipt
    <3>1. job[p].todo \ {t} \in SUBSET Txns /\ t \in Txns
      BY <2>1
    <3> QED  BY <1>18, <2>1, <3>1
  <2>3. CASE ReceiptDone(p)
    BY <1>18, <2>1, <2>3 DEF ReceiptDone
  <2> QED  BY <1>19, <2>2, <2>3
<1>20. ASSUME NEW p \in Requests, InsertReceipt(p) \/ AssignPlan(p) \/ FreePlan(p)
       PROVE  Good
  <2>1. req[p] = Idle /\ UNCHANGED req
    BY <1>20 DEF InsertReceipt, AssignPlan, FreePlan, JobAt, walletVars
  <2>2. PICK pc \in {"receipt_credit", "plan_assign", "plan_credit", "plan_subscribe", "plan_cancel"} :
           /\ Advance(p, pc)
           /\ \/ job[p].pc = "receipt_insert" /\ pc = "receipt_credit"
              \/ job[p].pc = "receipt_insert" /\ pc = "plan_assign" /\ TxnProduct[job[p].txn] # "pack"
              \/ job[p].pc = "plan_assign" /\ pc = "plan_subscribe"
              \/ job[p].pc = "plan_assign" /\ pc = "plan_credit" /\ MonthlyCredits[PlanOf(job[p])] > 0
              \/ job[p].pc = "plan_free" /\ pc = "plan_cancel"
    BY <1>20 DEF InsertReceipt, AssignPlan, FreePlan, JobAt
  <2>3. pc \in JobPCs
    BY DEF JobPCs
  <2>4. [job[p] EXCEPT !.pc = pc] \in Job /\ InHand([job[p] EXCEPT !.pc = pc])
    BY <2>2, <2>3, AdvanceInHand DEF Hands, TxnPCs, GrantPCs
  <2> QED  BY <1>13, <2>1, <2>2, <2>3, <2>4
<1>21. CASE \/ \E o \in Orders : Pay(o)
            \/ \E e \in Events : OpenSubscription(e)
            \/ PassTime \/ UNCHANGED allVars
  <2>1. UNCHANGED <<job, req>>
    BY <1>21 DEF Pay, OpenSubscription, PassTime, Tick, allVars, paymentVars, walletVars
  <2> QED  BY <2>1 DEF Good, Hands
<1>22. CASE RestartServer
  <2>1. job' = [p \in Requests |-> NoJob]
    BY <1>22 DEF RestartServer
  <2> QED  BY <2>1, NoJobType DEF Good, Hands, Paired
<1>23. ASSUME NEW p \in Requests, OrderStep(p) \/ ReceiptStep(p) \/ PlanStep(p)
       PROVE  Good
  <2>1. CASE MarkCredited(p)
    BY <1>14, <1>15, <2>1 DEF MarkCredited
  <2>2. CASE InsertSessions(p) \/ LogSessions(p)
    BY <1>15, <2>2 DEF InsertSessions, LogSessions
  <2> QED  BY <1>14, <1>17, <1>19, <1>20, <1>23, <2>1, <2>2 DEF OrderStep, ReceiptStep, PlanStep
<1> QED  BY <1>5, <1>6, <1>7, <1>9, <1>10, <1>11, <1>12, <1>21, <1>22, <1>23 DEF Next, Good

-----------------------------------------------------------------------------
(* Who writes what *)

LEMMA Writers ==
    ASSUME job \in [Requests -> Job], [Next]_allVars
    PROVE  /\ \/ \E p \in Requests : InsertOrder(p) \/ MarkCredited(p)
              \/ \E o \in Orders : Pay(o)
              \/ UNCHANGED order
           /\ (\E p \in Requests : InsertReceipt(p)) \/ UNCHANGED receipts
           /\ (\E p \in Requests : AssignPlan(p) \/ FreePlan(p)) \/ UNCHANGED plan
           /\ \/ \E p \in Requests : Subscribe(p) \/ CancelSubscription(p)
              \/ \E e \in Events : OpenSubscription(e)
              \/ UNCHANGED subs
           /\ (\E p \in Requests : CountUse(p)) \/ UNCHANGED uses
           /\ (\E p \in Requests : InsertSessions(p) \/ StepWallet(p)) \/ UNCHANGED fulfilled
           /\ (\E p \in Requests : StepWallet(p)) \/ UNCHANGED <<granted, bonuses>>
           /\ contested' \subseteq contested \cup Orders \cup Txns
           /\ UNCHANGED offered
           /\ calls' \in {calls, calls + 1} /\ restarts' \in {restarts, restarts + 1}
<1>1. CASE \E p \in Requests : OrderStep(p)
  BY <1>1 DEF OrderStep, InsertOrder, FulfilCredits, InsertSessions, LogSessions, MarkCredited,
              CountUse, paymentDocs, paymentHistory, boundVars
<1>2. CASE \E p \in Requests : ReceiptStep(p)
  <2>1. PICK p \in Requests : ReceiptStep(p)
    BY <1>2
  <2>2. CASE FindReceipt(p)
    <3>1. job[p].todo \subseteq Txns
      BY JobFields
    <3>2. contested' \subseteq contested \cup Txns
      BY <2>2, <3>1 DEF FindReceipt
    <3> QED  BY <2>2, <3>2 DEF FindReceipt, paymentDocs, boundVars
  <2> QED  BY <2>1, <2>2 DEF ReceiptStep, InsertReceipt, CreditPack, ReceiptDone,
              paymentDocs, paymentHistory, boundVars
<1>3. CASE \E p \in Requests : PlanStep(p)
  BY <1>3 DEF PlanStep, AssignPlan, CreditMonthly, Subscribe, FreePlan, CancelSubscription,
              paymentDocs, paymentHistory, boundVars
<1>4. CASE \E p \in Requests : CallWallet(p) \/ StepWallet(p) \/ UnwindJob(p)
  BY <1>4 DEF CallWallet, StepWallet, UnwindJob, Count, paymentDocs, paymentHistory, boundVars
<1>5. CASE \E p \in Requests, o \in Orders :
             \/ ConfirmOrder(p, o)
             \/ \E kind \in {"credits", "interview_sessions"}, discount \in BOOLEAN :
                   CreateOrder(p, o, kind, discount)
  BY <1>5 DEF CreateOrder, ConfirmOrder, Count, paymentDocs, paymentHistory, boundVars
<1>6. CASE \E p \in Requests : \/ \E todo \in SUBSET Txns : VerifyReceipt(p, todo)
                                \/ \E e \in Events : Webhook(p, e)
  BY <1>6 DEF VerifyReceipt, Webhook, Count, paymentDocs, paymentHistory, boundVars
<1>7. CASE (\E o \in Orders : Pay(o)) \/ (\E e \in Events : OpenSubscription(e))
  BY <1>7 DEF Pay, OpenSubscription, paymentHistory, boundVars
<1>8. CASE PassTime \/ RestartServer \/ UNCHANGED allVars
  BY <1>8 DEF PassTime, RestartServer, allVars, paymentVars, paymentDocs, paymentHistory, boundVars
<1> QED  BY <1>1, <1>2, <1>3, <1>4, <1>5, <1>6, <1>7, <1>8 DEF Next

-----------------------------------------------------------------------------
(* Type correctness *)

LEMMA InitPaymentType == Init => PaymentTypeOK /\ Hands
<1> SUFFICES ASSUME Init PROVE PaymentTypeOK /\ Hands
  OBVIOUS
<1>1. WalletTypeOK
  BY InitType DEF Init
<1>2. job \in [Requests -> Job] /\ Hands
  BY NoJobType DEF Init, Hands, Paired
<1>3. /\ order \in [Orders -> OrderDoc] /\ receipts \in [Txns -> Nat]
      /\ fulfilled \in [Orders -> Nat] /\ granted \in [Txns -> Nat]
      /\ bonuses \in [Events -> Nat]
  BY DEF Init, OrderDoc
<1>4. /\ subs \in [(Sources \cup {StoreSource}) \X Refs -> {"none", "created", "active", "cancelled"}]
      /\ plan \in Plans /\ uses \in Nat
  BY PaymentAssumption DEF Init
<1>5. contested \subseteq Orders \cup Txns /\ offered \in Workloads /\ calls \in Nat /\ restarts \in Nat
  BY DEF Init
<1> QED  BY <1>1, <1>2, <1>3, <1>4, <1>5 DEF PaymentTypeOK

LEMMA BumpType ==
    ASSUME NEW S, NEW f \in [S -> Nat], NEW k
    PROVE  [f EXCEPT ![k] = @ + 1] \in [S -> Nat]
<1>1. CASE k \in S
  <2>1. f[k] + 1 \in Nat
    BY <1>1
  <2> QED  BY <2>1
<1>2. CASE k \notin S
  BY <1>2
<1> QED  BY <1>1, <1>2

LEMMA OrderType ==
    ASSUME PaymentTypeOK, [Next]_allVars
    PROVE  order' \in [Orders -> OrderDoc]
<1>1. order \in [Orders -> OrderDoc] /\ job \in [Requests -> Job]
  BY DEF PaymentTypeOK
<1>2. ASSUME NEW d \in OrderDoc, NEW o, order' = [order EXCEPT ![o] = d]
      PROVE  order' \in [Orders -> OrderDoc]
  BY <1>1, <1>2
<1>3. ASSUME NEW p \in Requests, InsertOrder(p)
      PROVE  order' \in [Orders -> OrderDoc]
  <2> DEFINE o == job[p].order
             d == [order[o] EXCEPT !.made = TRUE, !.kind = job[p].kind, !.discount = job[p].discount]
  <2>1. order' = [order EXCEPT ![o] = d]
    BY <1>3 DEF InsertOrder
  <2>2. CASE o \in Orders
    <3>1. d \in OrderDoc
      BY <1>1, <2>2, JobFields DEF OrderDoc
    <3> QED  BY <1>2, <2>1, <3>1
  <2>3. CASE o \notin Orders
    BY <1>1, <2>1, <2>3
  <2> QED  BY <2>2, <2>3
<1>4. ASSUME NEW p \in Requests, MarkCredited(p)
      PROVE  order' \in [Orders -> OrderDoc]
  <2> DEFINE o == job[p].order
  <2>1. order' = [order EXCEPT ![o].credited = TRUE]
    BY <1>4 DEF MarkCredited
  <2>2. CASE o \in Orders
    <3>1. [order[o] EXCEPT !.credited = TRUE] \in OrderDoc
      BY <1>1, <2>2 DEF OrderDoc
    <3> QED  BY <1>1, <2>1, <3>1
  <2>3. CASE o \notin Orders
    BY <1>1, <2>1, <2>3
  <2> QED  BY <2>2, <2>3
<1>5. ASSUME NEW o \in Orders, Pay(o)
      PROVE  order' \in [Orders -> OrderDoc]
  <2>1. [order[o] EXCEPT !.paid = TRUE] \in OrderDoc
    BY <1>1 DEF OrderDoc
  <2> QED  BY <1>1, <1>5, <2>1 DEF Pay
<1> QED  BY <1>1, <1>3, <1>4, <1>5, Writers

LEMMA NextPaymentType ==
    ASSUME PaymentTypeOK, Hands, [Next]_allVars
    PROVE  PaymentTypeOK' /\ Hands'
<1>0. WalletTypeOK /\ job \in [Requests -> Job]
  BY DEF PaymentTypeOK
<1>1. job' \in [Requests -> Job] /\ Hands'
  BY <1>0, NextHands
<1>2. WalletTypeOK'
  BY <1>0, PaymentMovesWallet, NextType
<1>3. order' \in [Orders -> OrderDoc]
  BY OrderType
<1>4. receipts' \in [Txns -> Nat]
  BY <1>0, Writers, BumpType DEF PaymentTypeOK, InsertReceipt
<1>5. plan' \in Plans
  <2>1. ASSUME NEW p \in Requests, AssignPlan(p)
        PROVE  plan' \in Plans
    <3>1. job[p].pc \in GrantPCs /\ job[p] \in Job /\ InHand(job[p])
      BY <1>0, <2>1 DEF AssignPlan, JobAt, GrantPCs, Hands
    <3>2. PlanOf(job[p]) \in Plans
      BY <3>1, JobFields, PaymentAssumption DEF InHand, PlanOf
    <3> QED  BY <2>1, <3>2 DEF AssignPlan
  <2>2. ASSUME NEW p \in Requests, FreePlan(p)
        PROVE  plan' \in Plans
    BY <2>2, PaymentAssumption DEF FreePlan
  <2> QED  BY <1>0, <2>1, <2>2, Writers DEF PaymentTypeOK
<1>6. subs' \in [(Sources \cup {StoreSource}) \X Refs -> {"none", "created", "active", "cancelled"}]
  <2>1. ASSUME NEW k, NEW v \in {"none", "created", "active", "cancelled"},
               subs' = [subs EXCEPT ![k] = v]
        PROVE  subs' \in [(Sources \cup {StoreSource}) \X Refs ->
                             {"none", "created", "active", "cancelled"}]
    BY <2>1 DEF PaymentTypeOK
  <2>2. ASSUME NEW p \in Requests, Subscribe(p)
        PROVE  \E k : subs' = [subs EXCEPT ![k] = "active"]
    BY <2>2 DEF Subscribe
  <2>3. ASSUME NEW p \in Requests, CancelSubscription(p)
        PROVE  (\E k : subs' = [subs EXCEPT ![k] = "cancelled"]) \/ UNCHANGED subs
    BY <2>3 DEF CancelSubscription
  <2>4. ASSUME NEW e \in Events, OpenSubscription(e)
        PROVE  \E k : subs' = [subs EXCEPT ![k] = "created"]
    BY <2>4 DEF OpenSubscription
  <2> QED  BY <1>0, <2>1, <2>2, <2>3, <2>4, Writers DEF PaymentTypeOK
<1>7. uses' \in Nat
  BY <1>0, Writers DEF PaymentTypeOK, CountUse
<1>8. fulfilled' \in [Orders -> Nat] /\ granted' \in [Txns -> Nat] /\ bonuses' \in [Events -> Nat]
  <2>1. ASSUME NEW p \in Requests, Credited(p)
        PROVE  fulfilled' \in [Orders -> Nat] /\ granted' \in [Txns -> Nat] /\ bonuses' \in [Events -> Nat]
    BY <2>1, BumpType DEF PaymentTypeOK, Credited
  <2>2. ASSUME NEW p \in Requests, InsertSessions(p)
        PROVE  fulfilled' \in [Orders -> Nat]
    BY <2>2, BumpType DEF PaymentTypeOK, InsertSessions
  <2>3. ASSUME NEW p \in Requests, StepWallet(p)
        PROVE  Credited(p) \/ UNCHANGED <<fulfilled, granted, bonuses>>
    BY <2>3 DEF StepWallet
  <2> QED  BY <1>0, <2>1, <2>2, <2>3, Writers DEF PaymentTypeOK
<1>9. contested' \subseteq Orders \cup Txns /\ offered' \in Workloads /\ calls' \in Nat /\ restarts' \in Nat
  BY <1>0, Writers DEF PaymentTypeOK
<1> QED  BY <1>1, <1>2, <1>3, <1>4, <1>5, <1>6, <1>7, <1>8, <1>9 DEF PaymentTypeOK

LEMMA PaymentTypes == Spec => [](PaymentTypeOK /\ Hands)
<1>1. PaymentTypeOK /\ Hands /\ [Next]_allVars => (PaymentTypeOK /\ Hands)'
  BY NextPaymentType
<1> QED  BY <1>1, InitPaymentType, PTL DEF Spec

\* Orders, receipts, plans, subscriptions and the handlers of payments_routes.py
\* and payments_service.py keep their types for any number of them.
THEOREM PaymentTypeInvariant == Spec => []PaymentTypeOK
BY PaymentTypes, PTL

-----------------------------------------------------------------------------
(* What is proved of the wallet holds while payments are made *)

\* _fulfill_pack, credit_pack_product and _credit_plan touch wallets and
\* credit_transactions through add_credits only, with an amount that is on sale:
\* the composition implements the wallet's own specification.
THEOREM PaymentsImplementWallet == Spec => WalletSpec
<1>1. Init => WalletInit
  BY DEF Init
<1>2. PaymentTypeOK /\ Hands /\ [Next]_allVars => [WalletNext]_walletVars
  BY PaymentMovesWallet DEF PaymentTypeOK
<1> QED  BY <1>1, <1>2, PaymentTypes, PTL DEF Spec, WalletSpec

\* However polls, receipts, webhooks, charges and admins race on the wallet, no
\* charge takes a bucket below zero.
THEOREM PaymentsNeverOverdraw == Spec => []NoOverdraft
BY PaymentsImplementWallet, NoOverdraftInvariant

\* And no bucket ever holds more than purchases, plans, refills and admins put in.
THEOREM PaymentsNeverInflate == Spec => []NeverMoreThanAdded
BY PaymentsImplementWallet, NeverMoreThanAddedInvariant

\* Where movements do not overlap, the transaction rows account for the wallet.
THEOREM PaymentsKeepBooks == Spec => [](LastRowIsTheBalance /\ RowsCoverTheWallet)
BY PaymentsImplementWallet, LastRowInvariant, RowsCoverInvariant, PTL

-----------------------------------------------------------------------------
(* One handler at a time *)

\* What the handler of a request does between two awaits.
Acts(p) ==
    \/ CallWallet(p) \/ StepWallet(p) \/ UnwindJob(p)
    \/ \E o \in Orders, kind \in {"credits", "interview_sessions"}, discount \in BOOLEAN :
          CreateOrder(p, o, kind, discount)
    \/ \E o \in Orders : ConfirmOrder(p, o)
    \/ \E todo \in SUBSET Txns : VerifyReceipt(p, todo)
    \/ \E e \in Events : Webhook(p, e)
    \/ OrderStep(p) \/ ReceiptStep(p) \/ PlanStep(p)

Elsewhere == (\E o \in Orders : Pay(o)) \/ (\E e \in Events : OpenSubscription(e)) \/ PassTime

LEMMA NextCases ==
    ASSUME [Next]_allVars
    PROVE  (\E p \in Requests : Acts(p)) \/ Elsewhere \/ RestartServer \/ UNCHANGED allVars
BY DEF Next, Acts, Elsewhere

LEMMA ElsewhereKeeps ==
    ASSUME Elsewhere \/ UNCHANGED allVars
    PROVE  UNCHANGED <<job, req, fulfilled, granted, receipts, uses>>
BY DEF Elsewhere, Pay, OpenSubscription, PassTime, Tick, allVars, paymentVars, walletVars,
       paymentDocs, paymentHistory

LEMMA OthersStay ==
    ASSUME PaymentTypeOK, NEW p \in Requests, Acts(p), NEW q \in Requests \ {p}
    PROVE  job'[q] = job[q] /\ req'[q] = req[q]
<1> DEFINE Still == job'[q] = job[q] /\ req'[q] = req[q]
<1>0. job \in [Requests -> Job] /\ req \in [Requests -> Request]
  BY DEF PaymentTypeOK, WalletTypeOK
<1>1. ASSUME NEW j, job' = [job EXCEPT ![p] = j], UNCHANGED req
      PROVE  Still
  BY <1>0, <1>1
<1>2. ASSUME NEW r, UNCHANGED job, req' = [req EXCEPT ![p] = r]
      PROVE  Still
  BY <1>0, <1>2
<1>3. ASSUME NEW j, NEW r, job' = [job EXCEPT ![p] = j], req' = [req EXCEPT ![p] = r]
      PROVE  Still
  BY <1>0, <1>3
<1> HIDE DEF Still
<1>4. ASSUME CallWallet(p)
      PROVE  Still
  <2>1. PICK r : Become(p, r)
    BY <1>4 DEF CallWallet, GetWallet, AdjustWallet, Spend, CheckedService, ChatMessage,
                Call, Become
  <2> QED  BY <1>2, <1>4, <2>1 DEF CallWallet, Become
<1>5. ASSUME StepWallet(p)
      PROVE  Still
  <2>1. PICK r : Become(p, r)
    BY <1>5, StepMovesOne DEF StepWallet
  <2> QED  BY <1>2, <1>5, <2>1 DEF StepWallet, Become
<1>6. ASSUME UnwindJob(p)
      PROVE  Still
  BY <1>3, <1>6 DEF UnwindJob, Unwind, Become, Finish
<1>7. ASSUME FulfilCredits(p) \/ CreditPack(p) \/ CreditMonthly(p)
      PROVE  Still
  <2>1. PICK r : Become(p, r)
    BY <1>7 DEF FulfilCredits, CreditPack, CreditMonthly, AddCredits, Call, Become
  <2>2. PICK j : job' = [job EXCEPT ![p] = j]
    BY <1>7 DEF FulfilCredits, CreditPack, CreditMonthly, Advance
  <2> QED  BY <1>3, <2>1, <2>2 DEF Become
<1>8. ASSUME UNCHANGED walletVars, \E j : job' = [job EXCEPT ![p] = j]
      PROVE  Still
  BY <1>1, <1>8 DEF walletVars
<1>9. ASSUME UNCHANGED walletVars, NEW pc, Advance(p, pc)
      PROVE  Still
  <2>1. job' = [job EXCEPT ![p] = [job[p] EXCEPT !.pc = pc]]
    BY <1>9 DEF Advance
  <2> QED  BY <1>8, <1>9, <2>1
<1>10. ASSUME UNCHANGED walletVars, NEW op, NEW j, Begin(p, op, j)
       PROVE  Still
  BY <1>8, <1>10 DEF Begin
<1>11. ASSUME UNCHANGED walletVars, Finish(p)
       PROVE  Still
  BY <1>8, <1>11 DEF Finish
<1>12. ASSUME \/ \E o \in Orders, kind \in {"credits", "interview_sessions"}, discount \in BOOLEAN :
                    CreateOrder(p, o, kind, discount)
              \/ \E o \in Orders : ConfirmOrder(p, o)
              \/ \E todo \in SUBSET Txns : VerifyReceipt(p, todo)
              \/ \E e \in Events : Webhook(p, e)
       PROVE  Still
  BY <1>10, <1>12 DEF CreateOrder, ConfirmOrder, VerifyReceipt, Webhook
<1>13. ASSUME InsertOrder(p) \/ InsertSessions(p) \/ LogSessions(p) \/ MarkCredited(p) \/ CountUse(p)
       PROVE  Still
  BY <1>9, <1>11, <1>13 DEF InsertOrder, InsertSessions, LogSessions, MarkCredited, CountUse
<1>14. ASSUME FindReceipt(p) \/ ReceiptDone(p)
       PROVE  Still
  BY <1>8, <1>14 DEF FindReceipt, ReceiptDone
<1>15. ASSUME InsertReceipt(p) \/ AssignPlan(p) \/ Subscribe(p) \/ FreePlan(p) \/ CancelSubscription(p)
       PROVE  Still
  BY <1>9, <1>11, <1>15 DEF InsertReceipt, AssignPlan, Subscribe, FreePlan, CancelSubscription
<1>16. ASSUME OrderStep(p) \/ ReceiptStep(p) \/ PlanStep(p)
       PROVE  Still
  BY <1>7, <1>13, <1>14, <1>15, <1>16 DEF OrderStep, ReceiptStep, PlanStep
<1>17. Still
  BY <1>4, <1>5, <1>6, <1>12, <1>16 DEF Acts
<1> QED  BY <1>17 DEF Still

-----------------------------------------------------------------------------
(* CreditedWasFulfilled.  The flag is written by a handler whose wallet call *)
(* has returned, so the invariant follows the handler from the confirmation  *)
(* to the flag: its order is paid, and given once the call is past its write *)

ConfirmPCs == OrderPCs \ {"order_insert"}
GivenPCs == {"sessions_log", "order_credited", "discount_use"}

Confirmed(j, r) ==
    /\ j.pc \in ConfirmPCs => order[j.order].paid
    /\ j.pc \in GivenPCs /\ r.pc \notin Before \cup {"raised"} => fulfilled[j.order] > 0

OrderInv == CreditedWasFulfilled /\ \A p \in Requests : Confirmed(job[p], req[p])

LEMMA OrderGrows ==
    ASSUME PaymentTypeOK, [Next]_allVars, NEW o \in Orders
    PROVE  /\ fulfilled'[o] \in Nat /\ fulfilled[o] \in Nat /\ fulfilled'[o] >= fulfilled[o]
           /\ order[o].paid => order'[o].paid
           /\ order'[o].credited => \/ order[o].credited
                                    \/ \E p \in Requests : MarkCredited(p) /\ job[p].order = o
<1>0. /\ order \in [Orders -> OrderDoc] /\ job \in [Requests -> Job]
      /\ fulfilled \in [Orders -> Nat]
  BY DEF PaymentTypeOK
<1>1. fulfilled'[o] \in Nat /\ fulfilled[o] \in Nat /\ fulfilled'[o] >= fulfilled[o]
  <2>1. ASSUME NEW k, fulfilled' = [fulfilled EXCEPT ![k] = @ + 1]
        PROVE  fulfilled'[o] = fulfilled[o] \/ fulfilled'[o] = fulfilled[o] + 1
    BY <1>0, <2>1
  <2>2. \/ \E k : fulfilled' = [fulfilled EXCEPT ![k] = @ + 1]
        \/ UNCHANGED fulfilled
    BY <1>0, Writers DEF InsertSessions, StepWallet, Credited
  <2> QED  BY <1>0, <2>1, <2>2
<1>2. ASSUME NEW p \in Requests, InsertOrder(p)
      PROVE  order'[o].paid = order[o].paid /\ order'[o].credited = order[o].credited
  <2> DEFINE d == [order[job[p].order] EXCEPT !.made = TRUE, !.kind = job[p].kind,
                                              !.discount = job[p].discount]
  <2>1. order' = [order EXCEPT ![job[p].order] = d]
    BY <1>2 DEF InsertOrder
  <2>2. CASE job[p].order = o
    <3>1. d.paid = order[o].paid /\ d.credited = order[o].credited
      BY <1>0, <2>2 DEF OrderDoc
    <3> HIDE DEF d
    <3> QED  BY <1>0, <2>1, <2>2, <3>1
  <2>3. CASE job[p].order # o
    BY <1>0, <2>1, <2>3
  <2> QED  BY <2>2, <2>3
<1>3. ASSUME NEW p \in Requests, MarkCredited(p)
      PROVE  /\ order'[o].paid = order[o].paid
             /\ order'[o].credited => order[o].credited \/ job[p].order = o
  <2>1. order' = [order EXCEPT ![job[p].order].credited = TRUE]
    BY <1>3 DEF MarkCredited
  <2>2. CASE job[p].order = o
    <3>1. order'[o] = [order[o] EXCEPT !.credited = TRUE]
      BY <1>0, <2>1, <2>2
    <3> QED  BY <1>0, <2>2, <3>1 DEF OrderDoc
  <2>3. CASE job[p].order # o
    BY <1>0, <2>1, <2>3
  <2> QED  BY <2>2, <2>3
<1>4. ASSUME NEW k \in Orders, Pay(k)
      PROVE  /\ order[o].paid => order'[o].paid
             /\ order'[o].credited = order[o].credited
  <2>1. order' = [order EXCEPT ![k] = [order[k] EXCEPT !.paid = TRUE]]
    BY <1>4 DEF Pay
  <2>2. CASE k = o
    <3>1. order'[o] = [order[o] EXCEPT !.paid = TRUE]
      BY <1>0, <2>1, <2>2
    <3> QED  BY <1>0, <3>1 DEF OrderDoc
  <2>3. CASE k # o
    BY <1>0, <2>1, <2>3
  <2> QED  BY <2>2, <2>3
<1> QED  BY <1>0, <1>1, <1>2, <1>3, <1>4, Writers

\* The handler's own step, from confirmation to flag.
LEMMA ActorConfirmed ==
    ASSUME PaymentTypeOK, Hands, OrderInv, [Next]_allVars, NEW p \in Requests, Acts(p)
    PROVE  Confirmed(job[p], req[p])'
<1>0. /\ WalletTypeOK /\ job \in [Requests -> Job] /\ req \in [Requests -> Request]
      /\ order \in [Orders -> OrderDoc] /\ fulfilled \in [Orders -> Nat]
      /\ InHand(job[p]) /\ Paired(job[p], req[p]) /\ Confirmed(job[p], req[p])
  BY DEF PaymentTypeOK, WalletTypeOK, Hands, OrderInv
<1>1. ASSUME job'[p].pc \notin ConfirmPCs
      PROVE  Confirmed(job[p], req[p])'
  BY <1>1 DEF Confirmed, ConfirmPCs, GivenPCs, OrderPCs
<1>2. ASSUME NEW j, job' = [job EXCEPT ![p] = j]
      PROVE  job'[p] = j
  BY <1>0, <1>2
<1>3. ASSUME job'[p] = NoJob
      PROVE  Confirmed(job[p], req[p])'
  BY <1>1, <1>3, NoJobType DEF ConfirmPCs, OrderPCs
<1>4. ASSUME NEW pc \in JobPCs, Advance(p, pc)
      PROVE  job'[p].pc = pc /\ job'[p].order = job[p].order
  BY <1>0, <1>4, AdvanceType DEF Advance
<1>5. ASSUME CallWallet(p)
      PROVE  Confirmed(job[p], req[p])'
  BY <1>3, <1>5 DEF CallWallet
<1>6. ASSUME StepWallet(p)
      PROVE  Confirmed(job[p], req[p])'
  <2>0. WalletStep(p) /\ UNCHANGED job
    BY <1>6 DEF StepWallet
  <2>1. CASE job[p].pc \notin ConfirmPCs
    BY <1>1, <2>0, <2>1
  <2>2. CASE job[p].pc \in ConfirmPCs
    <3>1. req[p].pc \notin {"idle", "raised"}
      BY <2>0 DEF WalletStep, ReadWallet, InsertWallet, WelcomeLog, Refill, DailyLog, ReadWindow,
         ResetWindow, Work, DeductWrite, DeductLog, AdvanceWindow, RecordUsage, AddWrite, AddLog, At
    <3>2. job[p] # NoJob
      BY <2>2, NoJobType DEF ConfirmPCs, OrderPCs
    <3>3. /\ job[p].pc = "order_credited" /\ job[p].order \in Orders
          /\ req[p].pc \in Before \cup {"add_log"} /\ req[p].after = "add"
      BY <1>0, <2>2, <3>1, <3>2, IdleType DEF Paired, Waiting, InHand, ConfirmPCs, OrderPCs
    <3> DEFINE o == job[p].order
    <3>4. order'[o].paid
      BY <1>0, <2>2, <3>3, OrderGrows DEF Confirmed
    <3>5. CASE At(p, "add_write")
      <4>1. fulfilled' = [fulfilled EXCEPT ![o] = @ + 1]
        BY <1>6, <3>3, <3>5 DEF StepWallet, Credited
      <4>2. fulfilled'[o] > 0
        BY <1>0, <3>3, <4>1
      <4> QED  BY <2>0, <3>4, <4>2 DEF Confirmed
    <3>6. CASE At(p, "add_log")
      <4>1. fulfilled[o] > 0
        BY <1>0, <3>3, <3>6 DEF Confirmed, GivenPCs, At, Before
      <4>2. fulfilled'[o] > 0
        BY <3>3, <4>1, OrderGrows
      <4> QED  BY <2>0, <3>4, <4>2 DEF Confirmed
    <3>7. CASE ~At(p, "add_write") /\ ~At(p, "add_log")
      <4>1. req'[p].pc \in Before \cup {"raised"}
        BY <1>0, <2>0, <3>3, <3>7, AddCallStep
      <4> QED  BY <2>0, <3>4, <4>1 DEF Confirmed
    <3> QED  BY <3>5, <3>6, <3>7
  <2> QED  BY <2>1, <2>2
<1>7. ASSUME UnwindJob(p)
      PROVE  Confirmed(job[p], req[p])'
  BY <1>2, <1>3, <1>7 DEF UnwindJob, Finish
<1>8. ASSUME NEW o \in Orders, NEW kind, NEW discount, CreateOrder(p, o, kind, discount)
      PROVE  Confirmed(job[p], req[p])'
  <2>1. job'[p].pc = "order_insert"
    BY <1>0, <1>8 DEF CreateOrder, Begin, NoJob
  <2> QED  BY <1>1, <2>1 DEF ConfirmPCs
<1>9. ASSUME NEW o \in Orders, ConfirmOrder(p, o)
      PROVE  Confirmed(job[p], req[p])'
  <2>1. /\ job'[p].order = o /\ job'[p].pc \in {"order_fulfil", "sessions_insert"}
        /\ order[o].paid /\ UNCHANGED order
    BY <1>0, <1>9 DEF ConfirmOrder, Begin, NoJob, paymentDocs
  <2> QED  BY <2>1 DEF Confirmed, GivenPCs
<1>10. ASSUME \/ \E todo \in SUBSET Txns : VerifyReceipt(p, todo)
              \/ \E e \in Events : Webhook(p, e)
       PROVE  Confirmed(job[p], req[p])'
  <2>1. job'[p].pc \in {"receipt_find", "plan_assign", "plan_free", "plan_cancel"}
    <3>1. ASSUME NEW todo \in SUBSET Txns, VerifyReceipt(p, todo)
          PROVE  job'[p].pc = "receipt_find"
      BY <1>0, <3>1 DEF VerifyReceipt, Begin, NoJob
    <3>2. ASSUME NEW e \in Events, Webhook(p, e)
          PROVE  job'[p].pc \in {"plan_assign", "plan_free", "plan_cancel"}
      <4>1. PICK pc \in {"plan_assign", "plan_free", "plan_cancel"} :
                   Begin(p, "webhook", [NoJob EXCEPT !.event = e, !.pc = pc])
        BY <3>2 DEF Webhook
      <4> QED  BY <1>0, <4>1 DEF Begin, NoJob
    <3> QED  BY <1>10, <3>1, <3>2
  <2> QED  BY <1>1, <2>1 DEF ConfirmPCs, OrderPCs
<1>11. ASSUME FulfilCredits(p)
       PROVE  Confirmed(job[p], req[p])'
  <2>1. job'[p].pc = "order_credited" /\ job'[p].order = job[p].order /\ UNCHANGED order
    BY <1>4, <1>11 DEF FulfilCredits, JobPCs, paymentDocs
  <2>2. order[job[p].order].paid
    BY <1>0, <1>11 DEF FulfilCredits, JobAt, Confirmed, ConfirmPCs, OrderPCs
  <2>3. req'[p].pc = "wallet_read"
    BY <1>0, <1>11 DEF FulfilCredits, AddCredits, Call, Fetch, Idle
  <2> QED  BY <2>1, <2>2, <2>3 DEF Confirmed, Before
<1>12. ASSUME InsertSessions(p)
       PROVE  Confirmed(job[p], req[p])'
  <2>1. job'[p].pc = "sessions_log" /\ job'[p].order = job[p].order /\ UNCHANGED order
    BY <1>4, <1>12 DEF InsertSessions, JobPCs, paymentDocs
  <2>2. order[job[p].order].paid /\ job[p].order \in Orders
    BY <1>0, <1>12 DEF InsertSessions, JobAt, Confirmed, ConfirmPCs, OrderPCs, InHand
  <2>3. fulfilled'[job[p].order] > 0
    BY <1>0, <1>12, <2>2 DEF InsertSessions
  <2> QED  BY <2>1, <2>2, <2>3 DEF Confirmed
<1>13. ASSUME LogSessions(p) \/ MarkCredited(p)
       PROVE  Confirmed(job[p], req[p])'
  <2>1. /\ order[job[p].order].paid /\ job[p].order \in Orders
        /\ fulfilled[job[p].order] > 0
    BY <1>0, <1>13, IdleType DEF LogSessions, MarkCredited, JobAt, Confirmed, ConfirmPCs, GivenPCs,
                       OrderPCs, InHand, Before
  <2>2. order'[job[p].order].paid /\ fulfilled'[job[p].order] > 0
    BY <2>1, OrderGrows
  <2>3. \/ job'[p] = NoJob
        \/ job'[p].order = job[p].order
    BY <1>2, <1>4, <1>13 DEF LogSessions, MarkCredited, Finish, JobPCs
  <2> QED  BY <1>3, <2>2, <2>3 DEF Confirmed
<1>14. ASSUME InsertOrder(p) \/ CountUse(p) \/ Subscribe(p) \/ CancelSubscription(p)
       PROVE  Confirmed(job[p], req[p])'
  BY <1>2, <1>3, <1>14 DEF InsertOrder, CountUse, Subscribe, CancelSubscription, Finish
<1>15. ASSUME NEW pc \in JobPCs \ ConfirmPCs, Advance(p, pc)
       PROVE  Confirmed(job[p], req[p])'
  BY <1>1, <1>4, <1>15
<1>16. ASSUME \/ InsertReceipt(p) \/ CreditPack(p) \/ AssignPlan(p) \/ CreditMonthly(p)
              \/ FreePlan(p)
       PROVE  Confirmed(job[p], req[p])'
  <2>1. \E pc \in {"receipt_credit", "plan_assign", "receipt_next", "plan_credit",
                   "plan_subscribe", "plan_cancel"} : Advance(p, pc)
    BY <1>16 DEF InsertReceipt, CreditPack, AssignPlan, CreditMonthly, FreePlan
  <2> QED  BY <1>15, <2>1 DEF JobPCs, ConfirmPCs, OrderPCs
<1>17. ASSUME FindReceipt(p) \/ ReceiptDone(p)
       PROVE  Confirmed(job[p], req[p])'
  <2>1. job'[p].pc \in {"none", "receipt_find", "receipt_insert"}
    <3>1. PICK todo, t : job' = [job EXCEPT ![p] = NextPurchase(todo)]
                         \/ job' = [job EXCEPT ![p] = [NoJob EXCEPT !.pc = "receipt_insert",
                                                                    !.txn = t, !.todo = todo]]
      BY <1>17 DEF FindReceipt, ReceiptDone
    <3>2. NextPurchase(todo).pc \in {"none", "receipt_find"}
      BY DEF NextPurchase, NoJob
    <3>3. [NoJob EXCEPT !.pc = "receipt_insert", !.txn = t, !.todo = todo].pc = "receipt_insert"
      BY DEF NoJob
    <3> QED  BY <1>2, <3>1, <3>2, <3>3
  <2> QED  BY <1>1, <2>1 DEF ConfirmPCs, OrderPCs
<1>18. ASSUME OrderStep(p) \/ ReceiptStep(p) \/ PlanStep(p)
       PROVE  Confirmed(job[p], req[p])'
  BY <1>11, <1>12, <1>13, <1>14, <1>16, <1>17, <1>18 DEF OrderStep, ReceiptStep, PlanStep
<1> QED  BY <1>5, <1>6, <1>7, <1>8, <1>9, <1>10, <1>18 DEF Acts

LEMMA NextOrderInv ==
    ASSUME PaymentTypeOK, Hands, OrderInv, [Next]_allVars
    PROVE  OrderInv'
<1>0. (PaymentTypeOK /\ Hands)'
  BY NextPaymentType
<1>1. ASSUME NEW q \in Requests, job'[q] = job[q], req'[q] = req[q]
      PROVE  Confirmed(job[q], req[q])'
  <2>1. InHand(job[q]) /\ Confirmed(job[q], req[q])
    BY DEF Hands, OrderInv
  <2>2. job[q].pc \in ConfirmPCs => job[q].order \in Orders
    BY <2>1 DEF InHand, ConfirmPCs
  <2>3. GivenPCs \subseteq ConfirmPCs
    BY DEF GivenPCs, ConfirmPCs, OrderPCs
  <2> QED  BY <1>1, <2>1, <2>2, <2>3, OrderGrows DEF Confirmed
<1>2. ASSUME NEW q \in Requests
      PROVE  Confirmed(job[q], req[q])'
  <2>1. CASE \E p \in Requests : Acts(p)
    <3> PICK p \in Requests : Acts(p)
      BY <2>1
    <3>1. CASE p = q
      BY <3>1, ActorConfirmed
    <3>2. CASE p # q
      BY <1>1, <3>2, OthersStay
    <3> QED  BY <3>1, <3>2
  <2>2. CASE Elsewhere \/ UNCHANGED allVars
    BY <1>1, <2>2, ElsewhereKeeps
  <2>3. CASE RestartServer
    <3>1. job'[q].pc = "none"
      BY <2>3, NoJobType DEF RestartServer
    <3> QED  BY <3>1 DEF Confirmed, ConfirmPCs, GivenPCs, OrderPCs
  <2> QED  BY <2>1, <2>2, <2>3, NextCases
<1>3. CreditedWasFulfilled'
  <2> SUFFICES ASSUME NEW o \in Orders, order'[o].credited
               PROVE  order'[o].paid /\ fulfilled'[o] > 0
    BY DEF CreditedWasFulfilled
  <2>1. order[o].paid /\ fulfilled[o] > 0
    <3>1. CASE order[o].credited
      BY <3>1 DEF OrderInv, CreditedWasFulfilled
    <3>2. CASE \E p \in Requests : MarkCredited(p) /\ job[p].order = o
      BY <3>2, IdleType DEF MarkCredited, JobAt, OrderInv, Confirmed, ConfirmPCs, GivenPCs,
                            OrderPCs, Before
    <3> QED  BY <3>1, <3>2, OrderGrows
  <2> QED  BY <2>1, OrderGrows
<1> QED  BY <1>2, <1>3 DEF OrderInv

\* An order whose transaction says credited was paid, and its credits or sessions
\* were given at least once, whoever confirmed it and whatever was interrupted.
THEOREM CreditedWasFulfilledInvariant == Spec => []CreditedWasFulfilled
<1>1. Init => OrderInv
  BY DEF Init, OrderInv, CreditedWasFulfilled, Confirmed, NoJob, ConfirmPCs, GivenPCs, OrderPCs
<1>2. PaymentTypeOK /\ Hands /\ OrderInv /\ [Next]_allVars => OrderInv'
  BY NextOrderInv
<1>3. OrderInv => CreditedWasFulfilled
  BY DEF OrderInv
<1> QED  BY <1>1, <1>2, <1>3, PaymentTypes, PTL DEF Spec

-----------------------------------------------------------------------------
(* ReceiptFirst.  Every handler that is going to credit a transaction has    *)
(* recorded it and not credited it yet: what was granted and the handlers    *)
(* that still owe a grant are together no more than what was recorded.       *)

Owes(p, t) ==
    /\ job[p].txn = t
    /\ job[p].pc \in {"receipt_credit", "plan_assign", "plan_credit"} \/ req[p].pc \in Before

Owing(t) == {p \in Requests : Owes(p, t)}

ReceiptInv ==
    \A t \in Txns : IsFiniteSet(Owing(t)) /\ granted[t] + Cardinality(Owing(t)) <= receipts[t]

\* A handler owes a grant from the moment it records the receipt.
LEMMA OwesLater ==
    ASSUME PaymentTypeOK, Hands, NEW p \in Requests, Acts(p), ~InsertReceipt(p),
           NEW t \in Txns, Owes(p, t)'
    PROVE  Owes(p, t)
<1>0. /\ WalletTypeOK /\ job \in [Requests -> Job] /\ req \in [Requests -> Request]
      /\ job[p] \in Job /\ InHand(job[p]) /\ Paired(job[p], req[p]) /\ t # NoTxn
  BY PaymentAssumption DEF PaymentTypeOK, WalletTypeOK, Hands
<1>1. ASSUME NEW j, job' = [job EXCEPT ![p] = j]
      PROVE  job'[p] = j
  BY <1>0, <1>1
<1>2. job'[p].txn # NoTxn
  BY <1>0 DEF Owes
<1>3. job'[p] # NoJob
  BY <1>2 DEF NoJob
<1>4. ASSUME NEW pc \in JobPCs, Advance(p, pc)
      PROVE  job'[p].pc = pc /\ job'[p].txn = job[p].txn
  BY <1>0, <1>4, AdvanceType DEF Advance
<1>5. ASSUME req[p] = Idle, UNCHANGED walletVars
      PROVE  req'[p].pc \notin Before
  BY <1>5, IdleType DEF walletVars, Before
<1>6. ASSUME StepWallet(p)
      PROVE  Owes(p, t)
  <2>1. WalletStep(p) /\ UNCHANGED job
    BY <1>6 DEF StepWallet
  <2>2. job[p] # NoJob /\ job[p].txn = t
    BY <1>3, <2>1 DEF Owes
  <2>3. req[p].pc \notin {"idle", "raised"}
    BY <2>1 DEF WalletStep, ReadWallet, InsertWallet, WelcomeLog, Refill, DailyLog, ReadWindow,
       ResetWindow, Work, DeductWrite, DeductLog, AdvanceWindow, RecordUsage, AddWrite, AddLog, At
  <2>4. /\ req[p].pc \in Before \cup {"add_log"} /\ req[p].after = "add"
        /\ job[p].pc \in Waiting
    BY <1>0, <2>2, <2>3, IdleType DEF Paired
  <2>5. req'[p].pc \in Before
    BY <2>1, <2>4 DEF Owes, Waiting
  <2>6. ~At(p, "add_log")
    BY <1>0, <2>1, <2>4, <2>5, AddCallStep, IdleType DEF Before, At
  <2> QED  BY <2>2, <2>4, <2>6 DEF Owes, At
<1>7. ASSUME CallWallet(p) \/ UnwindJob(p)
      PROVE  FALSE
  BY <1>1, <1>3, <1>7 DEF CallWallet, UnwindJob, Finish
<1>8. ASSUME InsertOrder(p) \/ CountUse(p) \/ Subscribe(p) \/ CancelSubscription(p)
      PROVE  FALSE
  BY <1>1, <1>3, <1>8 DEF InsertOrder, CountUse, Subscribe, CancelSubscription, Finish
<1>9. ASSUME \/ \E o \in Orders, kind \in {"credits", "interview_sessions"}, discount \in BOOLEAN :
                   CreateOrder(p, o, kind, discount)
             \/ \E o \in Orders : ConfirmOrder(p, o)
             \/ \E todo \in SUBSET Txns : VerifyReceipt(p, todo)
             \/ \E e \in Events : Webhook(p, e)
      PROVE  FALSE
  <2>1. ASSUME NEW op, NEW j, Begin(p, op, j), j.txn = NoTxn
        PROVE  FALSE
    BY <1>1, <1>2, <2>1 DEF Begin
  <2>2. ASSUME NEW o \in Orders, NEW kind, NEW discount, CreateOrder(p, o, kind, discount)
        PROVE  FALSE
    <3> DEFINE j == [NoJob EXCEPT !.pc = "order_insert", !.order = o,
                                  !.kind = kind, !.discount = discount]
    <3>1. j.txn = NoTxn
      BY DEF NoJob
    <3>2. Begin(p, "order", j)
      BY <2>2 DEF CreateOrder
    <3> QED  BY <2>1, <3>1, <3>2
  <2>3. ASSUME NEW o \in Orders, ConfirmOrder(p, o)
        PROVE  FALSE
    <3>1. PICK pc : Begin(p, "status", [NoJob EXCEPT !.order = o, !.pc = pc])
      BY <2>3 DEF ConfirmOrder
    <3>2. [NoJob EXCEPT !.order = o, !.pc = pc].txn = NoTxn
      BY DEF NoJob
    <3> QED  BY <2>1, <3>1, <3>2
  <2>4. ASSUME NEW todo \in SUBSET Txns, VerifyReceipt(p, todo)
        PROVE  FALSE
    <3>1. [NoJob EXCEPT !.pc = "receipt_find", !.todo = todo].txn = NoTxn
      BY DEF NoJob
    <3> QED  BY <2>1, <2>4, <3>1 DEF VerifyReceipt
  <2>5. ASSUME NEW e \in Events, Webhook(p, e)
        PROVE  FALSE
    <3>1. PICK pc : Begin(p, "webhook", [NoJob EXCEPT !.event = e, !.pc = pc])
      BY <2>5 DEF Webhook
    <3>2. [NoJob EXCEPT !.event = e, !.pc = pc].txn = NoTxn
      BY DEF NoJob
    <3> QED  BY <2>1, <3>1, <3>2
  <2> QED  BY <1>9, <2>2, <2>3, <2>4, <2>5
<1>10. ASSUME FulfilCredits(p) \/ InsertSessions(p) \/ LogSessions(p) \/ MarkCredited(p)
       PROVE  FALSE
  <2>1. job[p].txn = NoTxn
    BY <1>0, <1>10 DEF FulfilCredits, InsertSessions, LogSessions, MarkCredited, JobAt,
                       InHand, OrderPCs
  <2>2. job'[p] = NoJob \/ job'[p].txn = job[p].txn
    BY <1>1, <1>4, <1>10 DEF FulfilCredits, InsertSessions, LogSessions, MarkCredited, Finish, JobPCs
  <2> QED  BY <1>2, <1>3, <2>1, <2>2
<1>11. ASSUME CreditPack(p) \/ CreditMonthly(p) \/ AssignPlan(p)
       PROVE  Owes(p, t)
  <2>1. job'[p].txn = job[p].txn
    BY <1>4, <1>11 DEF CreditPack, CreditMonthly, AssignPlan, JobPCs
  <2> QED  BY <1>11, <2>1 DEF CreditPack, CreditMonthly, AssignPlan, JobAt, Owes
<1>12. ASSUME FreePlan(p)
       PROVE  FALSE
  BY <1>4, <1>5, <1>12 DEF FreePlan, JobPCs, JobAt, Owes
<1>13. ASSUME FindReceipt(p) \/ ReceiptDone(p)
       PROVE  FALSE
  <2>1. PICK todo, k : job' = [job EXCEPT ![p] = NextPurchase(todo)]
                       \/ job' = [job EXCEPT ![p] = [NoJob EXCEPT !.pc = "receipt_insert",
                                                                  !.txn = k, !.todo = todo]]
    BY <1>13 DEF FindReceipt, ReceiptDone
  <2>2. NextPurchase(todo).txn = NoTxn
    BY DEF NextPurchase, NoJob
  <2>3. [NoJob EXCEPT !.pc = "receipt_insert", !.txn = k, !.todo = todo].pc = "receipt_insert"
    BY DEF NoJob
  <2>4. req'[p].pc \notin Before
    BY <1>5, <1>13 DEF FindReceipt, ReceiptDone, JobAt
  <2> QED  BY <1>1, <1>2, <2>1, <2>2, <2>3, <2>4 DEF Owes
<1> QED  BY <1>6, <1>7, <1>8, <1>9, <1>10, <1>11, <1>12, <1>13
         DEF Acts, OrderStep, ReceiptStep, PlanStep

\* What a step of one handler does to those that owe a grant of t.
LEMMA OwingChange ==
    ASSUME PaymentTypeOK, NEW p \in Requests, Acts(p), NEW t
    PROVE  Owing(t)' \ {p} = Owing(t) \ {p} /\ Owing(t)' \subseteq Owing(t) \cup {p}
<1>1. ASSUME NEW q \in Requests \ {p}
      PROVE  Owes(q, t)' <=> Owes(q, t)
  BY <1>1, OthersStay DEF Owes
<1> QED  BY <1>1 DEF Owing

LEMMA GrantedChange ==
    ASSUME PaymentTypeOK, NEW p \in Requests, Acts(p), NEW t \in Txns,
           ~(StepWallet(p) /\ At(p, "add_write") /\ job[p].txn = t)
    PROVE  granted'[t] = granted[t]
<1>1. CASE StepWallet(p)
  BY <1>1 DEF StepWallet, Credited, PaymentTypeOK
<1>2. CASE ~StepWallet(p)
  <2>1. CASE OrderStep(p)
    BY <2>1 DEF OrderStep, InsertOrder, FulfilCredits, InsertSessions, LogSessions, MarkCredited,
                CountUse, paymentHistory
  <2>2. CASE ReceiptStep(p)
    BY <2>2 DEF ReceiptStep, FindReceipt, InsertReceipt, CreditPack, ReceiptDone, paymentHistory
  <2>3. CASE PlanStep(p)
    BY <2>3 DEF PlanStep, AssignPlan, CreditMonthly, Subscribe, FreePlan, CancelSubscription,
                paymentHistory
  <2>4. CASE CallWallet(p) \/ UnwindJob(p)
    BY <2>4 DEF CallWallet, UnwindJob, paymentHistory
  <2>5. CASE \/ \E o \in Orders, kind \in {"credits", "interview_sessions"}, discount \in BOOLEAN :
                   CreateOrder(p, o, kind, discount)
             \/ \E o \in Orders : ConfirmOrder(p, o)
             \/ \E todo \in SUBSET Txns : VerifyReceipt(p, todo)
             \/ \E e \in Events : Webhook(p, e)
    BY <2>5 DEF CreateOrder, ConfirmOrder, VerifyReceipt, Webhook, paymentHistory
  <2> QED  BY <1>2, <2>1, <2>2, <2>3, <2>4, <2>5 DEF Acts
<1> QED  BY <1>1, <1>2

LEMMA NextReceiptInv ==
    ASSUME PaymentTypeOK, Hands, ReceiptInv, [Next]_allVars
    PROVE  ReceiptInv'
<1>0. /\ receipts \in [Txns -> Nat] /\ granted \in [Txns -> Nat] /\ job \in [Requests -> Job]
      /\ receipts' \in [Txns -> Nat] /\ granted' \in [Txns -> Nat]
      /\ req \in [Requests -> Request] /\ WalletTypeOK
  BY NextPaymentType DEF PaymentTypeOK, WalletTypeOK
<1> DEFINE Kept(t) == IsFiniteSet(Owing(t)') /\ granted'[t] + Cardinality(Owing(t)') <= receipts'[t]
<1>1. ASSUME NEW t \in Txns
      PROVE  /\ IsFiniteSet(Owing(t)) /\ Cardinality(Owing(t)) \in Nat
             /\ granted[t] + Cardinality(Owing(t)) <= receipts[t]
  BY FS_CardinalityType DEF ReceiptInv
<1>2. ASSUME NEW t \in Txns, Owing(t)' \subseteq Owing(t),
             granted'[t] = granted[t], receipts'[t] >= receipts[t]
      PROVE  Kept(t)
  <2>1. IsFiniteSet(Owing(t)') /\ Cardinality(Owing(t)') <= Cardinality(Owing(t))
    BY <1>1, <1>2, FS_Subset
  <2>2. Cardinality(Owing(t)') \in Nat
    BY <2>1, FS_CardinalityType
  <2> QED  BY <1>0, <1>1, <1>2, <2>1, <2>2
<1>3. ASSUME NEW t \in Txns
      PROVE  receipts'[t] >= receipts[t]
  BY <1>0, <1>3, Writers DEF InsertReceipt
<1>4. ASSUME NEW t \in Txns, NEW p \in Requests, Acts(p)
      PROVE  Kept(t)
  <2>1. CASE InsertReceipt(p) /\ job[p].txn = t
    <3>1. receipts'[t] = receipts[t] + 1 /\ UNCHANGED granted
      BY <1>0, <2>1 DEF InsertReceipt, paymentHistory
    <3>2. /\ IsFiniteSet(Owing(t) \cup {p}) /\ Cardinality(Owing(t) \cup {p}) \in Nat
          /\ Cardinality(Owing(t) \cup {p}) <= Cardinality(Owing(t)) + 1
      <4>1. /\ IsFiniteSet(Owing(t) \cup {p})
            /\ Cardinality(Owing(t) \cup {p}) =
                 IF p \in Owing(t) THEN Cardinality(Owing(t)) ELSE Cardinality(Owing(t)) + 1
        BY <1>1, FS_AddElement
      <4> QED  BY <1>1, <4>1
    <3>3. Owing(t)' \subseteq Owing(t) \cup {p}
      BY <1>4, OwingChange
    <3>4. IsFiniteSet(Owing(t)') /\ Cardinality(Owing(t)') <= Cardinality(Owing(t) \cup {p})
      BY <3>2, <3>3, FS_Subset
    <3>5. Cardinality(Owing(t)') \in Nat
      BY <3>4, FS_CardinalityType
    <3> QED  BY <1>0, <1>1, <3>1, <3>2, <3>4, <3>5
  <2>2. CASE StepWallet(p) /\ At(p, "add_write") /\ job[p].txn = t
    <3>1. granted'[t] = granted[t] + 1 /\ UNCHANGED <<receipts, job>>
      <4>1. t # NoTxn /\ Credited(p) /\ UNCHANGED <<receipts, job>>
        BY <2>2, PaymentAssumption DEF StepWallet, paymentDocs
      <4>2. granted' = [granted EXCEPT ![t] = @ + 1]
        BY <2>2, <4>1 DEF Credited
      <4> QED  BY <1>0, <4>1, <4>2
    <3>2. p \in Owing(t)
      BY <2>2 DEF Owing, Owes, At, Before
    <3>3. job[p].pc \in Waiting /\ req[p].after = "add"
      <4>1. job[p] # NoJob /\ Paired(job[p], req[p]) /\ req[p].pc = "add_write"
        BY <2>2, PaymentAssumption DEF NoJob, Hands, At
      <4> QED  BY <4>1, IdleType DEF Paired
    <3>4. req'[p].pc \notin Before
      <4>1. req'[p].pc \in {"add_log", "raised"} \/ req'[p] = Idle
        BY <1>0, <2>2, <3>3, AddCallStep DEF StepWallet, At, Before
      <4> QED  BY <4>1, IdleType DEF Before
    <3>5. p \notin Owing(t)'
      BY <3>1, <3>3, <3>4 DEF Owing, Owes, Waiting
    <3>6. Owing(t)' = Owing(t) \ {p}
      BY <1>4, <3>5, OwingChange
    <3>7. IsFiniteSet(Owing(t) \ {p}) /\ Cardinality(Owing(t) \ {p}) = Cardinality(Owing(t)) - 1
      BY <1>1, <3>2, FS_RemoveElement
    <3> QED  BY <1>0, <1>1, <3>1, <3>6, <3>7
  <2>3. CASE /\ ~(InsertReceipt(p) /\ job[p].txn = t)
             /\ ~(StepWallet(p) /\ At(p, "add_write") /\ job[p].txn = t)
    <3>1. granted'[t] = granted[t]
      BY <1>0, <1>4, <2>3, GrantedChange
    <3>2. p \in Owing(t)' => p \in Owing(t)
      <4>1. CASE InsertReceipt(p)
        <5>1. job'[p].txn = job[p].txn /\ UNCHANGED req
          BY <4>1, <1>0, AdvanceType DEF InsertReceipt, Advance, JobPCs, walletVars
        <5> QED  BY <2>3, <4>1, <5>1 DEF Owing, Owes
      <4>2. CASE ~InsertReceipt(p)
        BY <1>4, <4>2, OwesLater DEF Owing
      <4> QED  BY <4>1, <4>2
    <3>3. Owing(t)' \subseteq Owing(t)
      BY <1>4, <3>2, OwingChange
    <3> QED  BY <1>2, <1>3, <3>1, <3>3
  <2> QED  BY <2>1, <2>2, <2>3
<1>5. ASSUME NEW t \in Txns, Elsewhere \/ UNCHANGED allVars
      PROVE  Kept(t)
  <2>1. UNCHANGED <<job, req, granted, receipts>>
    BY <1>5, ElsewhereKeeps
  <2>2. Owing(t)' \subseteq Owing(t)
    BY <2>1 DEF Owing, Owes
  <2> QED  BY <1>2, <2>1, <2>2, <1>3
<1>6. ASSUME NEW t \in Txns, RestartServer
      PROVE  Kept(t)
  <2>1. job' = [p \in Requests |-> NoJob] /\ UNCHANGED <<granted, receipts>>
    BY <1>6 DEF RestartServer, paymentDocs
  <2>2. Owing(t)' \subseteq Owing(t)
    BY <2>1, PaymentAssumption DEF Owing, Owes, NoJob
  <2> QED  BY <1>2, <1>3, <2>1, <2>2
<1>7. ASSUME NEW t \in Txns
      PROVE  Kept(t)
  BY <1>4, <1>5, <1>6, NextCases
<1> QED  BY <1>7 DEF ReceiptInv

\* verify_apple_receipt, verify_google_receipt: the wallet is credited for a store
\* transaction at most as often as iap_receipts holds a row of it, however the
\* handlers of the same receipt race and wherever the server stops.
THEOREM ReceiptFirstInvariant == Spec => []ReceiptFirst
<1>1. Init => ReceiptInv
  <2> SUFFICES ASSUME Init, NEW t \in Txns
               PROVE  IsFiniteSet(Owing(t)) /\ granted[t] + Cardinality(Owing(t)) <= receipts[t]
    BY DEF ReceiptInv
  <2>1. Owing(t) = {}
    BY PaymentAssumption DEF Init, Owing, Owes, NoJob
  <2> QED  BY <2>1, FS_EmptySet DEF Init
<1>2. PaymentTypeOK /\ Hands /\ ReceiptInv /\ [Next]_allVars => ReceiptInv'
  BY NextReceiptInv
<1>3. PaymentTypeOK /\ ReceiptInv => ReceiptFirst
  BY FS_CardinalityType DEF ReceiptInv, ReceiptFirst, PaymentTypeOK
<1> QED  BY <1>1, <1>2, <1>3, PaymentTypes, PTL DEF Spec

-----------------------------------------------------------------------------
(* A handler that credits a purchase is not refused: its user's wallet is    *)
(* open, and the row of a purchase is of a known kind.  So a handler that    *)
(* waits for the wallet with a pack in hand always gets its answer.          *)

PayPCs == {"wallet_read", "refill", "daily_log", "add_write", "add_log"}
Paying(r) == r.pc \in PayPCs /\ r.after = "add" /\ r.kind = "purchase"

CreditedPCs == {"order_credited", "receipt_next"}

ServedAt(p) ==
    /\ job[p] # NoJob => wallet.open
    /\ job[p].pc \in CreditedPCs => req[p] = Idle \/ Paying(req[p])

Served == \A p \in Requests : ServedAt(p)

LEMMA PurchaseStep ==
    ASSUME WalletTypeOK, wallet.open, NEW p \in Requests, WalletStep(p), Paying(req[p])
    PROVE  \/ At(p, "add_write") /\ Paying(req'[p]) /\ req'[p].pc = "add_log"
           \/ At(p, "add_log") /\ req'[p] = Idle
           \/ /\ ~At(p, "add_write") /\ ~At(p, "add_log")
              /\ Paying(req'[p]) /\ req'[p].pc # "add_log"
<1>0. /\ req \in [Requests -> Request] /\ req[p] \in Request
      /\ wallet \in WalletDoc /\ now \in Nat
  BY DEF WalletTypeOK
<1>1. ASSUME NEW q, Become(p, q)
      PROVE  req'[p] = q
  BY <1>0, <1>1 DEF Become
<1>2. ASSUME NEW q \in Request, NEW pc \in PayPCs, Paying(q)
      PROVE  Paying([q EXCEPT !.pc = pc])
  <2>1. pc \in PCs
    BY PCNames DEF PayPCs
  <2> QED  BY <1>2, <2>1, AtType DEF Paying
<1>3. ASSUME NEW q \in Request, Paying(q)
      PROVE  Paying(Resumed(q)) /\ Resumed(q).pc = "add_write"
  <2>1. Resumed(q) = [q EXCEPT !.pc = "add_write"]
    BY <1>3 DEF Resumed, Paying
  <2>2. "add_write" \in PCs /\ "add_write" \in PayPCs
    BY PCNames DEF PayPCs
  <2> QED  BY <1>2, <1>3, <2>1, <2>2, AtType
<1>4. CASE ReadWallet(p)
  <2> DEFINE q == [req[p] EXCEPT !.held = wallet.credits, !.at = now]
             r == [q EXCEPT !.pc = "refill", !.held["daily"] = DAILY_CREDITS]
  <2>1. q \in Request /\ Paying(q)
    BY <1>0, WalletFields DEF Request, Amounts, Paying
  <2>2. ~At(p, "add_write") /\ ~At(p, "add_log")
    BY <1>4 DEF ReadWallet, At
  <2>3. Paying(r) /\ r.pc = "refill"
    <3> HIDE DEF q
    <3> QED  BY <2>1 DEF Request, Paying, PayPCs
  <2>4. Become(p, Resumed(q)) \/ Become(p, r)
    BY <1>4 DEF ReadWallet
  <2> HIDE DEF q, r
  <2> QED  BY <1>1, <1>3, <2>1, <2>2, <2>3, <2>4
<1>5. CASE WelcomeLog(p) \/ InsertWallet(p)
  BY <1>5 DEF WelcomeLog, InsertWallet, At, Paying, PayPCs
<1>6. CASE Refill(p)
  <2>1. ~At(p, "add_write") /\ ~At(p, "add_log")
    BY <1>6 DEF Refill, At
  <2>2. [req[p] EXCEPT !.pc = "daily_log"].pc = "daily_log"
    BY <1>0, AtType, PCNames
  <2>3. Paying([req[p] EXCEPT !.pc = "daily_log"])
    BY <1>0, <1>2 DEF PayPCs
  <2>4. req'[p] = [req[p] EXCEPT !.pc = "daily_log"]
    BY <1>1, <1>6 DEF Refill
  <2> QED  BY <2>1, <2>2, <2>3, <2>4
<1>7. CASE DailyLog(p)
  <2>1. ~At(p, "add_write") /\ ~At(p, "add_log")
    BY <1>7 DEF DailyLog, At
  <2>2. req'[p] = Resumed(req[p])
    BY <1>1, <1>7 DEF DailyLog
  <2> QED  BY <1>0, <1>3, <2>1, <2>2
<1>8. CASE AddWrite(p)
  <2> DEFINE new == req[p].held[req[p].bucket] + req[p].amount
             r == [req[p] EXCEPT !.pc = "add_log", !.held[req[p].bucket] = new]
  <2>1. Become(p, r) /\ At(p, "add_write")
    BY <1>8 DEF AddWrite
  <2>2. Paying(r) /\ r.pc = "add_log"
    <3> HIDE DEF new
    <3> QED  BY <1>0 DEF Request, Paying, PayPCs
  <2> HIDE DEF r
  <2> QED  BY <1>1, <2>1, <2>2
<1>9. CASE AddLog(p)
  <2>1. req[p].kind \in TransactionKinds
    BY DEF Paying, TransactionKinds
  <2> QED  BY <1>1, <1>9, <2>1 DEF AddLog, At
<1>10. CASE \/ ReadWindow(p) \/ ResetWindow(p) \/ Work(p) \/ DeductWrite(p) \/ DeductLog(p)
            \/ AdvanceWindow(p) \/ RecordUsage(p)
  BY <1>10 DEF ReadWindow, ResetWindow, Work, DeductWrite, DeductLog, AdvanceWindow,
               RecordUsage, At, Paying, PayPCs
<1> QED  BY <1>4, <1>5, <1>6, <1>7, <1>8, <1>9, <1>10 DEF WalletStep

\* Nothing closes a wallet.
LEMMA StaysOpen ==
    ASSUME WalletTypeOK, [WalletNext]_walletVars, wallet.open
    PROVE  wallet'.open
<1>0. wallet \in WalletDoc
  BY DEF WalletTypeOK
<1>1. ASSUME NEW p \in Requests, WalletStep(p)
      PROVE  wallet'.open
  <2>1. CASE InsertWallet(p) \/ Refill(p) \/ ResetWindow(p) \/ AdvanceWindow(p)
    BY <1>0, <2>1 DEF InsertWallet, Refill, ResetWindow, AdvanceWindow, WalletDoc
  <2>2. CASE DeductWrite(p) \/ AddWrite(p)
    BY <1>0, <2>2 DEF DeductWrite, AddWrite, WalletDoc
  <2>3. CASE \/ ReadWallet(p) \/ WelcomeLog(p) \/ DailyLog(p) \/ ReadWindow(p) \/ Work(p)
             \/ DeductLog(p) \/ RecordUsage(p) \/ AddLog(p)
    BY <2>3 DEF ReadWallet, WelcomeLog, DailyLog, ReadWindow, Work, DeductLog, RecordUsage, AddLog
  <2> QED  BY <1>1, <2>1, <2>2, <2>3 DEF WalletStep
<1>2. ASSUME NEW p \in Requests, WalletCall(p) \/ Unwind(p)
      PROVE  UNCHANGED wallet
  BY <1>2 DEF WalletCall, GetWallet, AdjustWallet, Spend, CheckedService, ChatMessage, Call, Unwind
<1>3. ASSUME NEW p \in Requests, NEW amount, NEW bucket, NEW kind,
             AddCredits(p, amount, bucket, kind)
      PROVE  UNCHANGED wallet
  BY <1>3 DEF AddCredits, Call
<1>4. CASE Tick \/ Restart \/ UNCHANGED walletVars
  BY <1>4 DEF Tick, Restart, walletVars
<1> QED  BY <1>1, <1>2, <1>3, <1>4 DEF WalletNext

\* A handler calls the wallet, waits for it, is refused, or acts on its own.
LEMMA ActsKinds ==
    ASSUME NEW p \in Requests, Acts(p)
    PROVE  \/ CallWallet(p) \/ StepWallet(p) \/ UnwindJob(p)
           \/ FulfilCredits(p) \/ CreditPack(p) \/ CreditMonthly(p)
           \/ req[p] = Idle /\ UNCHANGED walletVars /\ (job[p] = NoJob => wallet.open)
<1>1. CASE \/ \E o \in Orders, kind \in {"credits", "interview_sessions"}, discount \in BOOLEAN :
                 CreateOrder(p, o, kind, discount)
           \/ \E o \in Orders : ConfirmOrder(p, o)
           \/ \E todo \in SUBSET Txns : VerifyReceipt(p, todo)
           \/ \E e \in Events : Webhook(p, e)
  BY <1>1 DEF CreateOrder, ConfirmOrder, VerifyReceipt, Webhook, Begin
<1>2. CASE \/ InsertOrder(p) \/ InsertSessions(p) \/ LogSessions(p) \/ MarkCredited(p) \/ CountUse(p)
           \/ FindReceipt(p) \/ InsertReceipt(p) \/ ReceiptDone(p)
           \/ AssignPlan(p) \/ Subscribe(p) \/ FreePlan(p) \/ CancelSubscription(p)
  <2>1. req[p] = Idle /\ UNCHANGED walletVars /\ job[p].pc # "none"
    BY <1>2 DEF InsertOrder, InsertSessions, LogSessions, MarkCredited, CountUse, FindReceipt,
       InsertReceipt, ReceiptDone, AssignPlan, Subscribe, FreePlan, CancelSubscription, JobAt
  <2> QED  BY <2>1, NoJobType
<1> QED  BY <1>1, <1>2 DEF Acts, OrderStep, ReceiptStep, PlanStep

LEMMA ActorServed ==
    ASSUME PaymentTypeOK, Hands, Served, [Next]_allVars, NEW p \in Requests, Acts(p)
    PROVE  ServedAt(p)'
<1>0. /\ WalletTypeOK /\ job \in [Requests -> Job] /\ req \in [Requests -> Request]
      /\ ServedAt(p) /\ InHand(job[p])
  BY DEF PaymentTypeOK, WalletTypeOK, Served, Hands
<1>1. wallet.open => wallet'.open
  BY <1>0, PaymentMovesWallet, StaysOpen
<1>2. ASSUME job'[p] = NoJob
      PROVE  ServedAt(p)'
  BY <1>2, NoJobType DEF ServedAt, CreditedPCs
<1>3. CASE CallWallet(p) \/ UnwindJob(p)
  BY <1>0, <1>2, <1>3 DEF CallWallet, UnwindJob, Finish
<1>4. CASE StepWallet(p)
  <2>1. WalletStep(p) /\ UNCHANGED job
    BY <1>4 DEF StepWallet
  <2>2. CASE job[p].pc \in CreditedPCs
    <3>1. req[p] # Idle
      BY <2>1, IdleType DEF WalletStep, ReadWallet, InsertWallet, WelcomeLog, Refill, DailyLog,
         ReadWindow, ResetWindow, Work, DeductWrite, DeductLog, AdvanceWindow, RecordUsage,
         AddWrite, AddLog, At
    <3>2. Paying(req[p]) /\ wallet.open
      BY <1>0, <2>2, <3>1, NoJobType DEF ServedAt, CreditedPCs
    <3>3. Paying(req'[p]) \/ req'[p] = Idle
      BY <1>0, <2>1, <3>2, PurchaseStep
    <3> QED  BY <1>1, <2>1, <3>2, <3>3 DEF ServedAt
  <2>3. CASE job[p].pc \notin CreditedPCs
    BY <1>0, <1>1, <2>1, <2>3 DEF ServedAt
  <2> QED  BY <2>2, <2>3
<1>5. CASE FulfilCredits(p) \/ CreditPack(p) \/ CreditMonthly(p)
  <2>1. wallet'.open
    BY <1>0, <1>1, <1>5, NoJobType DEF FulfilCredits, CreditPack, CreditMonthly, JobAt, ServedAt
  <2>2. CASE FulfilCredits(p) \/ CreditPack(p)
    <3> DEFINE q == [Idle EXCEPT !.amount = PackCredits, !.bucket = "purchased", !.kind = "purchase"]
    <3>1. req'[p] = Fetch(q, "add")
      BY <1>0, <2>2 DEF FulfilCredits, CreditPack, AddCredits, Call
    <3>2. Paying(Fetch(q, "add"))
      BY DEF Fetch, Idle, Paying, PayPCs
    <3> QED  BY <2>1, <3>1, <3>2 DEF ServedAt
  <2>3. CASE CreditMonthly(p)
    <3>1. job'[p].pc = "plan_subscribe"
      BY <1>0, <2>3, AdvanceType DEF CreditMonthly, Advance, JobPCs
    <3> QED  BY <2>1, <3>1 DEF ServedAt, CreditedPCs
  <2> QED  BY <1>5, <2>2, <2>3
<1>6. CASE req[p] = Idle /\ UNCHANGED walletVars /\ (job[p] = NoJob => wallet.open)
  BY <1>0, <1>6 DEF ServedAt, walletVars
<1> QED  BY <1>3, <1>4, <1>5, <1>6, ActsKinds

LEMMA NextServed ==
    ASSUME PaymentTypeOK, Hands, Served, [Next]_allVars
    PROVE  Served'
<1>0. WalletTypeOK /\ job \in [Requests -> Job]
  BY DEF PaymentTypeOK
<1>1. wallet.open => wallet'.open
  BY <1>0, PaymentMovesWallet, StaysOpen
<1> SUFFICES ASSUME NEW q \in Requests PROVE ServedAt(q)'
  BY DEF Served
<1>2. ASSUME NEW p \in Requests, Acts(p)
      PROVE  ServedAt(q)'
  <2>1. CASE p = q
    BY <1>2, <2>1, ActorServed
  <2>2. CASE p # q
    <3>1. job'[q] = job[q] /\ req'[q] = req[q]
      BY <1>2, <2>2, OthersStay
    <3> QED  BY <1>1, <3>1 DEF Served, ServedAt
  <2> QED  BY <2>1, <2>2
<1>3. CASE Elsewhere \/ UNCHANGED allVars
  <2>1. UNCHANGED <<job, req>>
    BY <1>3, ElsewhereKeeps
  <2> QED  BY <1>1, <2>1 DEF Served, ServedAt
<1>4. CASE RestartServer
  <2>1. job'[q] = NoJob
    BY <1>4 DEF RestartServer
  <2> QED  BY <2>1, NoJobType DEF ServedAt, CreditedPCs
<1> QED  BY <1>2, <1>3, <1>4, NextCases

LEMMA InitServed == Init => Served
BY NoJobType DEF Init, Served, ServedAt, CreditedPCs

-----------------------------------------------------------------------------
(* FulfilledOnce.  A link that no two handlers worked on, and in whose       *)
(* fulfilment the server did not stop, is at every moment in one of a few    *)
(* situations: the handler that fulfils it tells how far it is, and when     *)
(* there is none the credited flag does.                                     *)

Given(p) == job[p].pc \in GivenPCs /\ req[p].pc \notin Before

OrderSettled(o) ==
    /\ \A p, q \in Requests : Fulfilling(p, o) /\ Fulfilling(q, o) => p = q
    /\ \A p \in Requests : Fulfilling(p, o) =>
          /\ fulfilled[o] = IF Given(p) THEN 1 ELSE 0
          /\ order[o].credited <=> job[p].pc = "discount_use"
    /\ (\A p \in Requests : ~Fulfilling(p, o))
          => fulfilled[o] = IF order[o].credited THEN 1 ELSE 0

OrdersSettled == \A o \in Orders : o \notin contested => OrderSettled(o)

LEMMA OrderChange ==
    ASSUME PaymentTypeOK, [Next]_allVars, NEW o \in Orders
    PROVE  /\ \/ order'[o].credited = order[o].credited
              \/ order'[o].credited /\ \E p \in Requests : MarkCredited(p) /\ job[p].order = o
           /\ \/ /\ order'[o].made = order[o].made
                 /\ order'[o].discount = order[o].discount
              \/ \E p \in Requests : /\ InsertOrder(p) /\ job[p].order = o
                                     /\ order'[o].made
<1>0. /\ order \in [Orders -> OrderDoc] /\ job \in [Requests -> Job]
  BY DEF PaymentTypeOK
<1>1. ASSUME NEW p \in Requests, InsertOrder(p)
      PROVE  /\ order'[o].credited = order[o].credited
             /\ job[p].order = o => order'[o].made
             /\ job[p].order # o => order'[o] = order[o]
  <2> DEFINE d == [order[job[p].order] EXCEPT !.made = TRUE, !.kind = job[p].kind,
                                              !.discount = job[p].discount]
  <2>1. order' = [order EXCEPT ![job[p].order] = d]
    BY <1>1 DEF InsertOrder
  <2>2. CASE job[p].order = o
    <3>1. d.made /\ d.credited = order[o].credited
      BY <1>0, <2>2 DEF OrderDoc
    <3> HIDE DEF d
    <3> QED  BY <1>0, <2>1, <2>2, <3>1
  <2>3. CASE job[p].order # o
    BY <1>0, <2>1, <2>3
  <2> QED  BY <2>2, <2>3
<1>2. ASSUME NEW p \in Requests, MarkCredited(p)
      PROVE  /\ order'[o].made = order[o].made /\ order'[o].discount = order[o].discount
             /\ job[p].order = o => order'[o].credited
             /\ job[p].order # o => order'[o] = order[o]
  <2>1. order' = [order EXCEPT ![job[p].order] = [order[job[p].order] EXCEPT !.credited = TRUE]]
    BY <1>2 DEF MarkCredited
  <2>2. CASE job[p].order = o
    <3>1. order'[o] = [order[o] EXCEPT !.credited = TRUE]
      BY <1>0, <2>1, <2>2
    <3> QED  BY <1>0, <2>2, <3>1 DEF OrderDoc
  <2>3. CASE job[p].order # o
    BY <1>0, <2>1, <2>3
  <2> QED  BY <2>2, <2>3
<1>3. ASSUME NEW k \in Orders, Pay(k)
      PROVE  /\ order'[o].made = order[o].made /\ order'[o].discount = order[o].discount
             /\ order'[o].credited = order[o].credited
  <2>1. order' = [order EXCEPT ![k] = [order[k] EXCEPT !.paid = TRUE]]
    BY <1>3 DEF Pay
  <2>2. CASE k = o
    <3>1. order'[o] = [order[o] EXCEPT !.paid = TRUE]
      BY <1>0, <2>1, <2>2
    <3> QED  BY <1>0, <3>1 DEF OrderDoc
  <2>3. CASE k # o
    BY <1>0, <2>1, <2>3
  <2> QED  BY <2>2, <2>3
<1> QED  BY <1>0, <1>1, <1>2, <1>3, Writers

LEMMA ContestedGrows ==
    ASSUME [Next]_allVars
    PROVE  contested \subseteq contested'
<1>1. CASE \E p \in Requests : OrderStep(p) \/ ReceiptStep(p) \/ PlanStep(p)
  BY <1>1 DEF OrderStep, InsertOrder, FulfilCredits, InsertSessions, LogSessions, MarkCredited,
     CountUse, ReceiptStep, FindReceipt, InsertReceipt, CreditPack, ReceiptDone,
     PlanStep, AssignPlan, CreditMonthly, Subscribe, FreePlan, CancelSubscription, paymentHistory
<1>2. CASE \E p \in Requests : \/ CallWallet(p) \/ StepWallet(p) \/ UnwindJob(p)
                               \/ \E todo \in SUBSET Txns : VerifyReceipt(p, todo)
                               \/ \E e \in Events : Webhook(p, e)
  BY <1>2 DEF CallWallet, StepWallet, UnwindJob, VerifyReceipt, Webhook, paymentHistory
<1>3. CASE \E p \in Requests, o \in Orders :
             \/ ConfirmOrder(p, o)
             \/ \E kind \in {"credits", "interview_sessions"}, discount \in BOOLEAN :
                   CreateOrder(p, o, kind, discount)
  BY <1>3 DEF CreateOrder, ConfirmOrder, paymentHistory
<1>4. CASE \/ \E o \in Orders : Pay(o)
           \/ \E e \in Events : OpenSubscription(e)
           \/ PassTime \/ RestartServer \/ UNCHANGED allVars
  BY <1>4 DEF Pay, OpenSubscription, PassTime, RestartServer, allVars, paymentVars, paymentHistory
<1> QED  BY <1>1, <1>2, <1>3, <1>4 DEF Next

\* What a handler's step does to one order.  It begins to fulfil it, it goes on,
\* it is done with it, or the order is none of its business.
Begins(p, o) == /\ ~Fulfilling(p, o) /\ Fulfilling(p, o)' /\ ConfirmOrder(p, o)
                /\ ~Given(p)' /\ job'[p].pc # "discount_use"
                /\ fulfilled'[o] = fulfilled[o] /\ order'[o] = order[o]

GoesOn(p, o) == /\ Fulfilling(p, o) /\ Fulfilling(p, o)'
                /\ \/ (Given(p)' <=> Given(p)) /\ fulfilled'[o] = fulfilled[o]
                   \/ ~Given(p) /\ Given(p)' /\ fulfilled'[o] = fulfilled[o] + 1
                /\ \/ /\ order'[o].credited = order[o].credited
                      /\ job[p].pc # "discount_use" /\ job'[p].pc # "discount_use"
                   \/ /\ Given(p) /\ job[p].pc # "discount_use" /\ MarkCredited(p)
                      /\ order'[o].credited /\ job'[p].pc = "discount_use"

Ends(p, o) == /\ Fulfilling(p, o) /\ ~Fulfilling(p, o)'
              /\ Given(p) /\ fulfilled'[o] = fulfilled[o]
              /\ \/ order'[o].credited
                 \/ job[p].pc = "discount_use" /\ order'[o].credited = order[o].credited

LeavesAlone(p, o) == /\ ~Fulfilling(p, o) /\ ~Fulfilling(p, o)'
                     /\ fulfilled'[o] = fulfilled[o] /\ order'[o].credited = order[o].credited

LEMMA FulfilStep ==
    ASSUME PaymentTypeOK, Hands, Served, [Next]_allVars, NEW p \in Requests, Acts(p),
           NEW o \in Orders
    PROVE  Begins(p, o) \/ GoesOn(p, o) \/ Ends(p, o) \/ LeavesAlone(p, o)
<1>0. /\ WalletTypeOK /\ job \in [Requests -> Job] /\ req \in [Requests -> Request]
      /\ fulfilled \in [Orders -> Nat] /\ order \in [Orders -> OrderDoc]
      /\ InHand(job[p]) /\ Paired(job[p], req[p]) /\ ServedAt(p) /\ o # NoOrder
  BY PaymentAssumption DEF PaymentTypeOK, WalletTypeOK, Hands, Served
<1>1. ASSUME NEW j, job' = [job EXCEPT ![p] = j]
      PROVE  job'[p] = j
  BY <1>0, <1>1
<1>2. ASSUME NEW pc \in JobPCs, Advance(p, pc)
      PROVE  job'[p].pc = pc /\ job'[p].order = job[p].order
  BY <1>0, <1>2, AdvanceType DEF Advance
<1>3. NoJob.order = NoOrder /\ NoJob.pc = "none"
  BY DEF NoJob
<1>4. Idle.pc \notin Before
  BY IdleType DEF Before
<1>5. Fulfilling(p, o) => job[p].pc \in ConfirmPCs
  BY <1>0 DEF InHand, Fulfilling, ConfirmPCs
<1>6. ASSUME ~Fulfilling(p, o), ~Fulfilling(p, o)', UNCHANGED <<fulfilled, order>>
      PROVE  LeavesAlone(p, o)
  BY <1>6 DEF LeavesAlone
<1>7. CASE CallWallet(p)
  <2>1. job'[p] = NoJob /\ job[p] = NoJob /\ UNCHANGED <<fulfilled, order>>
    BY <1>7 DEF CallWallet, paymentDocs, paymentHistory
  <2> QED  BY <1>0, <1>3, <1>6, <2>1 DEF Fulfilling
<1>8. CASE UnwindJob(p)
  <2>1. /\ job'[p] = NoJob /\ req[p].pc = "raised" /\ UNCHANGED <<fulfilled, order>>
    BY <1>1, <1>8 DEF UnwindJob, Unwind, Finish, At, paymentDocs, paymentHistory
  <2>2. ~Fulfilling(p, o)
    <3>1. req[p] # Idle /\ ~Paying(req[p])
      BY <2>1, IdleType DEF Paying, PayPCs
    <3>2. job[p].pc \notin CreditedPCs /\ (job[p] = NoJob \/ job[p].pc \in Waiting)
      BY <1>0, <3>1 DEF ServedAt, Paired
    <3> QED  BY <1>0, <1>3, <1>5, <3>2 DEF Waiting, ConfirmPCs, OrderPCs, CreditedPCs, Fulfilling
  <2> QED  BY <1>0, <1>3, <1>6, <2>1, <2>2 DEF Fulfilling
<1>9. CASE StepWallet(p)
  <2>0. WalletStep(p) /\ UNCHANGED <<job, order>>
    BY <1>9 DEF StepWallet, paymentDocs
  <2>1. CASE ~Fulfilling(p, o)
    <3>1. fulfilled'[o] = fulfilled[o]
      <4>1. CASE At(p, "add_write") /\ job[p].pc = "order_credited"
        <5>1. job[p].order # o
          BY <2>1, <4>1 DEF Fulfilling
        <5>2. fulfilled' = [fulfilled EXCEPT ![job[p].order] = @ + 1]
          BY <1>9, <4>1 DEF StepWallet, Credited
        <5> QED  BY <1>0, <5>1, <5>2
      <4>2. CASE ~(At(p, "add_write") /\ job[p].pc = "order_credited")
        BY <1>9, <4>2 DEF StepWallet, Credited
      <4> QED  BY <4>1, <4>2
    <3> QED  BY <2>0, <2>1, <3>1 DEF LeavesAlone, Fulfilling
  <2>2. CASE Fulfilling(p, o)
    <3>1. req[p] # Idle
      BY <2>0, IdleType DEF WalletStep, ReadWallet, InsertWallet, WelcomeLog, Refill, DailyLog,
         ReadWindow, ResetWindow, Work, DeductWrite, DeductLog, AdvanceWindow, RecordUsage,
         AddWrite, AddLog, At
    <3>2. job[p].pc = "order_credited" /\ job[p].order = o /\ job[p] # NoJob
      <4>1. job[p] # NoJob /\ job[p].order = o
        BY <1>0, <1>3, <2>2 DEF Fulfilling
      <4> QED  BY <1>0, <1>5, <2>2, <3>1, <4>1 DEF Paired, Waiting, ConfirmPCs, OrderPCs
    <3>3. wallet.open /\ Paying(req[p])
      BY <1>0, <3>1, <3>2 DEF ServedAt, CreditedPCs
    <3>4. \/ At(p, "add_write") /\ Paying(req'[p]) /\ req'[p].pc = "add_log"
          \/ At(p, "add_log") /\ req'[p] = Idle
          \/ /\ ~At(p, "add_write") /\ ~At(p, "add_log")
             /\ Paying(req'[p]) /\ req'[p].pc # "add_log"
      BY <1>0, <2>0, <3>3, PurchaseStep
    <3>5. /\ Given(p) <=> req[p].pc \notin Before
          /\ Given(p)' <=> req'[p].pc \notin Before
      BY <2>0, <3>2 DEF Given, GivenPCs
    <3>6. Fulfilling(p, o)' /\ UNCHANGED <<job, order>>
      BY <2>0, <2>2 DEF Fulfilling
    <3>7. CASE At(p, "add_write")
      <4>1. fulfilled' = [fulfilled EXCEPT ![o] = @ + 1]
        BY <1>9, <3>2, <3>7 DEF StepWallet, Credited
      <4>2. fulfilled'[o] = fulfilled[o] + 1
        BY <1>0, <4>1
      <4>3. ~Given(p) /\ Given(p)'
        BY <3>4, <3>5, <3>7 DEF At, Before
      <4> QED  BY <2>2, <3>2, <3>6, <4>2, <4>3 DEF GoesOn
    <3>8. CASE ~At(p, "add_write")
      <4>1. UNCHANGED fulfilled
        BY <1>9, <3>8 DEF StepWallet
      <4>2. Given(p)' <=> Given(p)
        BY <1>4, <3>3, <3>4, <3>5, <3>8 DEF At, Before, Paying, PayPCs
      <4> QED  BY <2>2, <3>2, <3>6, <4>1, <4>2 DEF GoesOn
    <3> QED  BY <3>7, <3>8
  <2> QED  BY <2>1, <2>2
<1>10. ASSUME NEW k \in Orders, NEW kind \in {"credits", "interview_sessions"},
              NEW discount \in BOOLEAN, CreateOrder(p, k, kind, discount)
       PROVE  LeavesAlone(p, o)
  <2>1. /\ job[p] = NoJob /\ job'[p].pc = "order_insert" /\ UNCHANGED <<fulfilled, order>>
    BY <1>0, <1>10 DEF CreateOrder, Begin, NoJob, paymentDocs, paymentHistory
  <2> QED  BY <1>0, <1>3, <1>6, <2>1 DEF Fulfilling
<1>11. ASSUME NEW k \in Orders, ConfirmOrder(p, k)
       PROVE  Begins(p, o) \/ LeavesAlone(p, o)
  <2>1. /\ job[p] = NoJob /\ job'[p].order = k /\ UNCHANGED <<fulfilled, order>>
        /\ job'[p].pc \in {"order_fulfil", "sessions_insert"}
    BY <1>0, <1>11 DEF ConfirmOrder, Begin, NoJob, paymentDocs
  <2>2. ~Fulfilling(p, o)
    BY <1>0, <1>3, <2>1 DEF Fulfilling
  <2>3. CASE k = o
    BY <1>11, <2>1, <2>2, <2>3 DEF Begins, Fulfilling, Given, GivenPCs
  <2>4. CASE k # o
    BY <1>6, <2>1, <2>2, <2>4 DEF Fulfilling
  <2> QED  BY <2>3, <2>4
<1>12. CASE \/ \E todo \in SUBSET Txns : VerifyReceipt(p, todo)
            \/ \E e \in Events : Webhook(p, e)
  <2>1. /\ job[p] = NoJob /\ job'[p].order = NoOrder /\ UNCHANGED <<fulfilled, order>>
    <3>1. ASSUME NEW todo \in SUBSET Txns, VerifyReceipt(p, todo)
          PROVE  job[p] = NoJob /\ job'[p].order = NoOrder /\ UNCHANGED <<fulfilled, order>>
      BY <1>0, <3>1 DEF VerifyReceipt, Begin, NoJob, paymentDocs, paymentHistory
    <3>2. ASSUME NEW e \in Events, Webhook(p, e)
          PROVE  job[p] = NoJob /\ job'[p].order = NoOrder /\ UNCHANGED <<fulfilled, order>>
      <4>1. PICK pc : Begin(p, "webhook", [NoJob EXCEPT !.event = e, !.pc = pc])
        BY <3>2 DEF Webhook
      <4>2. [NoJob EXCEPT !.event = e, !.pc = pc].order = NoOrder
        BY DEF NoJob
      <4> QED  BY <1>1, <3>2, <4>1, <4>2 DEF Begin, Webhook, paymentDocs, paymentHistory
    <3> QED  BY <1>12, <3>1, <3>2
  <2> QED  BY <1>0, <1>3, <1>6, <2>1 DEF Fulfilling
<1>13. CASE InsertOrder(p)
  <2>1. job[p].pc = "order_insert" /\ job'[p] = NoJob /\ UNCHANGED fulfilled
    BY <1>1, <1>13 DEF InsertOrder, JobAt, Finish, paymentHistory
  <2>2. order'[o].credited = order[o].credited
    <3>1. ~\E q \in Requests : MarkCredited(q) /\ job[q].order = o
      <4> SUFFICES ASSUME NEW q \in Requests, MarkCredited(q), job[q].order = o PROVE FALSE
        OBVIOUS
      <4>1. job[q].pc = "order_credited"
        BY DEF MarkCredited, JobAt
      <4>2. q # p /\ job[q] # NoJob
        BY <1>3, <2>1, <4>1
      <4>3. job' = [job EXCEPT ![p] = NoJob]
        BY <1>13 DEF InsertOrder, Finish
      <4>4. job'[q] = job[q]
        BY <1>0, <4>2, <4>3
      <4>5. job'[q] # job[q]
        <5>1. CASE Finish(q)
          BY <1>0, <4>2, <5>1 DEF Finish
        <5>2. CASE Advance(q, "discount_use")
          <6>1. job'[q].pc = "discount_use"
            BY <1>0, <5>2, AdvanceType DEF Advance, JobPCs
          <6> QED  BY <4>1, <6>1
        <5> QED  BY <5>1, <5>2 DEF MarkCredited
      <4> QED  BY <4>4, <4>5
    <3> QED  BY <3>1, OrderChange
  <2> QED  BY <1>0, <1>3, <2>1, <2>2 DEF LeavesAlone, Fulfilling
<1>14. CASE FulfilCredits(p)
  <2>1. /\ job[p].pc = "order_fulfil" /\ job'[p].pc = "order_credited"
        /\ job'[p].order = job[p].order /\ UNCHANGED <<fulfilled, order>>
    BY <1>2, <1>14 DEF FulfilCredits, JobAt, JobPCs, paymentDocs, paymentHistory
  <2>2. req'[p].pc = "wallet_read"
    <3> DEFINE q == [Idle EXCEPT !.amount = PackCredits, !.bucket = "purchased",
                                 !.kind = "purchase"]
    <3>1. req'[p] = Fetch(q, "add")
      BY <1>0, <1>14 DEF FulfilCredits, AddCredits, Call
    <3>2. Fetch(q, "add").pc = "wallet_read"
      BY DEF Fetch, Idle
    <3> QED  BY <3>1, <3>2
  <2>3. ~Given(p) /\ ~Given(p)'
    BY <2>1, <2>2 DEF Given, GivenPCs, Before
  <2>4. CASE job[p].order = o
    BY <2>1, <2>3, <2>4 DEF GoesOn, Fulfilling
  <2>5. CASE job[p].order # o
    BY <2>1, <2>5 DEF LeavesAlone, Fulfilling
  <2> QED  BY <2>4, <2>5
<1>15. CASE InsertSessions(p)
  <2>1. /\ job[p].pc = "sessions_insert" /\ job'[p].pc = "sessions_log" /\ req[p] = Idle
        /\ job'[p].order = job[p].order /\ UNCHANGED <<order, req>>
        /\ fulfilled' = [fulfilled EXCEPT ![job[p].order] = @ + 1]
    BY <1>2, <1>15 DEF InsertSessions, JobAt, JobPCs, paymentDocs, walletVars
  <2>2. ~Given(p) /\ Given(p)'
    BY <1>4, <2>1 DEF Given, GivenPCs
  <2>3. CASE job[p].order = o
    <3>1. fulfilled'[o] = fulfilled[o] + 1
      BY <1>0, <2>1, <2>3
    <3> QED  BY <2>1, <2>2, <2>3, <3>1 DEF GoesOn, Fulfilling
  <2>4. CASE job[p].order # o
    <3>1. fulfilled'[o] = fulfilled[o]
      BY <1>0, <2>1, <2>4
    <3> QED  BY <2>1, <2>4, <3>1 DEF LeavesAlone, Fulfilling
  <2> QED  BY <2>3, <2>4
<1>16. CASE LogSessions(p)
  <2>1. /\ job[p].pc = "sessions_log" /\ job'[p].pc = "order_credited" /\ req[p] = Idle
        /\ job'[p].order = job[p].order /\ UNCHANGED <<fulfilled, order, req>>
    BY <1>2, <1>16 DEF LogSessions, JobAt, JobPCs, paymentDocs, paymentHistory, walletVars
  <2>2. Given(p) /\ Given(p)'
    BY <1>4, <2>1 DEF Given, GivenPCs
  <2> QED  BY <1>6, <2>1, <2>2 DEF GoesOn, Fulfilling
<1>17. CASE MarkCredited(p)
  <2>1. /\ job[p].pc = "order_credited" /\ req[p] = Idle /\ UNCHANGED <<fulfilled, req>>
        /\ order' = [order EXCEPT ![job[p].order].credited = TRUE]
    BY <1>17 DEF MarkCredited, JobAt, paymentHistory, walletVars
  <2>2. \/ job'[p].pc = "discount_use" /\ job'[p].order = job[p].order
        \/ job'[p] = NoJob
    BY <1>1, <1>2, <1>17 DEF MarkCredited, Finish, JobPCs
  <2>3. Given(p) /\ (job'[p].pc = "discount_use" => Given(p)')
    BY <1>4, <2>1 DEF Given, GivenPCs
  <2>4. CASE job[p].order = o
    <3>1. order'[o].credited
      <4>1. order'[o] = [order[o] EXCEPT !.credited = TRUE]
        BY <1>0, <2>1, <2>4
      <4> QED  BY <1>0, <4>1 DEF OrderDoc
    <3> QED  BY <1>0, <1>3, <1>17, <2>1, <2>2, <2>3, <2>4, <3>1 DEF GoesOn, Ends, Fulfilling
  <2>5. CASE job[p].order # o
    <3>1. order'[o] = order[o]
      BY <1>0, <2>1, <2>5
    <3> QED  BY <1>0, <1>3, <2>1, <2>2, <2>5, <3>1 DEF LeavesAlone, Fulfilling
  <2> QED  BY <2>4, <2>5
<1>18. CASE CountUse(p)
  <2>1. /\ job[p].pc = "discount_use" /\ req[p] = Idle /\ job'[p] = NoJob
        /\ UNCHANGED <<fulfilled, order>>
    BY <1>1, <1>18 DEF CountUse, JobAt, Finish, paymentHistory
  <2>2. Given(p)
    BY <1>4, <2>1 DEF Given, GivenPCs
  <2> QED  BY <1>0, <1>3, <1>6, <2>1, <2>2 DEF Ends, Fulfilling
<1>19. CASE ReceiptStep(p) \/ PlanStep(p)
  <2>1. job[p].pc \notin OrderPCs /\ UNCHANGED <<fulfilled, order>>
    BY <1>19 DEF ReceiptStep, FindReceipt, InsertReceipt, CreditPack, ReceiptDone,
       PlanStep, AssignPlan, CreditMonthly, Subscribe, FreePlan, CancelSubscription, JobAt,
       OrderPCs, paymentDocs, paymentHistory
  <2>2. job[p].order = NoOrder
    BY <1>0, <2>1 DEF InHand
  <2>3. job'[p].order = NoOrder
    <3>1. CASE FindReceipt(p) \/ ReceiptDone(p)
      <4>1. PICK todo, k : job' = [job EXCEPT ![p] = NextPurchase(todo)]
                           \/ job' = [job EXCEPT ![p] = [NoJob EXCEPT !.pc = "receipt_insert",
                                                                      !.txn = k, !.todo = todo]]
        BY <3>1 DEF FindReceipt, ReceiptDone
      <4>2. NextPurchase(todo).order = NoOrder
        BY DEF NextPurchase, NoJob
      <4>3. [NoJob EXCEPT !.pc = "receipt_insert", !.txn = k, !.todo = todo].order = NoOrder
        BY DEF NoJob
      <4> QED  BY <1>1, <4>1, <4>2, <4>3
    <3>2. CASE InsertReceipt(p) \/ CreditPack(p) \/ AssignPlan(p) \/ CreditMonthly(p) \/ FreePlan(p)
      BY <1>2, <2>2, <3>2 DEF InsertReceipt, CreditPack, AssignPlan, CreditMonthly, FreePlan, JobPCs
    <3>3. CASE Subscribe(p) \/ CancelSubscription(p)
      BY <1>1, <1>3, <3>3 DEF Subscribe, CancelSubscription, Finish
    <3> QED  BY <1>19, <3>1, <3>2, <3>3 DEF ReceiptStep, PlanStep
  <2> QED  BY <1>0, <1>6, <2>1, <2>2, <2>3 DEF Fulfilling
<1> QED  BY <1>7, <1>8, <1>9, <1>10, <1>11, <1>12, <1>13, <1>14, <1>15, <1>16, <1>17, <1>18,
            <1>19 DEF Acts, OrderStep

LEMMA ElsewhereOrders ==
    ASSUME PaymentTypeOK, Elsewhere \/ UNCHANGED allVars, NEW o \in Orders
    PROVE  /\ order'[o].credited = order[o].credited /\ order'[o].discount = order[o].discount
           /\ order[o].made => order'[o].made
<1>0. order \in [Orders -> OrderDoc] /\ [Next]_allVars
  BY DEF PaymentTypeOK, Next, Elsewhere
<1>1. CASE \E k \in Orders : Pay(k)
  <2>1. PICK k \in Orders : order' = [order EXCEPT ![k] = [order[k] EXCEPT !.paid = TRUE]]
    BY <1>1 DEF Pay
  <2>2. CASE k = o
    <3>1. order'[o] = [order[o] EXCEPT !.paid = TRUE]
      BY <1>0, <2>1, <2>2
    <3> QED  BY <1>0, <3>1 DEF OrderDoc
  <2>3. CASE k # o
    BY <1>0, <2>1, <2>3
  <2> QED  BY <2>2, <2>3
<1>2. CASE UNCHANGED order
  BY <1>2
<1>3. CASE (\E e \in Events : OpenSubscription(e)) \/ PassTime \/ UNCHANGED allVars
  BY <1>2, <1>3 DEF OpenSubscription, PassTime, allVars, paymentVars, paymentDocs
<1> QED  BY <1>1, <1>3 DEF Elsewhere

LEMMA NextOrdersSettled ==
    ASSUME PaymentTypeOK, Hands, Served, OrdersSettled, [Next]_allVars
    PROVE  OrdersSettled'
<1> SUFFICES ASSUME NEW o \in Orders, o \notin contested' PROVE OrderSettled(o)'
  BY DEF OrdersSettled
<1>0. OrderSettled(o)
  BY ContestedGrows DEF OrdersSettled
<1>1. ASSUME NEW p \in Requests, Acts(p)
      PROVE  OrderSettled(o)'
  <2>1. \A q \in Requests \ {p} : /\ Fulfilling(q, o)' <=> Fulfilling(q, o)
                                  /\ Given(q)' <=> Given(q)
                                  /\ job'[q].pc = job[q].pc
    <3> SUFFICES ASSUME NEW q \in Requests \ {p}
                 PROVE  /\ Fulfilling(q, o)' <=> Fulfilling(q, o)
                        /\ Given(q)' <=> Given(q)
                        /\ job'[q].pc = job[q].pc
      OBVIOUS
    <3>1. job'[q] = job[q] /\ req'[q] = req[q]
      BY <1>1, OthersStay
    <3> QED  BY <3>1 DEF Fulfilling, Given
  <2>2. CASE Begins(p, o)
    <3>1. /\ ~order[o].credited
          /\ \A q \in Requests : ~Fulfilling(q, o)
      BY <2>2 DEF Begins, ConfirmOrder
    <3>2. fulfilled[o] = 0
      BY <1>0, <3>1 DEF OrderSettled
    <3> QED  BY <2>1, <2>2, <3>1, <3>2 DEF Begins, OrderSettled
  <2>3. CASE GoesOn(p, o)
    <3>1. \A q \in Requests : Fulfilling(q, o) => q = p
      BY <1>0, <2>3 DEF OrderSettled, GoesOn
    <3>2. /\ fulfilled[o] = IF Given(p) THEN 1 ELSE 0
          /\ order[o].credited <=> job[p].pc = "discount_use"
      BY <1>0, <2>3 DEF OrderSettled, GoesOn
    <3>3. fulfilled'[o] = IF Given(p)' THEN 1 ELSE 0
      BY <2>3, <3>2 DEF GoesOn
    <3>4. order'[o].credited <=> job'[p].pc = "discount_use"
      BY <2>3, <3>2 DEF GoesOn
    <3> HIDE DEF Given
    <3> QED  BY <2>1, <2>3, <3>1, <3>3, <3>4 DEF GoesOn, OrderSettled
  <2>4. CASE Ends(p, o)
    <3>1. \A q \in Requests : Fulfilling(q, o) => q = p
      BY <1>0, <2>4 DEF OrderSettled, Ends
    <3>2. fulfilled[o] = 1 /\ (order[o].credited <=> job[p].pc = "discount_use")
      BY <1>0, <2>4 DEF OrderSettled, Ends
    <3>3. fulfilled'[o] = 1 /\ order'[o].credited
      BY <2>4, <3>2 DEF Ends
    <3> QED  BY <2>1, <2>4, <3>1, <3>3 DEF Ends, OrderSettled
  <2>5. CASE LeavesAlone(p, o)
    <3>1. \A q \in Requests : Fulfilling(q, o)' <=> Fulfilling(q, o)
      BY <2>1, <2>5 DEF LeavesAlone
    <3>2. fulfilled'[o] = fulfilled[o] /\ order'[o].credited = order[o].credited
      BY <2>5 DEF LeavesAlone
    <3> QED  BY <1>0, <2>1, <2>5, <3>1, <3>2 DEF LeavesAlone, OrderSettled
  <2> QED  BY <1>1, <2>2, <2>3, <2>4, <2>5, FulfilStep
<1>2. CASE Elsewhere \/ UNCHANGED allVars
  <2>1. UNCHANGED <<job, req, fulfilled>> /\ order'[o].credited = order[o].credited
    BY <1>2, ElsewhereKeeps, ElsewhereOrders
  <2> QED  BY <1>0, <2>1 DEF OrderSettled, Fulfilling, Given
<1>3. CASE RestartServer
  <2>1. /\ \A p \in Requests : ~Fulfilling(p, o) /\ ~Fulfilling(p, o)'
        /\ UNCHANGED <<fulfilled, order>>
    BY <1>3, PaymentAssumption, NoJobType
       DEF RestartServer, Fulfilling, NoJob, paymentDocs
  <2> QED  BY <1>0, <2>1 DEF OrderSettled
<1> QED  BY <1>1, <1>2, <1>3, NextCases

LEMMA PaymentsSettle == Spec => [](PaymentTypeOK /\ Hands /\ Served /\ OrdersSettled)
<1>1. Init => Served /\ OrdersSettled
  BY NoJobType, PaymentAssumption, InitServed
     DEF Init, OrdersSettled, OrderSettled, Fulfilling, NoJob
<1>2. PaymentTypeOK /\ Hands /\ Served /\ OrdersSettled /\ [Next]_allVars
        => Served' /\ OrdersSettled'
  BY NextServed, NextOrdersSettled
<1> QED  BY <1>1, <1>2, PaymentTypes, PTL DEF Spec

\* razorpay_link_status, razorpay_verify_payment: a link is fulfilled once, however
\* often it is polled, unless two polls were inside the fulfilment together or the
\* server stopped in it.  The credited flag is read when no handler fulfils the link
\* and written when its only handler is done; a handler that holds the link is not
\* refused by the wallet, so the flag follows every fulfilment.
THEOREM FulfilledOnceInvariant == Spec => []FulfilledOnce
<1>1. OrdersSettled => FulfilledOnce
  BY DEF OrdersSettled, OrderSettled, FulfilledOnce
<1> QED  BY <1>1, PaymentsSettle, PTL

-----------------------------------------------------------------------------
(* ReceiptSettled.  A pack that no two handlers worked on, and in whose      *)
(* processing the server did not stop, is where its only handler is: it is   *)
(* recorded after receipt_insert and granted when the wallet was written,    *)
(* and a pack without a handler was granted as often as it was recorded.     *)

Reached(p) == job[p].pc = "receipt_next" /\ req[p].pc \notin Before

PackSettled(t) ==
    /\ \A p, q \in Requests : Crediting(p, t) /\ Crediting(q, t) => p = q
    /\ \A p \in Requests : Crediting(p, t) =>
          /\ receipts[t] = IF job[p].pc = "receipt_insert" THEN 0 ELSE 1
          /\ granted[t] = IF Reached(p) THEN 1 ELSE 0
    /\ (\A p \in Requests : ~Crediting(p, t)) => granted[t] = receipts[t] /\ receipts[t] <= 1

PacksSettled ==
    \A t \in Txns : TxnProduct[t] = "pack" /\ t \notin contested => PackSettled(t)

\* Only a handler of receipts that finds none of the transaction takes it up.
LEMMA TxnTaken ==
    ASSUME PaymentTypeOK, Hands, NEW p \in Requests, Acts(p), NEW t \in Txns,
           ~Crediting(p, t), Crediting(p, t)'
    PROVE  FindReceipt(p) /\ receipts[t] = 0 /\ job'[p].pc = "receipt_insert"
           /\ (t \notin contested' => \A q \in Requests : ~Crediting(q, t))
<1>0. /\ job \in [Requests -> Job] /\ t # NoTxn /\ receipts \in [Txns -> Nat]
      /\ job'[p].txn = t /\ job[p].txn # t
  BY PaymentAssumption DEF PaymentTypeOK, Crediting
<1>1. ASSUME NEW j, job' = [job EXCEPT ![p] = j]
      PROVE  job'[p] = j
  BY <1>0, <1>1
<1>2. NoJob.txn = NoTxn
  BY DEF NoJob
<1>3. ASSUME NEW pc \in JobPCs, Advance(p, pc)
      PROVE  FALSE
  BY <1>0, <1>3, AdvanceType DEF Advance
<1>4. ASSUME NEW j, job' = [job EXCEPT ![p] = j], j.txn = NoTxn
      PROVE  FALSE
  BY <1>0, <1>1, <1>4
<1>5. ASSUME UNCHANGED job
      PROVE  FALSE
  BY <1>0, <1>5
<1>6. CASE CallWallet(p) \/ StepWallet(p) \/ UnwindJob(p)
  BY <1>2, <1>4, <1>5, <1>6 DEF CallWallet, StepWallet, UnwindJob, Finish
<1>7. CASE \/ \E o \in Orders, kind \in {"credits", "interview_sessions"}, discount \in BOOLEAN :
                 CreateOrder(p, o, kind, discount)
           \/ \E o \in Orders : ConfirmOrder(p, o)
           \/ \E todo \in SUBSET Txns : VerifyReceipt(p, todo)
           \/ \E e \in Events : Webhook(p, e)
  <2>1. ASSUME NEW o \in Orders, NEW kind, NEW discount, CreateOrder(p, o, kind, discount)
        PROVE  FALSE
    <3>1. [NoJob EXCEPT !.pc = "order_insert", !.order = o,
                        !.kind = kind, !.discount = discount].txn = NoTxn
      BY DEF NoJob
    <3> QED  BY <1>4, <2>1, <3>1 DEF CreateOrder, Begin
  <2>2. ASSUME NEW o \in Orders, ConfirmOrder(p, o)
        PROVE  FALSE
    <3>1. PICK pc : job' = [job EXCEPT ![p] = [NoJob EXCEPT !.order = o, !.pc = pc]]
      BY <2>2 DEF ConfirmOrder, Begin
    <3>2. [NoJob EXCEPT !.order = o, !.pc = pc].txn = NoTxn
      BY DEF NoJob
    <3> QED  BY <1>4, <3>1, <3>2
  <2>3. ASSUME NEW todo \in SUBSET Txns, VerifyReceipt(p, todo)
        PROVE  FALSE
    <3>1. [NoJob EXCEPT !.pc = "receipt_find", !.todo = todo].txn = NoTxn
      BY DEF NoJob
    <3> QED  BY <1>4, <2>3, <3>1 DEF VerifyReceipt, Begin
  <2>4. ASSUME NEW e \in Events, Webhook(p, e)
        PROVE  FALSE
    <3>1. PICK pc : job' = [job EXCEPT ![p] = [NoJob EXCEPT !.event = e, !.pc = pc]]
      BY <2>4 DEF Webhook, Begin
    <3>2. [NoJob EXCEPT !.event = e, !.pc = pc].txn = NoTxn
      BY DEF NoJob
    <3> QED  BY <1>4, <3>1, <3>2
  <2> QED  BY <1>7, <2>1, <2>2, <2>3, <2>4
<1>8. CASE OrderStep(p) \/ PlanStep(p) \/ InsertReceipt(p) \/ CreditPack(p)
  <2>1. CASE FulfilCredits(p) \/ InsertSessions(p) \/ LogSessions(p)
    BY <1>3, <2>1 DEF FulfilCredits, InsertSessions, LogSessions, JobPCs
  <2>2. CASE InsertOrder(p) \/ CountUse(p) \/ Subscribe(p) \/ CancelSubscription(p)
    BY <1>2, <1>4, <2>2 DEF InsertOrder, CountUse, Subscribe, CancelSubscription, Finish
  <2>3. CASE MarkCredited(p)
    BY <1>2, <1>3, <1>4, <2>3 DEF MarkCredited, Finish, JobPCs
  <2>4. CASE AssignPlan(p) \/ CreditMonthly(p) \/ FreePlan(p) \/ InsertReceipt(p) \/ CreditPack(p)
    BY <1>3, <2>4 DEF AssignPlan, CreditMonthly, FreePlan, InsertReceipt, CreditPack, JobPCs
  <2> QED  BY <1>8, <2>1, <2>2, <2>3, <2>4 DEF OrderStep, PlanStep
<1>9. \A todo : NextPurchase(todo).txn = NoTxn
  BY DEF NextPurchase, NoJob
<1>10. CASE ReceiptDone(p)
  BY <1>4, <1>9, <1>10 DEF ReceiptDone
<1>11. CASE FindReceipt(p)
  <2> DEFINE taken(k, todo) == [NoJob EXCEPT !.pc = "receipt_insert", !.txn = k, !.todo = todo]
  <2>1. PICK k \in Txns :
               \/ job' = [job EXCEPT ![p] = NextPurchase(job[p].todo \ {k})]
               \/ /\ ~(receipts[k] > 0)
                  /\ job' = [job EXCEPT ![p] = taken(k, job[p].todo \ {k})]
                  /\ contested' = IF \E q \in Requests : Crediting(q, k)
                                  THEN contested \cup {k} ELSE contested
    BY <1>11, JobFields, <1>0 DEF FindReceipt
  <2>2. \A todo : taken(k, todo).txn = k /\ taken(k, todo).pc = "receipt_insert"
    BY DEF NoJob
  <2> HIDE DEF taken
  <2>3. /\ ~(receipts[k] > 0)
        /\ job' = [job EXCEPT ![p] = taken(k, job[p].todo \ {k})]
        /\ contested' = IF \E q \in Requests : Crediting(q, k)
                        THEN contested \cup {k} ELSE contested
    BY <1>4, <1>9, <2>1
  <2>4. k = t /\ job'[p].pc = "receipt_insert"
    BY <1>0, <1>1, <2>2, <2>3
  <2>5. receipts[t] = 0
    BY <1>0, <2>3, <2>4
  <2> QED  BY <1>11, <2>3, <2>4, <2>5
<1> QED  BY <1>6, <1>7, <1>8, <1>10, <1>11 DEF Acts, ReceiptStep

\* What a handler's step does to one pack.  It takes it up, it works on it, it is
\* done with it, or the pack is none of its business.
Takes(p, t) == /\ ~Crediting(p, t) /\ Crediting(p, t)' /\ FindReceipt(p)
               /\ job'[p].pc = "receipt_insert" /\ receipts[t] = 0
               /\ t \notin contested' => \A q \in Requests : ~Crediting(q, t)
               /\ receipts'[t] = receipts[t] /\ granted'[t] = granted[t]

Works(p, t) == /\ Crediting(p, t) /\ Crediting(p, t)'
               /\ \/ /\ job'[p].pc = "receipt_insert" <=> job[p].pc = "receipt_insert"
                     /\ receipts'[t] = receipts[t]
                  \/ /\ job[p].pc = "receipt_insert" /\ job'[p].pc # "receipt_insert"
                     /\ receipts'[t] = receipts[t] + 1
               /\ \/ (Reached(p)' <=> Reached(p)) /\ granted'[t] = granted[t]
                  \/ ~Reached(p) /\ Reached(p)' /\ granted'[t] = granted[t] + 1

Completes(p, t) == /\ Crediting(p, t) /\ ~Crediting(p, t)' /\ Reached(p)
                   /\ receipts'[t] = receipts[t] /\ granted'[t] = granted[t]

PassesBy(p, t) == /\ ~Crediting(p, t) /\ ~Crediting(p, t)'
                  /\ receipts'[t] = receipts[t] /\ granted'[t] = granted[t]

\* A handler with a pack in hand leaves it alone until the wallet has it.
LEMMA PackWork ==
    ASSUME PaymentTypeOK, Hands, Served, [Next]_allVars, NEW p \in Requests, Acts(p),
           NEW t \in Txns, TxnProduct[t] = "pack", Crediting(p, t)
    PROVE  Works(p, t) \/ Completes(p, t)
<1>0. /\ WalletTypeOK /\ job \in [Requests -> Job] /\ req \in [Requests -> Request]
      /\ receipts \in [Txns -> Nat] /\ granted \in [Txns -> Nat]
      /\ InHand(job[p]) /\ Paired(job[p], req[p]) /\ ServedAt(p)
      /\ t # NoTxn /\ job[p].txn = t /\ job[p] # NoJob
  <2>1. NoJob.txn = NoTxn
    BY DEF NoJob
  <2> QED  BY <2>1, PaymentAssumption DEF PaymentTypeOK, WalletTypeOK, Hands, Served, Crediting
<1>1. /\ job[p].pc \in TxnPCs /\ job[p].event = NoEvent
      /\ job[p].pc = "receipt_next" \/ req[p] = Idle
  <2>1. job[p].pc \in TxnPCs
    BY <1>0, PaymentAssumption DEF InHand
  <2> QED  BY <1>0, <2>1 DEF InHand, Paired, Waiting, TxnPCs
<1>2. ASSUME NEW pc \in JobPCs, Advance(p, pc)
      PROVE  job'[p].pc = pc /\ job'[p].txn = t
  BY <1>0, <1>2, AdvanceType DEF Advance
<1>3. Idle.pc \notin Before
  BY IdleType DEF Before
<1>4. ~(StepWallet(p) /\ At(p, "add_write")) => granted'[t] = granted[t]
  BY <1>0, GrantedChange
<1>5. CASE StepWallet(p)
  <2>1. WalletStep(p) /\ UNCHANGED <<job, receipts>>
    BY <1>5 DEF StepWallet, paymentDocs
  <2>2. req[p] # Idle
    BY <2>1, IdleType DEF WalletStep, ReadWallet, InsertWallet, WelcomeLog, Refill, DailyLog,
       ReadWindow, ResetWindow, Work, DeductWrite, DeductLog, AdvanceWindow, RecordUsage,
       AddWrite, AddLog, At
  <2>3. job[p].pc = "receipt_next" /\ wallet.open /\ Paying(req[p])
    BY <1>0, <1>1, <2>2 DEF ServedAt, CreditedPCs
  <2>4. \/ At(p, "add_write") /\ Paying(req'[p]) /\ req'[p].pc = "add_log"
        \/ At(p, "add_log") /\ req'[p] = Idle
        \/ /\ ~At(p, "add_write") /\ ~At(p, "add_log")
           /\ Paying(req'[p]) /\ req'[p].pc # "add_log"
    BY <1>0, <2>1, <2>3, PurchaseStep
  <2>5. /\ Crediting(p, t)' /\ job'[p] = job[p]
        /\ Reached(p) <=> req[p].pc \notin Before
        /\ Reached(p)' <=> req'[p].pc \notin Before
    BY <1>0, <2>1, <2>3 DEF Reached, Crediting
  <2>6. CASE At(p, "add_write")
    <3>1. granted' = [granted EXCEPT ![t] = @ + 1]
      BY <1>0, <1>5, <2>6 DEF StepWallet, Credited
    <3>2. granted'[t] = granted[t] + 1
      BY <1>0, <3>1
    <3>3. ~Reached(p) /\ Reached(p)'
      BY <2>4, <2>5, <2>6 DEF At, Before
    <3> QED  BY <2>1, <2>5, <3>2, <3>3 DEF Works
  <2>7. CASE ~At(p, "add_write")
    <3>1. Reached(p)' <=> Reached(p)
      BY <1>3, <2>3, <2>4, <2>5, <2>7 DEF At, Before, Paying, PayPCs
    <3> QED  BY <1>4, <2>1, <2>5, <2>7, <3>1 DEF Works
  <2> QED  BY <2>6, <2>7
<1>6. CASE InsertReceipt(p)
  <2>1. /\ job[p].pc = "receipt_insert" /\ Advance(p, "receipt_credit")
        /\ receipts' = [receipts EXCEPT ![t] = @ + 1] /\ UNCHANGED granted
    BY <1>0, <1>6 DEF InsertReceipt, JobAt, paymentHistory
  <2>2. receipts'[t] = receipts[t] + 1
    BY <1>0, <2>1
  <2>3. job'[p].pc = "receipt_credit" /\ job'[p].txn = t
    BY <1>2, <2>1 DEF JobPCs
  <2> QED  BY <2>1, <2>2, <2>3 DEF Works, Crediting, Reached
<1>7. CASE CreditPack(p)
  <2>1. /\ job[p].pc = "receipt_credit" /\ Advance(p, "receipt_next")
        /\ UNCHANGED <<receipts, granted>>
    BY <1>7 DEF CreditPack, JobAt, paymentDocs, paymentHistory
  <2>2. req'[p].pc = "wallet_read"
    <3> DEFINE q == [Idle EXCEPT !.amount = PackCredits, !.bucket = "purchased",
                                 !.kind = "purchase"]
    <3>1. req'[p] = Fetch(q, "add")
      BY <1>0, <1>7 DEF CreditPack, AddCredits, Call
    <3>2. Fetch(q, "add").pc = "wallet_read"
      BY DEF Fetch, Idle
    <3> QED  BY <3>1, <3>2
  <2>3. job'[p].pc = "receipt_next" /\ job'[p].txn = t
    BY <1>2, <2>1 DEF JobPCs
  <2> QED  BY <2>1, <2>2, <2>3 DEF Works, Crediting, Reached, Before
<1>8. CASE ReceiptDone(p)
  <2>1. /\ job[p].pc = "receipt_next" /\ req[p] = Idle /\ UNCHANGED <<receipts, granted>>
        /\ job'[p] = NextPurchase(job[p].todo)
    BY <1>0, <1>8 DEF ReceiptDone, JobAt, paymentDocs, paymentHistory
  <2>2. NextPurchase(job[p].todo).txn = NoTxn
    BY DEF NextPurchase, NoJob
  <2> QED  BY <1>0, <1>3, <2>1, <2>2 DEF Completes, Crediting, Reached
<1>9. ~UnwindJob(p)
  <2>1. UnwindJob(p) => req[p].pc = "raised"
    BY DEF UnwindJob, Unwind, At
  <2>2. req[p].pc # "raised"
    BY <1>0, <1>1, IdleType DEF ServedAt, CreditedPCs, Paying, PayPCs
  <2> QED  BY <2>1, <2>2
<1>10. /\ ~CallWallet(p)
       /\ \A o \in Orders, kind \in {"credits", "interview_sessions"}, discount \in BOOLEAN :
             ~CreateOrder(p, o, kind, discount)
       /\ \A o \in Orders : ~ConfirmOrder(p, o)
       /\ \A todo \in SUBSET Txns : ~VerifyReceipt(p, todo)
       /\ \A e \in Events : ~Webhook(p, e)
  BY <1>0 DEF CallWallet, CreateOrder, ConfirmOrder, VerifyReceipt, Webhook, Begin
<1>11. ~OrderStep(p) /\ ~PlanStep(p) /\ ~FindReceipt(p)
  BY <1>1 DEF OrderStep, InsertOrder, FulfilCredits, InsertSessions, LogSessions, MarkCredited,
     CountUse, PlanStep, AssignPlan, CreditMonthly, Subscribe, FreePlan, CancelSubscription,
     FindReceipt, JobAt, TxnPCs
<1> QED  BY <1>5, <1>6, <1>7, <1>8, <1>9, <1>10, <1>11 DEF Acts, ReceiptStep

LEMMA PackStep ==
    ASSUME PaymentTypeOK, Hands, Served, [Next]_allVars, NEW p \in Requests, Acts(p),
           NEW t \in Txns, TxnProduct[t] = "pack"
    PROVE  Takes(p, t) \/ Works(p, t) \/ Completes(p, t) \/ PassesBy(p, t)
<1>1. CASE Crediting(p, t)
  BY <1>1, PackWork
<1>2. CASE ~Crediting(p, t)
  <2>1. granted'[t] = granted[t]
    BY <1>2, GrantedChange DEF Crediting
  <2>2. receipts'[t] = receipts[t]
    <3>1. CASE InsertReceipt(p)
      BY <1>2, <3>1 DEF InsertReceipt, Crediting, PaymentTypeOK
    <3>2. CASE ~InsertReceipt(p)
      <4>1. ASSUME NEW q \in Requests, InsertReceipt(q), q # p
            PROVE  FALSE
        <5>1. job[q].pc = "receipt_insert" /\ job'[q] # job[q]
          <6>1. PICK pc \in {"receipt_credit", "plan_assign"} : Advance(q, pc)
            BY <4>1 DEF InsertReceipt
          <6>2. job'[q].pc = pc
            BY <6>1, AdvanceType DEF Advance, PaymentTypeOK, JobPCs
          <6> QED  BY <4>1, <6>1, <6>2 DEF InsertReceipt, JobAt
        <5> QED  BY <4>1, <5>1, OthersStay
      <4> QED  BY <3>2, <4>1, Writers DEF PaymentTypeOK
    <3> QED  BY <3>1, <3>2
  <2>3. CASE Crediting(p, t)'
    BY <1>2, <2>1, <2>2, <2>3, TxnTaken DEF Takes
  <2> QED  BY <1>2, <2>1, <2>2, <2>3 DEF PassesBy
<1> QED  BY <1>1, <1>2

LEMMA NextPacksSettled ==
    ASSUME PaymentTypeOK, Hands, Served, PacksSettled, [Next]_allVars
    PROVE  PacksSettled'
<1> SUFFICES ASSUME NEW t \in Txns, TxnProduct[t] = "pack", t \notin contested'
             PROVE  PackSettled(t)'
  BY DEF PacksSettled
<1>0. PackSettled(t)
  BY ContestedGrows DEF PacksSettled
<1>1. ASSUME NEW p \in Requests, Acts(p)
      PROVE  PackSettled(t)'
  <2>1. \A q \in Requests \ {p} : /\ Crediting(q, t)' <=> Crediting(q, t)
                                  /\ Reached(q)' <=> Reached(q)
                                  /\ job'[q].pc = job[q].pc
    <3> SUFFICES ASSUME NEW q \in Requests \ {p}
                 PROVE  /\ Crediting(q, t)' <=> Crediting(q, t)
                        /\ Reached(q)' <=> Reached(q)
                        /\ job'[q].pc = job[q].pc
      OBVIOUS
    <3>1. job'[q] = job[q] /\ req'[q] = req[q]
      BY <1>1, OthersStay
    <3> QED  BY <3>1 DEF Crediting, Reached
  <2>2. CASE Takes(p, t)
    <3>1. \A q \in Requests : ~Crediting(q, t)
      BY <2>2 DEF Takes
    <3>2. granted[t] = 0 /\ receipts[t] = 0
      BY <1>0, <2>2, <3>1 DEF PackSettled, Takes
    <3> QED  BY <2>1, <2>2, <3>1, <3>2 DEF Takes, PackSettled, Reached
  <2>3. CASE Works(p, t)
    <3>1. \A q \in Requests : Crediting(q, t) => q = p
      BY <1>0, <2>3 DEF PackSettled, Works
    <3>2. /\ receipts[t] = IF job[p].pc = "receipt_insert" THEN 0 ELSE 1
          /\ granted[t] = IF Reached(p) THEN 1 ELSE 0
      BY <1>0, <2>3 DEF PackSettled, Works
    <3>3. receipts'[t] = IF job'[p].pc = "receipt_insert" THEN 0 ELSE 1
      BY <2>3, <3>2 DEF Works
    <3>4. granted'[t] = IF Reached(p)' THEN 1 ELSE 0
      BY <2>3, <3>2 DEF Works
    <3> HIDE DEF Reached
    <3> QED  BY <2>1, <2>3, <3>1, <3>3, <3>4 DEF Works, PackSettled
  <2>4. CASE Completes(p, t)
    <3>1. \A q \in Requests : Crediting(q, t) => q = p
      BY <1>0, <2>4 DEF PackSettled, Completes
    <3>2. receipts'[t] = 1 /\ granted'[t] = 1
      BY <1>0, <2>4 DEF PackSettled, Completes, Reached
    <3> QED  BY <2>1, <2>4, <3>1, <3>2 DEF Completes, PackSettled
  <2>5. CASE PassesBy(p, t)
    <3>1. \A q \in Requests : Crediting(q, t)' <=> Crediting(q, t)
      BY <2>1, <2>5 DEF PassesBy
    <3>2. receipts'[t] = receipts[t] /\ granted'[t] = granted[t]
      BY <2>5 DEF PassesBy
    <3> QED  BY <1>0, <2>1, <2>5, <3>1, <3>2 DEF PassesBy, PackSettled
  <2> QED  BY <1>1, <2>2, <2>3, <2>4, <2>5, PackStep
<1>2. CASE Elsewhere \/ UNCHANGED allVars
  <2>1. UNCHANGED <<job, req, granted, receipts>>
    BY <1>2, ElsewhereKeeps
  <2> QED  BY <1>0, <2>1 DEF PackSettled, Crediting, Reached
<1>3. CASE RestartServer
  <2>1. /\ \A p \in Requests : ~Crediting(p, t) /\ ~Crediting(p, t)'
        /\ UNCHANGED <<granted, receipts>>
    BY <1>3, PaymentAssumption DEF RestartServer, Crediting, NoJob, paymentDocs
  <2> QED  BY <1>0, <2>1 DEF PackSettled
<1> QED  BY <1>1, <1>2, <1>3, NextCases

\* verify_apple_receipt, verify_google_receipt: a recorded pack that no handler is
\* working on reached the wallet exactly once, unless two handlers raced on it or the
\* server stopped while one had it.  A handler that records a pack goes on until the
\* wallet has it: nothing in between refuses it.
THEOREM ReceiptSettledInvariant == Spec => []ReceiptSettled
<1>1. Init => PacksSettled
  BY PaymentAssumption DEF Init, PacksSettled, PackSettled, Crediting, NoJob
<1>2. Init => Served
  BY InitServed
<1>3. PaymentTypeOK /\ Hands /\ Served /\ PacksSettled /\ [Next]_allVars
        => Served' /\ PacksSettled'
  BY NextServed, NextPacksSettled
<1>4. PaymentTypeOK /\ PacksSettled => ReceiptSettled
  BY DEF PaymentTypeOK, PacksSettled, PackSettled, ReceiptSettled
<1> QED  BY <1>1, <1>2, <1>3, <1>4, PaymentTypes, PTL DEF Spec

-----------------------------------------------------------------------------
(* UsesAreFulfilments.  A handler that has given what was bought and has not *)
(* counted the redemption yet stands for one of the times a discounted order *)
(* was fulfilled; the redemptions counted stand for the others.              *)

\* A link is held by the handler that makes it and by no other; what is
\* fulfilled was made, and its discount is what it was made with.
Unmade(p) ==
    job[p].pc = "order_insert" =>
       /\ ~order[job[p].order].made
       /\ \A q \in Requests \ {p} : job[q].order # job[p].order

OrdersMade ==
    /\ \A p \in Requests : Unmade(p)
    /\ \A o \in Orders : fulfilled[o] > 0 => order[o].made
    /\ \A p \in Requests, o \in Orders : Fulfilling(p, o) => order[o].made
    /\ \A p \in Requests : job[p].pc = "discount_use" => order[job[p].order].discount

\* A handler holds the link it held, or begins with one that it makes or confirms.
LEMMA OrderTaken ==
    ASSUME PaymentTypeOK, Hands, NEW p \in Requests, Acts(p), NEW o \in Orders, job'[p].order = o
    PROVE  \/ job[p].order = o /\ (job'[p].pc = "order_insert" => job[p].pc = "order_insert")
           \/ /\ ~order[o].made /\ UNCHANGED order
              /\ \A q \in Requests : job[q].order # o
           \/ job'[p].pc # "order_insert" /\ order[o].made
<1> DEFINE Holds == job[p].order = o /\ (job'[p].pc = "order_insert" => job[p].pc = "order_insert")
<1>0. /\ job \in [Requests -> Job] /\ o # NoOrder /\ InHand(job[p])
  BY PaymentAssumption DEF PaymentTypeOK, Hands
<1>1. ASSUME NEW j, job' = [job EXCEPT ![p] = j]
      PROVE  job'[p] = j
  BY <1>0, <1>1
<1>2. NoJob.order = NoOrder
  BY DEF NoJob
<1>3. ASSUME NEW pc \in JobPCs, Advance(p, pc), pc # "order_insert"
      PROVE  Holds
  BY <1>0, <1>3, AdvanceType DEF Advance
<1>4. ASSUME NEW j, job' = [job EXCEPT ![p] = j], j.order = NoOrder
      PROVE  FALSE
  BY <1>0, <1>1, <1>4
<1>5. ASSUME UNCHANGED job
      PROVE  Holds
  BY <1>0, <1>5
<1>6. CASE CallWallet(p) \/ StepWallet(p) \/ UnwindJob(p)
  BY <1>2, <1>4, <1>5, <1>6 DEF CallWallet, StepWallet, UnwindJob, Finish
<1>7. ASSUME NEW k \in Orders, NEW kind \in {"credits", "interview_sessions"},
             NEW discount \in BOOLEAN, CreateOrder(p, k, kind, discount)
      PROVE  /\ ~order[o].made /\ UNCHANGED order
             /\ \A q \in Requests : job[q].order # o
  <2>1. [NoJob EXCEPT !.pc = "order_insert", !.order = k,
                      !.kind = kind, !.discount = discount].order = k
    BY DEF NoJob
  <2>2. k = o
    BY <1>1, <1>7, <2>1 DEF CreateOrder, Begin
  <2> QED  BY <1>7, <2>2 DEF CreateOrder, paymentDocs
<1>8. ASSUME NEW k \in Orders, ConfirmOrder(p, k)
      PROVE  job'[p].pc # "order_insert" /\ order[o].made
  <2>1. PICK pc \in {"order_fulfil", "sessions_insert"} :
             job' = [job EXCEPT ![p] = [NoJob EXCEPT !.order = k, !.pc = pc]]
    BY <1>8 DEF ConfirmOrder, Begin
  <2>2. [NoJob EXCEPT !.order = k, !.pc = pc].order = k /\ [NoJob EXCEPT !.order = k, !.pc = pc].pc = pc
    BY DEF NoJob
  <2>3. k = o /\ job'[p].pc = pc
    BY <1>1, <2>1, <2>2
  <2> QED  BY <1>8, <2>3 DEF ConfirmOrder
<1>9. CASE (\E todo \in SUBSET Txns : VerifyReceipt(p, todo)) \/ (\E e \in Events : Webhook(p, e))
  <2>1. ASSUME NEW todo \in SUBSET Txns, VerifyReceipt(p, todo)
        PROVE  FALSE
    <3>1. [NoJob EXCEPT !.pc = "receipt_find", !.todo = todo].order = NoOrder
      BY DEF NoJob
    <3> QED  BY <1>4, <2>1, <3>1 DEF VerifyReceipt, Begin
  <2>2. ASSUME NEW e \in Events, Webhook(p, e)
        PROVE  FALSE
    <3>1. PICK pc : job' = [job EXCEPT ![p] = [NoJob EXCEPT !.event = e, !.pc = pc]]
      BY <2>2 DEF Webhook, Begin
    <3>2. [NoJob EXCEPT !.event = e, !.pc = pc].order = NoOrder
      BY DEF NoJob
    <3> QED  BY <1>4, <3>1, <3>2
  <2> QED  BY <1>9, <2>1, <2>2
<1>10. CASE OrderStep(p) \/ PlanStep(p) \/ InsertReceipt(p) \/ CreditPack(p)
  <2>1. CASE FulfilCredits(p) \/ InsertSessions(p) \/ LogSessions(p)
    BY <1>3, <2>1 DEF FulfilCredits, InsertSessions, LogSessions, JobPCs
  <2>2. CASE InsertOrder(p) \/ CountUse(p) \/ Subscribe(p) \/ CancelSubscription(p)
    BY <1>2, <1>4, <2>2 DEF InsertOrder, CountUse, Subscribe, CancelSubscription, Finish
  <2>3. CASE MarkCredited(p)
    BY <1>2, <1>3, <1>4, <2>3 DEF MarkCredited, Finish, JobPCs
  <2>4. CASE AssignPlan(p) \/ CreditMonthly(p) \/ FreePlan(p) \/ InsertReceipt(p) \/ CreditPack(p)
    BY <1>3, <2>4 DEF AssignPlan, CreditMonthly, FreePlan, InsertReceipt, CreditPack, JobPCs
  <2> QED  BY <1>10, <2>1, <2>2, <2>3, <2>4 DEF OrderStep, PlanStep
<1>11. CASE FindReceipt(p) \/ ReceiptDone(p)
  <2>1. PICK todo, k : job' = [job EXCEPT ![p] = NextPurchase(todo)]
                       \/ job' = [job EXCEPT ![p] = [NoJob EXCEPT !.pc = "receipt_insert",
                                                                  !.txn = k, !.todo = todo]]
    BY <1>11 DEF FindReceipt, ReceiptDone
  <2>2. NextPurchase(todo).order = NoOrder
    BY DEF NextPurchase, NoJob
  <2>3. [NoJob EXCEPT !.pc = "receipt_insert", !.txn = k, !.todo = todo].order = NoOrder
    BY DEF NoJob
  <2> QED  BY <1>4, <2>1, <2>2, <2>3
<1> QED  BY <1>6, <1>7, <1>8, <1>9, <1>10, <1>11 DEF Acts, ReceiptStep

\* The handler that acts is the one whose place changes.
LEMMA ActorMoves ==
    ASSUME PaymentTypeOK, NEW p \in Requests, Acts(p), NEW q \in Requests,
           InsertOrder(q) \/ MarkCredited(q) \/ CountUse(q)
    PROVE  q = p
<1>0. job \in [Requests -> Job]
  BY DEF PaymentTypeOK
<1>1. job'[q].pc # job[q].pc
  <2>1. CASE Finish(q)
    <3>1. job'[q].pc = "none"
      BY <1>0, <2>1, NoJobType DEF Finish
    <3> QED  BY <3>1 DEF InsertOrder, MarkCredited, CountUse, JobAt
  <2>2. CASE Advance(q, "discount_use") /\ MarkCredited(q)
    <3>1. job'[q].pc = "discount_use"
      BY <1>0, <2>2, AdvanceType DEF Advance, JobPCs
    <3> QED  BY <2>2, <3>1 DEF MarkCredited, JobAt
  <2> QED  BY <2>1, <2>2 DEF InsertOrder, MarkCredited, CountUse
<1> QED  BY <1>1, OthersStay

\* A link once made keeps its discount.
LEMMA MadeStays ==
    ASSUME PaymentTypeOK, OrdersMade, [Next]_allVars, NEW o \in Orders
    PROVE  order[o].made => order'[o].made /\ order'[o].discount = order[o].discount
<1>1. ASSUME NEW p \in Requests, InsertOrder(p), job[p].order = o
      PROVE  ~order[o].made
  BY <1>1 DEF InsertOrder, JobAt, OrdersMade, Unmade
<1> QED  BY <1>1, OrderChange

LEMMA NextOrdersMade ==
    ASSUME PaymentTypeOK, Hands, Served, OrdersMade, [Next]_allVars
    PROVE  OrdersMade'
<1>0. /\ PaymentTypeOK' /\ Hands' /\ job \in [Requests -> Job]
      /\ fulfilled \in [Orders -> Nat] /\ NoOrder \notin Orders
  BY NextPaymentType, NextHands, PaymentAssumption DEF PaymentTypeOK
<1>1. ASSUME NEW o \in Orders
      PROVE  order[o].made => order'[o].made /\ order'[o].discount = order[o].discount
  BY MadeStays
<1>2. ASSUME NEW p \in Requests, job[p].pc \in OrderPCs
      PROVE  job[p].order \in Orders
  BY <1>2 DEF Hands, InHand
<1>3. ASSUME NEW p \in Requests, Acts(p)
      PROVE  OrdersMade'
  <2>1. \A q \in Requests \ {p} : job'[q] = job[q]
    BY <1>3, OthersStay
  <2>2. ASSUME NEW o \in Orders
        PROVE  /\ fulfilled'[o] > 0 => order'[o].made
               /\ Fulfilling(p, o)' => order[o].made
    <3>1. CASE Begins(p, o)
      BY <1>1, <3>1 DEF Begins, ConfirmOrder
    <3>2. CASE GoesOn(p, o)
      BY <1>1, <3>2 DEF GoesOn, OrdersMade
    <3>3. CASE Ends(p, o)
      BY <1>1, <3>3 DEF Ends, OrdersMade
    <3>4. CASE LeavesAlone(p, o)
      BY <1>1, <3>4 DEF LeavesAlone, OrdersMade
    <3> QED  BY <1>3, <3>1, <3>2, <3>3, <3>4, FulfilStep
  <2>3. ASSUME NEW q \in Requests, NEW o \in Orders, Fulfilling(q, o)'
        PROVE  order'[o].made
    <3>1. order[o].made
      <4>1. CASE q = p
        BY <2>2, <2>3, <4>1
      <4>2. CASE q # p
        BY <2>1, <2>3, <4>2 DEF Fulfilling, OrdersMade
      <4> QED  BY <4>1, <4>2
    <3> QED  BY <1>1, <3>1
  <2>4. ASSUME NEW q \in Requests, job'[q].pc = "discount_use"
        PROVE  order'[job'[q].order].discount
    <3>0. job'[q].order \in Orders
      BY <1>0, <2>4 DEF Hands, InHand, OrderPCs
    <3>1. PICK o \in Orders : o = job'[q].order /\ Fulfilling(q, o)'
      BY <2>4, <3>0 DEF Fulfilling
    <3>2. order[o].made /\ order[o].discount
      <4>1. CASE q # p
        <5>1. job[q].pc = "discount_use" /\ job[q].order = o /\ Fulfilling(q, o)
          BY <2>1, <2>4, <3>1, <4>1 DEF Fulfilling
        <5> QED  BY <3>1, <5>1 DEF OrdersMade
      <4>2. CASE q = p
        <5>1. order[o].made
          BY <2>2, <3>1, <4>2
        <5>2. GoesOn(p, o)
          BY <1>3, <2>4, <3>1, <4>2, FulfilStep DEF Begins, Ends, LeavesAlone
        <5>3. MarkCredited(p) /\ job[p].order = o
          BY <2>4, <4>2, <5>2 DEF GoesOn, Fulfilling
        <5>4. order[o].discount
          <6>1. ~Finish(p)
            BY <1>0, <2>4, <4>2, NoJobType DEF Finish
          <6> QED  BY <5>3, <6>1 DEF MarkCredited
        <5> QED  BY <5>1, <5>4
      <4> QED  BY <4>1, <4>2
    <3>3. order'[o].discount = order[o].discount
      BY <1>1, <3>1, <3>2
    <3> QED  BY <3>1, <3>2, <3>3
  <2>5. ASSUME NEW q \in Requests, job'[q].pc = "order_insert"
        PROVE  /\ ~order'[job'[q].order].made
               /\ \A r \in Requests \ {q} : job'[r].order # job'[q].order
    <3>0. job'[q].order \in Orders
      BY <1>0, <2>5 DEF Hands, InHand, OrderPCs
    <3>1. PICK o \in Orders : o = job'[q].order
      BY <3>0
    <3>2. /\ ~order[o].made /\ ~order'[o].made
          /\ \A r \in Requests \ {q} : job[r].order # o
      <4>1. CASE job[q].order = o /\ job[q].pc = "order_insert"
        <5>1. ~order[o].made /\ \A r \in Requests \ {q} : job[r].order # o
          BY <4>1 DEF OrdersMade, Unmade
        <5>2. ASSUME NEW r \in Requests, InsertOrder(r) \/ MarkCredited(r), job[r].order = o
              PROVE  FALSE
          <6>1. r = q
            BY <5>1, <5>2
          <6>2. r = p
            BY <1>3, <5>2, ActorMoves
          <6>3. job'[q].pc # "order_insert"
            <7>1. InsertOrder(q)
              BY <4>1, <5>2, <6>1 DEF MarkCredited, JobAt
            <7> QED  BY <1>0, <7>1, NoJobType DEF InsertOrder, Finish
          <6> QED  BY <2>5, <6>3
        <5>3. order'[o].made = order[o].made
          BY <3>1, <5>2, OrderChange
        <5> QED  BY <5>1, <5>3
      <4>2. CASE ~(job[q].order = o /\ job[q].pc = "order_insert")
        <5>1. q = p
          BY <2>1, <2>5, <3>1, <4>2
        <5>2. /\ ~order[o].made /\ UNCHANGED order
              /\ \A r \in Requests : job[r].order # o
          BY <1>3, <2>5, <3>1, <4>2, <5>1, OrderTaken
        <5> QED  BY <5>2
      <4> QED  BY <4>1, <4>2
    <3>3. ASSUME NEW r \in Requests \ {q}, job'[r].order = o
          PROVE  FALSE
      <4>1. r = p
        BY <2>1, <3>2, <3>3
      <4>2. /\ ~order[o].made /\ UNCHANGED order
            /\ \A k \in Requests : job[k].order # o
        BY <1>3, <3>1, <3>2, <3>3, <4>1, OrderTaken
      <4>3. job'[q] = job[q]
        BY <2>1, <4>1
      <4> QED  BY <3>1, <4>2, <4>3
    <3> QED  BY <3>1, <3>2, <3>3
  <2> QED  BY <2>2, <2>3, <2>4, <2>5 DEF OrdersMade, Unmade
<1>4. CASE Elsewhere \/ UNCHANGED allVars
  <2>1. UNCHANGED <<job, fulfilled>>
    BY <1>4, ElsewhereKeeps
  <2>2. ASSUME NEW o \in Orders
        PROVE  order'[o].made = order[o].made
    <3>1. CASE \E k \in Orders : Pay(k)
      <4>1. PICK k \in Orders : order[k].made
                                /\ order' = [order EXCEPT ![k] = [order[k] EXCEPT !.paid = TRUE]]
        BY <3>1 DEF Pay
      <4>2. order \in [Orders -> OrderDoc]
        BY DEF PaymentTypeOK
      <4>3. CASE k = o
        <5>1. order'[o] = [order[o] EXCEPT !.paid = TRUE]
          BY <4>1, <4>2, <4>3
        <5> QED  BY <4>2, <5>1 DEF OrderDoc
      <4>4. CASE k # o
        BY <4>1, <4>2, <4>4
      <4> QED  BY <4>3, <4>4
    <3>2. CASE (\E e \in Events : OpenSubscription(e)) \/ PassTime \/ UNCHANGED allVars
      BY <3>2 DEF OpenSubscription, PassTime, allVars, paymentVars, paymentDocs
    <3> QED  BY <1>4, <3>1, <3>2 DEF Elsewhere
  <2>3. \A p \in Requests : job[p].pc \in {"order_insert", "discount_use"} => job[p].order \in Orders
    BY <1>2 DEF OrderPCs
  <2>4. \A o \in Orders : order'[o].discount = order[o].discount
    BY <1>4, ElsewhereOrders
  <2> QED  BY <2>1, <2>2, <2>3, <2>4 DEF OrdersMade, Unmade, Fulfilling
<1>5. CASE RestartServer
  <2>1. /\ \A p \in Requests : job'[p] = NoJob
        /\ UNCHANGED <<fulfilled, order>>
    BY <1>5 DEF RestartServer, paymentDocs
  <2>2. NoJob.order = NoOrder /\ NoJob.pc = "none"
    BY DEF NoJob
  <2> QED  BY <1>0, <2>1, <2>2 DEF OrdersMade, Unmade, Fulfilling
<1> QED  BY <1>3, <1>4, <1>5, NextCases

\* The handlers that have given a discounted order and not counted it yet.
Due == {p \in Requests : Given(p) /\ order[job[p].order].discount}

UsesMatched ==
    /\ IsFiniteSet(Due) /\ IsFiniteSet(DiscountsGiven)
    /\ uses + Cardinality(Due) <= Cardinality(DiscountsGiven)

LEMMA InDiscounts ==
    ASSUME NEW x
    PROVE  x \in DiscountsGiven <=> \E o \in Orders : /\ order[o].discount
                                                     /\ \E n \in 1..fulfilled[o] : x = <<o, n>>
BY DEF DiscountsGiven

\* No order becomes discounted after it was fulfilled.
LEMMA DiscountStays ==
    ASSUME PaymentTypeOK, OrdersMade, [Next]_allVars, NEW o \in Orders, fulfilled[o] > 0
    PROVE  order'[o].discount = order[o].discount
BY MadeStays DEF OrdersMade

\* What is due grows only with the handler that gives, and what was given with it.
LEMMA DiscountStep ==
    ASSUME PaymentTypeOK, Hands, Served, OrdersMade, UsesMatched, [Next]_allVars,
           NEW p \in Requests, Acts(p)
    PROVE  UsesMatched'
<1>0. /\ PaymentTypeOK' /\ Hands' /\ OrdersMade' /\ NoOrder \notin Orders
      /\ job \in [Requests -> Job] /\ fulfilled \in [Orders -> Nat] /\ uses \in Nat
      /\ \A o \in Orders : fulfilled[o] \in Nat /\ fulfilled'[o] \in Nat
  BY NextPaymentType, NextHands, NextOrdersMade, PaymentAssumption DEF PaymentTypeOK
<1>1. /\ Cardinality(Due) \in Nat /\ Cardinality(DiscountsGiven) \in Nat
      /\ IsFiniteSet(Due) /\ IsFiniteSet(DiscountsGiven)
      /\ uses + Cardinality(Due) <= Cardinality(DiscountsGiven)
  BY FS_CardinalityType DEF UsesMatched
<1>2. ASSUME NEW q \in Requests \ {p}, q \in Due'
      PROVE  q \in Due
  <2>1. job'[q] = job[q] /\ req'[q] = req[q]
    BY <1>2, OthersStay
  <2>2. job[q].order \in Orders /\ Given(q) /\ Fulfilling(q, job[q].order)
    BY <1>2, <2>1 DEF Due, Given, GivenPCs, Hands, InHand, OrderPCs, Fulfilling
  <2>3. order[job[q].order].made
    BY <2>2 DEF OrdersMade
  <2>4. order'[job[q].order].discount = order[job[q].order].discount
    BY <2>2, <2>3, MadeStays
  <2> QED  BY <1>2, <2>1, <2>2, <2>4 DEF Due
<1>3. uses' = uses + (IF CountUse(p) THEN 1 ELSE 0)
  <2>1. CASE CountUse(p)
    BY <2>1 DEF CountUse
  <2>2. CASE ~CountUse(p)
    BY <1>0, <2>2, Writers, ActorMoves
  <2> QED  BY <2>1, <2>2
<1>4. CASE ~Given(p) /\ Given(p)'
  <2>0. job'[p].order \in Orders /\ job'[p].pc \in GivenPCs
    BY <1>0, <1>4 DEF Given, GivenPCs, Hands, InHand, OrderPCs
  <2>1. PICK o \in Orders : o = job'[p].order /\ Fulfilling(p, o)'
    BY <2>0 DEF Fulfilling, GivenPCs
  <2>2. GoesOn(p, o)
    BY <1>4, <2>1, FulfilStep DEF Begins, Ends, LeavesAlone
  <2>3. job[p].order = o /\ fulfilled'[o] = fulfilled[o] + 1 /\ order[o].made
    BY <1>4, <2>2 DEF GoesOn, Fulfilling, OrdersMade
  <2>4. \A k \in Orders \ {o} : fulfilled'[k] = fulfilled[k]
    <3> SUFFICES ASSUME NEW k \in Orders \ {o} PROVE fulfilled'[k] = fulfilled[k]
      OBVIOUS
    <3>1. LeavesAlone(p, k)
      BY <2>1, <2>3, FulfilStep DEF Begins, GoesOn, Ends, Fulfilling
    <3> QED  BY <3>1 DEF LeavesAlone
  <2>5. ~CountUse(p)
    BY <1>0, <2>0, NoJobType DEF CountUse, Finish, GivenPCs
  <2>6. order'[o].discount = order[o].discount
    BY <2>3, MadeStays
  <2>7. CASE order[o].discount
    <3> DEFINE x == <<o, fulfilled[o] + 1>>
    <3>1. x \notin DiscountsGiven
      BY <1>0, InDiscounts
    <3>2. DiscountsGiven' = DiscountsGiven \cup {x}
      <4>1. ASSUME NEW k \in Orders, NEW n \in Nat
            PROVE  <<k, n>> \in DiscountsGiven' <=> <<k, n>> \in DiscountsGiven \/ <<k, n>> = x
        <5>0. /\ <<k, n>> \in DiscountsGiven <=> order[k].discount /\ n \in 1..fulfilled[k]
              /\ <<k, n>> \in DiscountsGiven' <=> order'[k].discount /\ n \in 1..fulfilled'[k]
          BY DEF DiscountsGiven
        <5>1. CASE k = o
          <6>1. n \in 1..(fulfilled[o] + 1) <=> n \in 1..fulfilled[o] \/ n = fulfilled[o] + 1
            BY <1>0
          <6> QED  BY <2>3, <2>6, <2>7, <5>0, <5>1, <6>1
        <5>2. CASE k # o
          <6>1. fulfilled[k] > 0 => order'[k].discount = order[k].discount
            BY DiscountStays
          <6>2. <<k, n>> # x
            BY <5>2
          <6> QED  BY <1>0, <2>4, <5>0, <5>2, <6>1, <6>2
        <5> QED  BY <5>1, <5>2
      <4>2. x \in Orders \X Nat
        BY <1>0
      <4>3. DiscountsGiven \subseteq Orders \X Nat /\ DiscountsGiven' \subseteq Orders \X Nat
        BY <1>0 DEF DiscountsGiven
      <4> HIDE DEF x
      <4> QED  BY <4>1, <4>2, <4>3
    <3> HIDE DEF x
    <3>3. /\ IsFiniteSet(DiscountsGiven')
          /\ Cardinality(DiscountsGiven') = Cardinality(DiscountsGiven) + 1
      BY <1>1, <3>1, <3>2, FS_AddElement
    <3>4. Due' \subseteq Due \cup {p}
      BY <1>2 DEF Due
    <3>5. /\ IsFiniteSet(Due \cup {p})
          /\ Cardinality(Due \cup {p}) = IF p \in Due THEN Cardinality(Due) ELSE Cardinality(Due) + 1
      BY <1>1, FS_AddElement
    <3>6. IsFiniteSet(Due') /\ Cardinality(Due') <= Cardinality(Due \cup {p})
      BY <3>4, <3>5, FS_Subset
    <3>7. Cardinality(Due') \in Nat
      BY <3>6, FS_CardinalityType
    <3>8. uses' + Cardinality(Due') <= Cardinality(DiscountsGiven')
      BY <1>0, <1>1, <1>3, <2>5, <3>3, <3>5, <3>6, <3>7
    <3> QED  BY <3>3, <3>6, <3>8 DEF UsesMatched
  <2>8. CASE ~order[o].discount
    <3>1. p \notin Due'
      BY <2>1, <2>6, <2>8 DEF Due
    <3>2. Due' \subseteq Due
      BY <1>2, <3>1 DEF Due
    <3>3. DiscountsGiven' = DiscountsGiven
      <4>1. ASSUME NEW k \in Orders, NEW n \in Nat
            PROVE  <<k, n>> \in DiscountsGiven' <=> <<k, n>> \in DiscountsGiven
        <5>1. CASE k = o
          BY <1>0, <2>6, <2>8, <5>1 DEF DiscountsGiven
        <5>2. CASE k # o
          <6>1. fulfilled[k] > 0 => order'[k].discount = order[k].discount
            BY DiscountStays
          <6> QED  BY <1>0, <2>4, <5>2, <6>1 DEF DiscountsGiven
        <5> QED  BY <5>1, <5>2
      <4>2. DiscountsGiven \subseteq Orders \X Nat /\ DiscountsGiven' \subseteq Orders \X Nat
        BY <1>0 DEF DiscountsGiven
      <4> QED  BY <4>1, <4>2
    <3>4. IsFiniteSet(Due') /\ Cardinality(Due') <= Cardinality(Due)
      BY <1>1, <3>2, FS_Subset
    <3>5. Cardinality(Due') \in Nat
      BY <3>4, FS_CardinalityType
    <3>6. uses' + Cardinality(Due') <= Cardinality(DiscountsGiven')
      BY <1>0, <1>1, <1>3, <2>5, <3>3, <3>4, <3>5
    <3> QED  BY <1>1, <3>3, <3>4, <3>6 DEF UsesMatched
  <2> QED  BY <2>7, <2>8
<1>5. CASE ~(~Given(p) /\ Given(p)')
  <2>1. \A o \in Orders : fulfilled'[o] = fulfilled[o]
    <3> SUFFICES ASSUME NEW o \in Orders PROVE fulfilled'[o] = fulfilled[o]
      OBVIOUS
    <3> QED  BY <1>5, FulfilStep DEF Begins, GoesOn, Ends, LeavesAlone
  <2>2. DiscountsGiven' = DiscountsGiven
    <3>1. ASSUME NEW k \in Orders, NEW n \in Nat
          PROVE  <<k, n>> \in DiscountsGiven' <=> <<k, n>> \in DiscountsGiven
      <4>1. fulfilled[k] > 0 => order'[k].discount = order[k].discount
        BY DiscountStays
      <4> QED  BY <1>0, <2>1, <4>1 DEF DiscountsGiven
    <3>2. DiscountsGiven \subseteq Orders \X Nat /\ DiscountsGiven' \subseteq Orders \X Nat
      BY <1>0 DEF DiscountsGiven
    <3> QED  BY <3>1, <3>2
  <2>3. p \in Due' => p \in Due
    <3> SUFFICES ASSUME p \in Due' PROVE p \in Due
      OBVIOUS
    <3>1. Given(p)' /\ Given(p) /\ order'[job'[p].order].discount
      BY <1>5 DEF Due
    <3>2. job'[p].order \in Orders /\ job'[p].pc \in GivenPCs
      BY <1>0, <3>1 DEF Given, GivenPCs, Hands, InHand, OrderPCs
    <3>3. PICK o \in Orders : o = job'[p].order /\ Fulfilling(p, o)'
      BY <3>2 DEF Fulfilling, GivenPCs
    <3>4. Fulfilling(p, o)
      BY <3>1, <3>3, FulfilStep DEF Begins, GoesOn, Ends, LeavesAlone
    <3>5. order[o].made
      BY <3>4 DEF OrdersMade
    <3>6. order'[o].discount = order[o].discount
      BY <3>5, MadeStays
    <3> QED  BY <3>1, <3>3, <3>4, <3>6 DEF Due, Fulfilling
  <2>4. Due' \subseteq Due
    BY <1>2, <2>3 DEF Due
  <2>5. CASE CountUse(p)
    <3>1. p \in Due
      <4>1. job[p].pc = "discount_use" /\ req[p] = Idle
        BY <2>5 DEF CountUse, JobAt
      <4>2. order[job[p].order].discount
        BY <4>1 DEF OrdersMade
      <4> QED  BY <4>1, <4>2, IdleType DEF Due, Given, GivenPCs, Before
    <3>2. p \notin Due'
      BY <1>0, <2>5, NoJobType DEF CountUse, Finish, Due, Given, GivenPCs
    <3>3. Due' \subseteq Due \ {p}
      BY <2>4, <3>2
    <3>4. IsFiniteSet(Due \ {p}) /\ Cardinality(Due \ {p}) = Cardinality(Due) - 1
      BY <1>1, <3>1, FS_RemoveElement
    <3>5. IsFiniteSet(Due') /\ Cardinality(Due') <= Cardinality(Due \ {p})
      BY <3>3, <3>4, FS_Subset
    <3>6. Cardinality(Due') \in Nat
      BY <3>5, FS_CardinalityType
    <3>7. uses' + Cardinality(Due') <= Cardinality(DiscountsGiven')
      BY <1>0, <1>1, <1>3, <2>2, <2>5, <3>4, <3>5, <3>6
    <3> QED  BY <1>1, <2>2, <3>5, <3>7 DEF UsesMatched
  <2>6. CASE ~CountUse(p)
    <3>1. IsFiniteSet(Due') /\ Cardinality(Due') <= Cardinality(Due)
      BY <1>1, <2>4, FS_Subset
    <3>2. Cardinality(Due') \in Nat
      BY <3>1, FS_CardinalityType
    <3>3. uses' + Cardinality(Due') <= Cardinality(DiscountsGiven')
      BY <1>0, <1>1, <1>3, <2>2, <2>6, <3>1, <3>2
    <3> QED  BY <1>1, <2>2, <3>1, <3>3 DEF UsesMatched
  <2> QED  BY <2>5, <2>6
<1> QED  BY <1>4, <1>5

LEMMA NextUsesMatched ==
    ASSUME PaymentTypeOK, Hands, Served, OrdersMade, UsesMatched, [Next]_allVars
    PROVE  UsesMatched'
<1>0. \A o \in Orders : fulfilled[o] \in Nat
  BY DEF PaymentTypeOK
<1>1. ASSUME NEW p \in Requests, Acts(p)
      PROVE  UsesMatched'
  BY <1>1, DiscountStep
<1>2. ASSUME Due' \subseteq Due, UNCHANGED <<fulfilled, uses>>,
             \A o \in Orders : order'[o].discount = order[o].discount
      PROVE  UsesMatched'
  <2>1. DiscountsGiven' = DiscountsGiven
    BY <1>2 DEF DiscountsGiven
  <2>2. IsFiniteSet(Due') /\ Cardinality(Due') <= Cardinality(Due)
    BY <1>2, FS_Subset DEF UsesMatched
  <2>3. Cardinality(Due) \in Nat /\ Cardinality(Due') \in Nat /\ Cardinality(DiscountsGiven) \in Nat
    BY <2>2, FS_CardinalityType DEF UsesMatched
  <2>4. uses' + Cardinality(Due') <= Cardinality(DiscountsGiven')
    BY <1>2, <2>1, <2>2, <2>3 DEF UsesMatched, PaymentTypeOK
  <2> QED  BY <2>1, <2>2, <2>4 DEF UsesMatched
<1>3. CASE Elsewhere \/ UNCHANGED allVars
  <2>1. UNCHANGED <<job, req, fulfilled, uses>>
    BY <1>3, ElsewhereKeeps
  <2>2. \A o \in Orders : order'[o].discount = order[o].discount
    BY <1>3, ElsewhereOrders
  <2>3. Due' \subseteq Due
    <3> SUFFICES ASSUME NEW p \in Requests, p \in Due' PROVE p \in Due
      BY DEF Due
    <3>1. job[p].order \in Orders
      BY <2>1 DEF Due, Given, GivenPCs, Hands, InHand, OrderPCs
    <3> QED  BY <2>1, <2>2, <3>1 DEF Due, Given
  <2> QED  BY <1>2, <2>1, <2>2, <2>3
<1>4. CASE RestartServer
  <2>1. /\ \A p \in Requests : job'[p] = NoJob
        /\ UNCHANGED <<fulfilled, order, uses>>
    BY <1>4 DEF RestartServer, paymentDocs
  <2>2. Due' = {}
    BY <2>1, NoJobType DEF Due, Given, GivenPCs
  <2> QED  BY <1>2, <2>1, <2>2
<1> QED  BY <1>1, <1>3, <1>4, NextCases

\* razorpay_link_status, razorpay_verify_payment: a discount code counts no redemption
\* that was not a fulfilled order, however confirmations overlap and wherever the
\* server stops: what is counted and what is still to be counted is no more than the
\* discounted orders that were given.
THEOREM UsesAreFulfilmentsInvariant == Spec => []UsesAreFulfilments
<1>1. Init => OrdersMade /\ Served
  <2>1. Init => OrdersMade
    BY PaymentAssumption, NoJobType
       DEF Init, OrdersMade, Unmade, Fulfilling, NoJob
  <2> QED  BY <2>1, InitServed
<1>2. Init => UsesMatched
  <2> SUFFICES ASSUME Init PROVE UsesMatched
    OBVIOUS
  <2>1. Due = {}
    BY NoJobType DEF Init, Due, Given, GivenPCs
  <2>2. DiscountsGiven = {} /\ uses = 0
    BY DEF Init, DiscountsGiven
  <2> QED  BY <2>1, <2>2, FS_EmptySet DEF UsesMatched
<1>3. PaymentTypeOK /\ Hands /\ Served /\ OrdersMade /\ UsesMatched /\ [Next]_allVars
        => Served' /\ OrdersMade' /\ UsesMatched'
  BY NextServed, NextOrdersMade, NextUsesMatched
<1>4. PaymentTypeOK /\ UsesMatched => UsesAreFulfilments
  <2> SUFFICES ASSUME PaymentTypeOK, UsesMatched PROVE UsesAreFulfilments
    OBVIOUS
  <2>1. Cardinality(Due) \in Nat /\ Cardinality(DiscountsGiven) \in Nat
    BY FS_CardinalityType DEF UsesMatched
  <2> QED  BY <2>1 DEF PaymentTypeOK, UsesMatched, UsesAreFulfilments
<1> QED  BY <1>1, <1>2, <1>3, <1>4, PaymentTypes, PTL DEF Spec

\* charge_for_feature, charge_service and the chat's record_credits: everything that
\* counts in a user's usage window was charged to the wallet, also while payments,
\* receipts and webhooks move it.
THEOREM PaymentsChargeFirst == Spec => []UsageWasCharged
BY PaymentsImplementWallet, UsageWasChargedInvariant, PTL
=============================================================================
