CONSTANTS
    r1 = r1  r2 = r2  o1 = o1  t1 = t1  t2 = t2  t3 = t3
    e1 = e1  e2 = e2  e3 = e3  e4 = e4  m1 = m1  m2 = m2  sub = sub
    Requests = {r1, r2}
    WELCOME_CREDITS = 2
    DAILY_CREDITS = 1
    Costs = {0, 2}
    Purchases = {2}
    Adjustments <- MCAdjustments
    AdjustedBuckets = {"daily"}
    DayHours = 1
    WindowHours = 1
    WindowCredits = 3
    ENFORCE_USAGE_WINDOW = TRUE
    MaxTime = 1
    Orders = {o1}
    PackCredits = 2
    Txns = {t1, t2, t3}
    TxnProduct <- MCTxnProduct
    Events = {e1, e2, e3, e4}
    EventOf <- MCEventOf
    Plans = {"free", "basic", "pro"}
    MonthlyCredits <- MCMonthlyCredits
    MaxUses = 1
    NoOrder = no_order
    NoTxn = no_txn
    NoEvent = no_event
    Workloads <- MCWorkloads
    MaxCalls = 3
    MaxRestarts = 1
SPECIFICATION Spec
INVARIANT PaymentTypeOK
INVARIANT NoOverdraft
INVARIANT NeverMoreThanAdded
INVARIANT LastRowIsTheBalance
INVARIANT RowsCoverTheWallet
INVARIANT UsageWasCharged
INVARIANT CreditedWasFulfilled
INVARIANT FulfilledOnce
INVARIANT ReceiptFirst
INVARIANT ReceiptSettled
INVARIANT UsesAreFulfilments
SYMMETRY BillingSymmetry
CHECK_DEADLOCK FALSE
