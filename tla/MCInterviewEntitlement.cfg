CONSTANTS
    u1 = u1  g1 = g1  g2 = g2  s1 = s1  s2 = s2  s3 = s3  r1 = r1  r2 = r2  r3 = r3
    Users = {u1}
    Admins = {u1}
    Sessions = {s1, s2}
    Grants = {g1, g2}
    GrantOwner <- MCGrantOwner
    GrantSize = 1
    IssuedGrants = {g1}
    Requests = {r1, r2}
    Sweeper = sweeper
    NoUser = no_user
    NoGrant = no_grant
    NoSession = no_session
    MinQuestions <- MCMinQuestions
    TechnicalMinutes = 1
    BehavioralMinutes = 1
    AbandonedGrace = 1
    HardExpire = 2
    WarningsBeforeTermination = 1
    Offered = {"grant", "create", "start", "end", "language", "status"}
    MaxTime = 3
    LastCreate = 2
    MaxCalls = 4
    MaxCrashes = 0
SPECIFICATION Spec
INVARIANT TypeOK
INVARIANT OneActiveSession
INVARIANT LedgerBalances
INVARIANT NoSessionLost
INVARIANT AbandonedIsRefunded
SYMMETRY RequestSymmetry
CHECK_DEADLOCK FALSE
