CONSTANTS
    u1 = u1  g1 = g1  g2 = g2  s1 = s1  s2 = s2  s3 = s3  r1 = r1  r2 = r2  r3 = r3
    Users = {u1}
    Admins = {}
    Sessions = {s1}
    Grants = {g1}
    GrantOwner <- MCGrantOwner
    GrantSize = 1
    IssuedGrants = {g1}
    Requests = {r1, r2}
    Sweeper = sweeper
    NoUser = no_user
    NoGrant = no_grant
    NoSession = no_session
    MinQuestions <- MCMinQuestions
    TechnicalMinutes = 1
    BehavioralMinutes = 1
    AbandonedGrace = 1
    HardExpire = 3
    WarningsBeforeTermination = 1
    Offered = {"create", "start"}
    MaxTime = 3
    LastCreate = 1
    MaxCalls = 2
    MaxCrashes = 0
SPECIFICATION Spec
INVARIANT RefundMeansAbandoned
SYMMETRY RequestSymmetry
CHECK_DEADLOCK FALSE
