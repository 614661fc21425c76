\* A realtime connection and a plain request over both funding sources; two
\* plans, one above the other, and two codes; three requests under a group's limits.
SPECIFICATION RelaySpec
CONSTANTS
    basic = basic  pro = pro  c1 = c1  c2 = c2
    free = free  light = light  vip = vip  None = None
    Groups = {free, light, vip}
    Default = free
    Plans = {basic, pro}
    Codes = {c1, c2}
    CodeOf <- Gifts
    Sites <- Deployments
    MaxSubs = 3
    MaxTime = 3
    q1 = q1  q2 = q2  q3 = q3
    Calls = {q1, q2, q3}
    Policies <- Limits
    Budgets = {1, 2}
    Lease = 2
    Minute = 1
    MaxClock = 4
    MaxCrashes = 1
    r1 = r1  r2 = r2
    Requests = {r1, r2}
    MaxQuota = 2
    Wallet = 3
    Key = 3
    Unlimited = FALSE
    TrustQuota = 1
    Routes <- AllRoutes
    Realtime = {r1}
    Fees = {1}
    MaxReserves = 1
    MaxTurns = 1
    MaxFailures = 1
SYMMETRY Symmetry
INVARIANTS
    ChargedForOutcome
    GroupsReturn
    WithinLimits
PROPERTIES
    NoLoanOverSubscription
CHECK_DEADLOCK FALSE
