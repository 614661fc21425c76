\* One request on a subscription that fails upstream and owes a fee.
CONSTANTS
    r1 = r1
    r2 = r2
    Requests = {r1}
    MaxQuota = 2
    Wallet = 3
    Key = 3
    Unlimited = FALSE
    TrustQuota = 1
    Routes <- AllRoutes
    Realtime = {}
    Fees = {1}
    MaxReserves = 1
    MaxTurns = 0
    MaxFailures = 0
SPECIFICATION Spec
INVARIANTS
    FeeAfterRefund
CHECK_DEADLOCK FALSE
