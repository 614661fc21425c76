\* Two bindings that miss each other, a request and a purchase.
CONSTANTS
    r1 = r1
    r2 = r2
    Requests = {r1}
    Plans <- TwoPlans
    Overrides <- None
    Deltas <- None
    Balances <- None
    Legacy <- NoLegacy
    FiveHours = 4
    Retention = 0
    MaxQuota = 2
    MaxUsage = 8
    MaxTime = 1
    MaxLag = 0
    MaxSub = 3
    MaxWindow = 4
    MaxVersion = 1
SPECIFICATION ExpirySpec
INVARIANTS
    ExpiryCapsFiveHourWindow
CHECK_DEADLOCK FALSE
