\* One subscription, two requests, one failure or restart.
CONSTANTS
    Requests = {1, 2}
    Plans <- None
    Overrides <- None
    Deltas <- None
    Balances <- None
    Legacy <- OneDaily
    FiveHours = 1
    Retention = 0
    MaxQuota = 1
    MaxUsage = 8
    MaxTime = 3
    MaxLag = 0
    MaxSub = 1
    MaxWindow = 3
    MaxVersion = 2
    BatchSize = 1
    RecoveryAge = 0
    MaxFaults = 1
SPECIFICATION MSpec
PROPERTIES
    DueIsHandled
    ChargesAreMade
    NeverGuessed
