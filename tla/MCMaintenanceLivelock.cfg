\* A plan change leaves a reset time behind that the new plan never acts on.
CONSTANTS
    Requests = {1}
    Plans <- OnlyPlain
    Overrides <- None
    Deltas <- None
    Balances <- None
    Legacy <- OneDaily
    FiveHours = 1
    Retention = 0
    MaxQuota = 1
    MaxUsage = 8
    MaxTime = 2
    MaxLag = 0
    MaxSub = 2
    MaxWindow = 3
    MaxVersion = 2
    BatchSize = 1
    RecoveryAge = 3
    MaxFaults = 0
SPECIFICATION MSpec
PROPERTIES
    TickEnds
