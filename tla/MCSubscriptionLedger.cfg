\* Windows, late settlement, resets and retention; the administrators around a
\* request; upgrades and bindings while requests or an old task are in flight.
CONSTANTS
    r1 = r1
    r2 = r2
    Requests = {r1, r2}
    Plans <- TwoPlans
    Overrides = {6}
    Deltas <- MinusOne
    Balances = {1}
    Legacy <- OneLegacy
    FiveHours = 2
    Retention = 0
    MaxQuota = 2
    MaxUsage = 8
    MaxTime = 4
    MaxLag = 1
    MaxSub = 4
    MaxWindow = 6
    MaxVersion = 2
SYMMETRY Symmetry
SPECIFICATION LedgerSpec
INVARIANTS
    UsageConserved
    RecordsFindWindows
    OverrunOnlyBySettlement
    QueuedIsReserved
    ReservationsCovered
    CurrentWindowsAgree
    OneWindowInForce
    FiveHourSpan
    TypeOK
PROPERTIES
    DeadlineFixed
    ImplementsUsageCharge
CHECK_DEADLOCK FALSE
