\* A task of any kind, two pollers, crashes, failures and late settlements.
CONSTANTS
    t1 = t1
    n1 = n1
    n2 = n2
    Tasks = {t1}
    Kinds <- AllKinds
    Pollers = {n1, n2}
    MaxQuota = 2
    MaxFailures = 1
    MaxUnsettled = 1
    MaxCrashes = 1
    MaxLookups = 1
SPECIFICATION FairSpec
INVARIANTS
    ChargedForStatus
PROPERTIES
    FinalStays
    EventuallyFinal
CHECK_DEADLOCK FALSE
