\* Two runners, two tasks, claims that end within the lease, a crash, a failure.
CONSTANTS
    n1 = n1
    n2 = n2
    n3 = n3
    Runners = {n1, n2}
    MaxTasks = 2
    TTL = 1
    MaxPause = 1
    MaxRunnerCrashes = 1
    MaxLeaseFailures = 1
SPECIFICATION FairLeaseSpec
INVARIANTS
    LeaseHonoured
PROPERTIES
    VerdictStands
    EveryTaskEnds
CHECK_DEADLOCK FALSE
