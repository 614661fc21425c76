\* Three runners and one task: one dies with the lock, one cleans up, one claims.
CONSTANTS
    n1 = n1
    n2 = n2
    n3 = n3
    Runners = {n1, n2, n3}
    MaxTasks = 1
    TTL = 1
    MaxPause = 1
    MaxRunnerCrashes = 1
    MaxLeaseFailures = 0
SPECIFICATION FairLeaseSpec
PROPERTIES
    HeartbeatProtects
CHECK_DEADLOCK FALSE
