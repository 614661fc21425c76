\* Three handlers of one order; two goroutines around one cached user.
CONSTANTS
    n1 = n1
    n2 = n2
    o1 = o1
    h1 = h1
    h2 = h2
    h3 = h3
    m1 = m1
    m2 = m2
    m3 = m3
    NoMutex = NoMutex
    Nodes = {n1}
    Orders = {o1}
    Handlers = {h1, h2, h3}
    Mutexes = {m1, m2, m3}
    MaxCalls = 4
    MaxRestarts = 1
    MaxFailedStatements = 1
    s1 = s1
    s2 = s2
    None = None
    Start = 3
    Slots = {s1, s2}
    Amounts = {1, 2}
    MaxChanges = 2
    BatchEnabled = TRUE
SPECIFICATION WalletSpec
INVARIANTS
    CreditedUnderLock
    CacheSound
PROPERTIES
    TopUpsFinish
    CacheConverges
CHECK_DEADLOCK FALSE
