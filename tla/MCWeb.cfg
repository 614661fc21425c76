\* Two tabs, accounts and requests; two fields.
SPECIFICATION WebSpec
CONSTANTS
    t1 = t1  t2 = t2  a1 = a1  a2 = a2  r1 = r1  r2 = r2
    Nobody = Nobody
    Tabs = {t1, t2}
    Accounts = {a1, a2}
    Requests = {r1, r2}
    MaxVersion = 1
    MaxLogins = 1
    MaxFaults = 1
    OverlappingSignIns = FALSE
    name = name  theme = theme  v0 = v0  v1 = v1  v1s = v1s
    None = None
    Fields = {name, theme}
    Values = {v0, v1, v1s}
    Trim <- Slashes
    Sections <- Forms
    MaxEdits = 3
    MaxOthers = 1
INVARIANTS
    OwnAccountOnly
PROPERTIES
    LateRefusalIsHarmless
    NavigationEnds
    SavedAsTyped
    BaselineIsServerInTheEnd
CHECK_DEADLOCK FALSE
