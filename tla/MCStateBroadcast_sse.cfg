SPECIFICATION FairStateSpec
CHECK_DEADLOCK FALSE
CONSTANTS
    s1 = s1
    s2 = s2
    c1 = c1
    c2 = c2
    Setters = {s1, s2}
    Clients = {c1, c2}
    MaxVersion = 3
INVARIANT NothingMissed
PROPERTY EventuallySent
