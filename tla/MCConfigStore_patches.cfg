SPECIFICATION Spec
CHECK_DEADLOCK FALSE
CONSTANTS
    h1 = h1
    h2 = h2
    v1 = v1
    v2 = v2
    i1 = i1
    i2 = i2
    i3 = i3
    i4 = i4
    Handlers = {h1, h2}
    Values = {v1, v2}
    Inodes = {i1, i2, i3, i4}
    Nil = Nil
    Empty = Empty
    Torn = Torn
SYMMETRY Symmetry
INVARIANTS TornIsReported FileWhole SettledAgrees
PROPERTIES OnlyPatched
