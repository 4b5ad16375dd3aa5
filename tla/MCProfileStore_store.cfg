SPECIFICATION Spec
CONSTANTS
    h1 = h1
    h2 = h2
    s1 = s1
    s2 = s2
    a = a
    b = b
    c = c
    Handlers = {h1, h2}
    Starters = {s1, s2}
    Ids = {a, b, c}
    MaxProfiles = 2
    Nil = Nil
    Torn = Torn
SYMMETRY Symmetry
INVARIANTS FileSound CopyAgrees RightProfile
PROPERTY OnlyAsked
