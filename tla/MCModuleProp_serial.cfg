SPECIFICATION PropSpec
CHECK_DEADLOCK FALSE
CONSTANTS
    c1 = c1
    t1 = t1
    t2 = t2
    Callers = {c1}
    Tunnels = {t1, t2}
    Monitor = Monitor
    Nil = Nil
SYMMETRY Symmetry
INVARIANTS StoppedIsShown StoppedIsPublished RulesHaveOwner StoppedFrees
           StopReaches CancelledMoves
PROPERTIES CancelledDescends PromiseKept
