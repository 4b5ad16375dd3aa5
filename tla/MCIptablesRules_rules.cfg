SPECIFICATION Spec
CHECK_DEADLOCK FALSE
CONSTANTS
    t1 = t1
    t2 = t2
    Tunnels = {t1, t2}
    Script = Script
    Configs <- ThreeConfigs
    Nil = Nil
    Absent = Absent
    MaxFaults = 1
    MaxKills = 1
SYMMETRY Symmetry
INVARIANTS NothingLeft SafeAtRest AppliedIsComplete NoLoop HookedOnce
