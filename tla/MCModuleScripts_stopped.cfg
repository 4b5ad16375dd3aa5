SPECIFICATION Spec
CHECK_DEADLOCK FALSE
CONSTANTS
    Commands <- TwoCommands
    Watchdogs <- ThreePids
    Daemons <- ThreePids
    Nil = 0
    MaxAsked = 2
    MaxEvents = 3
INVARIANT ModuleStopped
