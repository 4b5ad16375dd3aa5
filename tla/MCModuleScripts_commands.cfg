SPECIFICATION FairSpec
CHECK_DEADLOCK FALSE
CONSTANTS
    Commands <- TwoCommands
    Watchdogs <- ThreePids
    Daemons <- TwoPids
    Nil = 0
    MaxAsked = 2
    MaxEvents = 3
INVARIANTS OneDaemon StopStops
PROPERTIES Restored OneWatchdog
