SPECIFICATION FairSpec
CHECK_DEADLOCK FALSE
CONSTANTS
    PoolSize = 1
    Workers = {w1}
    BreakerLimit = 2
    MaxSession = 3
    MaxEnsure = 1
    MaxSleeper = 1
PROPERTY BreakerRestartsPool
