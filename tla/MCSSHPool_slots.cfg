SPECIFICATION Spec
CHECK_DEADLOCK FALSE
CONSTANTS
    PoolSize = 2
    Workers = {w1}
    BreakerLimit = 2
    MaxSession = 2
    MaxEnsure = 1
    MaxSleeper = 1
INVARIANTS OneReconnect StreamsBounded
PROPERTY LedgerKept
