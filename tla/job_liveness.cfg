SPECIFICATION FairSpec
CONSTANTS
    Jobs = {j1}
    Execs = {e1, e2}
    NoExec = NoExec
    NoJob = NoJob
    MaxAttempts = 2
    MaxStalls = 1
    MaxOutages = 1
    Cancels = TRUE
    Settings = {{"crash", "zombie", "redisLoss", "slowHandler"},
                {"crash", "redisLoss", "dispatchError", "dispatchCrash", "slowHandler"}}
CHECK_DEADLOCK FALSE
INVARIANT TypeOK
PROPERTIES
    SettledIsFinal
    EventuallyTerminal
