SPECIFICATION Spec
CONSTANTS
    Jobs = {j1}
    Execs = {e1, e2}
    NoExec = NoExec
    NoJob = NoJob
    MaxAttempts = 3
    MaxStalls = 1
    MaxOutages = 2
    Cancels = FALSE
    Settings = {{"crash", "readError", "writeError", "publishError"}}
CHECK_DEADLOCK FALSE
SYMMETRY Symmetry
INVARIANTS
    RunningHoldsLock
    ReapedIsGone
    BudgetKept
