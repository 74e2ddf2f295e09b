SPECIFICATION Spec
CONSTANTS
    Jobs = {j1}
    Execs = {e1, e2}
    NoExec = NoExec
    NoJob = NoJob
    MaxAttempts = 3
    MaxStalls = 1
    MaxOutages = 0
    Cancels = TRUE
    Settings = {{}}
CHECK_DEADLOCK FALSE
PROPERTY FirstTerminalWins
