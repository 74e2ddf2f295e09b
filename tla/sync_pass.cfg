SPECIFICATION FairSpec
CONSTANTS
    p1 = p1
    p2 = p2
    d1 = d1
    s1 = s1
    a = a
    b = b
    NoPass = NoPass
    NoJob = NoJob
    Passes = {p1, p2}
    Drafts = {d1}
    Fresh = {d1}
    Recommits = {}
    Syncs = {s1}
    Records = {a, b}
    Settings <- MCSettings
    MaxAttempts = 2
    MaxStalls = 1
    MaxChanges = 1
    MaxTime = 12
INVARIANTS
    SyncTypeOK
    SnapshotKept
    CommitCompletedIsDone
    WorkKeepsInstance
    WorkedDraftIsTold
PROPERTIES
    ImplementsOwnedTable
    LockComesFree
CHECK_DEADLOCK FALSE
