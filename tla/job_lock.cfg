SPECIFICATION LockSpec
CONSTANTS
    i1 = i1
    e1 = e1
    e2 = e2
    j1 = j1
    j2 = j2
    t1 = t1
    u1 = u1
    u2 = u2
    Instances = {i1}
    Entities = {e1, e2}
    Initially = {e1}
    Mapped = {e1}
    InstanceOf <- MCInstanceOf
    Rank <- MCRank
    RequestsOf <- MCRequestsOf
    Jobs = {j1, j2}
    Txns = {t1, u1, u2}
    Tools = {t1}
    PoolSize = 4
SYMMETRY Symmetry
PROPERTY NoJobUnderWrite
INVARIANTS
    JobsDisjoint
    NoLockCycle
