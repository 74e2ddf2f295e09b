SPECIFICATION FairLockGateSpec
CONSTANTS
    i1 = i1
    i2 = i2
    e1 = e1
    e2 = e2
    j1 = j1
    t1 = t1
    t2 = t2
    t3 = t3
    u1 = u1
    oa = oa
    ob = ob
    Instances = {i1, i2}
    Entities = {e1, e2}
    Initially = {e1, e2}
    Mapped = {e1}
    InstanceOf <- MCInstanceOf
    Rank <- MCRank
    RequestsOf <- MCRequestsOf
    Jobs = {j1}
    Txns = {t1, t2, t3, u1}
    Tools = {t1, t2, t3}
    PoolSize = 5
    GateKeys = {oa, ob}
    KeyOf <- MCKeyOf
    Concurrency = 2
    PerKeyLimit = 1
    MaxQueue = 2
INVARIANTS
    LockTypeOK
    ToolsBounded
PROPERTY EveryCallEnds
