SPECIFICATION GateSpec
CONSTANTS
    c1 = c1
    c2 = c2
    c3 = c3
    c4 = c4
    c5 = c5
    c6 = c6
    oa = oa
    ob = ob
    oc = oc
    Callers = {c1, c2, c3, c4, c5, c6}
    GateKeys = {oa, ob, oc}
    KeyOf <- MCKeyOf
    Concurrency = 3
    PerKeyLimit = 2
    MaxQueue = 2
INVARIANTS
    GateTypeOK
    SlotsCounted
    NoIdleSlot
PROPERTIES
    NoOvertaking
    NobodyStarves
