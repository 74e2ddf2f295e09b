SPECIFICATION Spec
CONSTANTS
    i1 = i1
    i2 = i2
    o1 = o1
    o2 = o2
    n1 = n1
    n2 = n2
    NoRequest = NoRequest
    NoUser = NoUser
    Founding = Founding
    Requests = {1, 2, 3}
    Invites = {i1, i2}
    Users = {o1, o2, n1, n2}
    Founders = {o1, o2}
    MaxSeats = 3
    Pool = 3
    Settings <- InvitesAndAcceptances
INVARIANT
    SeatCapKept
CHECK_DEADLOCK FALSE
