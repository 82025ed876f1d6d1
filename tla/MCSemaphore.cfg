SPECIFICATION SemFairSpec
CONSTANTS
    Waiter = {w1, w2, w3, w4}
    Ticket = {k1, k2}
    NoTicket = NoTicket
    Limit = 2
    LowReserve = 1
    None = None
INVARIANTS
    PermitsAccounted
PROPERTIES
    KeepsItsPromise
    NoLaneStarvedAlone
