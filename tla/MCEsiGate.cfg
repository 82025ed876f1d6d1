SPECIFICATION GateFairSpec
CONSTANTS
    Waiter = {page1, page2}
    Ticket = {load}
    NoTicket = NoTicket
    Limit = 2
    LowReserve = 1
    None = None
    TicketOf <- MCTicketOf
    InitialLane <- MCInitialLane
    Response <- MCResponse
    LowWater = 1
    MaxWait = 1
    MaxSpacing = 1
    MaxCircuit = 5
    ErrorWindow = 2
    RateWindow = 1
    MaxTime = 2
INVARIANTS
    PermitsHeldByCalls
    BrakeSpreads
PROPERTIES
    OnlyFreshAnswersReopen
    EveryCallEnds
CHECK_DEADLOCK FALSE
