SPECIFICATION FairSpec
CONSTANTS
    Users = {u1}
    Requests = {x1}
    UserOf <- MCUserOf
    Amount <- MCAmount
    Funds <- MCFunds
    Workers = {w1, w2, w3}
    MaxAmount = 2
INVARIANTS
    LockedBacksReservations
    PaidIsNotRefunded
PROPERTIES
    KnownFateIsApplied
    KeepsTransferContract
CHECK_DEADLOCK FALSE
