SPECIFICATION Spec
CONSTANTS
    Riders = {rd1}
    Drivers = {d1, d2}
    Rides = {r1, r2}
    Workers = {gateway, whatsapp, walletService}
    RiderOf <- MCRiderOf
    Fares = {2, 3}
    Deduction <- MCDeduction
    Transfers = {5}
    MaxAmount = 3
    MaxFunds = 5
INVARIANTS
    LockedBacksHolds
    RiderMoneyConserved
    PaidOncePerCharge
PROPERTIES
    KeepsSettlementContract
SYMMETRY Symmetry
CHECK_DEADLOCK FALSE
