SPECIFICATION Spec
CONSTANTS
    Rides = {r1}
    Drivers = {d1, d2}
    NoDriver = NoDriver
    Crashing = {"ride", "gateway"}
    FlowBookings = TRUE
    WalletFails = TRUE
    MaxMessages = 3
    MaxQueue = 3
    MaxCrashes = 1
INVARIANTS
    MatchedIsSecured
    
SYMMETRY Symmetry
CHECK_DEADLOCK FALSE
