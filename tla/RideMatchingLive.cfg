SPECIFICATION FairSpec
CONSTANTS
    Rides = {r1}
    Drivers = {d1}
    NoDriver = NoDriver
    Crashing = {"ride", "gateway"}
    FlowBookings = TRUE
    WalletFails = FALSE
    MaxMessages = 3
    MaxQueue = 3
    MaxCrashes = 1
PROPERTIES
    NoSilentSearch
    HeldFareComesBack
CHECK_DEADLOCK FALSE
