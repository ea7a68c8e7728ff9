SPECIFICATION FairSpec
CONSTANTS
    Bookings = {b1}
    JobRunners = {job1}
    Scanners = {scan1, scan2}
    Attempts = 2
    MaxFaults = 2
INVARIANTS
    DispatchedOnce
    CashbackFollowsRide
PROPERTIES
    BookingIsClosed
    RequestReachesTopic
CHECK_DEADLOCK FALSE
