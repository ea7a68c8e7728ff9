SPECIFICATION Spec
CONSTANTS
    b1 = b1
    b2 = b2
    r1 = r1
    r2 = r2
    d1 = d1
    d2 = d2
    w1 = w1
    w2 = w2
    Bookings <- MCBookings
    RiderOf <- MCRiderOf
    Drivers = {d1, d2}
    NoDriver = NoDriver
    Workers = {w1, w2}
    TotalSeats = 2
    Price = 4
    Bid = 2
INVARIANT SeatsMatchBookings
INVARIANT FareFollowsSeat
PROPERTY KeepsSaleContract
SYMMETRY Symmetry
CHECK_DEADLOCK FALSE
