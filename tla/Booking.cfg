SPECIFICATION Spec
CONSTANTS
    c1 = c1
    c2 = c2
    s1 = s1
    s2 = s2
    s3 = s3
    r1 = r1
    r2 = r2
    r3 = r3
    b1 = b1
    b2 = b2
    c3 = c3
    r4 = r4
    r5 = r5
    f1 = f1
    f2 = f2
    g1 = g1
    g2 = g2
    Calls = {c1, c2, c3}
    Bodies = {b1, b2}
    BodyOf <- MCBodyOf
    Sockets = {s1, s2, s3}
    Requests = {c1, c2, c3, s1, s2, s3}
    Rides = {r1, r2, r3, r4, r5}
    RideOf <- MCRideOf
    Friends = {f1, f2}
    Gateways = {g1, g2}
    RideReward = 2
    NoRideReward = 1
    Fare = 2
    Batch = 1
    Traffic <- MCTraffic
    Smooth <- MCSmooth
    MaxFaults = 1
INVARIANTS
    CashbackConserved
    DiscountIsBacked
    RewardFitsOutcome
    OneBookingPerKey
    AnswerIsForBody
SYMMETRY Symmetry
CHECK_DEADLOCK FALSE
