SPECIFICATION GroupRidesSpec
CONSTANTS
    q1 = q1
    q2 = q2
    q3 = q3
    Requests = {q1, q2, q3}
    Pickup <- MCPickup
    Dropoff <- MCDropoff
    PickupRadius = 3
    DestinationRadius = 4
    MaxCandidates = 2
    MaxSize = 3
    MaxExactNodes = 12
    Verified = {q1}
    Groups = {g1, g2}
    MaxMail = 2
    MaxFaults = 1
    None = None
INVARIANTS
    StopsServeTheGroup
    OneGroupPerRider
    BroadcastOnce

    
CHECK_DEADLOCK FALSE
