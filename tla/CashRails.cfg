SPECIFICATION Spec
CONSTANTS
    r1 = r1  rider = rider  driver = driver  d1 = d1
    Treasury = Treasury
    Rides = {r1}
    Users = {rider, driver}
    Deposits = {d1}
    RiderOf <- MCRiderOf
    DriverOf <- MCDriverOf
    OwnerOf <- MCOwnerOf
    DepositNgn = 6
    Total = 2  Updated = 3  Payout = 1
    Fee = 1  ConfiguredFee = 0  SweepMin = 1
    MaxThrows = 2  MaxCrashes = 1
INVARIANTS  RideCashFollowsLedger
PROPERTIES FailedWebhookIsRetried
CHECK_DEADLOCK FALSE
