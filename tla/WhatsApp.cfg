SPECIFICATION ConversationSpec
CONSTANTS
    None = None
    w1 = w1
    w2 = w2
    r1 = r1
    r2 = r2
    d1 = d1
    d2 = d2
    b1 = b1
    b2 = b2
    a1 = a1
    a2 = a2
    Webhooks = {w1, w2}
    Rides = {r1, r2}
    Drivers = {d1, d2}
    Prices = {1, 2}
    Amounts = {1, 2}
    Banks = {b1, b2}
    Accounts = {a1, a2}
    Budget <- MCBudget
    MaxRoutes = 3
    MaxRequests = 2
    MaxSelfieAttempts = 2
SYMMETRY Symmetry
INVARIANTS
    AskedAsShown
    FareWasListed
    SubmittedAsShown
CHECK_DEADLOCK FALSE
