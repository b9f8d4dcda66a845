SPECIFICATION FairSpec
CONSTANTS
    h1 = h1
    r1 = r1
    r2 = r2
    NoMint = NoMint
    Mints = {h1}
    Runs = {r1, r2}
    LeaseTTL = 1
    StaleTTL = 3
    MaxOffers = 3
    MaxFails = 1
CHECK_DEADLOCK FALSE
INVARIANT OneOffer
INVARIANT RowTellsDelivery
PROPERTY MintDelivered
