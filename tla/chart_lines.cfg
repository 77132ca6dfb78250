CONSTANTS
    l1 = l1 l2 = l2 i1 = i1 i2 = i2
    Lines <- OneLine
    Prices = {1, 2, 3}
    Opening = 1
    Levels = {3}
    Instances = {i1, i2}
    Client = Client
    NoPrice = NoPrice
    Nobody = Nobody
    LostClaims = FALSE
    MaxMoves = 1
    MaxFaults = 1
SPECIFICATION FairSpec
INVARIANTS TypeOK LineTellsTheTruth
PROPERTIES NothingSteppedOver PendingSettles
CHECK_DEADLOCK FALSE
