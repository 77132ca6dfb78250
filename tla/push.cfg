CONSTANTS
    ua = ua ub = ub t1 = t1 t2 = t2 a1 = a1 i1 = i1 i2 = i2
    Users = {ua, ub}
    Tokens = {t1, t2}
    Alerts = {a1}
    UserOf <- OfA
    Instances = {i1, i2}
    MaxDevices = 1
    MaxAttempts = 2
    MaxMoves = 3
    MaxFaults = 2
    LongSends = FALSE
    Nobody = Nobody
SPECIFICATION FairSpec
INVARIANTS TypeOK RepeatsAreExcused DeadIsDeserved
PROPERTIES OnlyToItsOwner EveryDeliverySettles
CHECK_DEADLOCK FALSE
