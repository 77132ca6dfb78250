CONSTANTS
    e1 = e1 e2 = e2 e3 = e3 i1 = i1 i2 = i2 k1 = k1 k2 = k2 k3 = k3
    Events = {e1, e2}
    Keys = {k1, k2, k3}
    KeyOf <- KeysOfTwo
    KindOf <- AlertThenOrder
    Instances = {i1}
    PollBatch = 2
    ReplayPage = 2
    QueueLimit = 2
    MaxFaults = 1
    Nobody = Nobody
    NoCursor = NoCursor
SPECIFICATION FairSpec
PROPERTY EveryEventArrives
