CONSTANTS
    w1 = w1 w2 = w2 p1 = p1 i1 = i1 i2 = i2
    Webhooks = {w1, w2}
    Emissions = {p1}
    StatusOf <- Reports
    Terminal = {"filled"}
    Instances = {i1, i2}
    MaxAttempts = 2
    IngestAttempts = 2
    MaxFaults = 2
    Nobody = Nobody
SPECIFICATION FairSpec
INVARIANTS TypeOK ProcessedIsPersisted
PROPERTIES FinishedIsFinal EveryWebhookSettles
CHECK_DEADLOCK FALSE
