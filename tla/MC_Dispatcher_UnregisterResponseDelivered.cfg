CONSTANTS
    i1 = i1
    i2 = i2
    i3 = i3
    NoId = NoId
    Ids <- MC_Ids
    Requests <- MC_Requests
    MaxConnLoss = 2
    MaxHealth = 1

SPECIFICATION FairSpec

INVARIANT UnregisterResponseDelivered


CHECK_DEADLOCK FALSE
