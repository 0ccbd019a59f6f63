SPECIFICATION FairSpec
CONSTANTS
    ShortFseqs = 2
    Growth = 2
    None = None
    p1 = p1
    p2 = p2
    Publishers = {p1, p2}
    Configs <- AllConfigs
    MaxEvents = 2
    MaxDups = 1
    Keep = 1
    MaxTime = 3
INVARIANTS AssertionsHold BothCountAlike EnoughIsDelivered
PROPERTIES ImplementsTransfer LosslessDelivers
CHECK_DEADLOCK FALSE
