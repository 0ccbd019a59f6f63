SPECIFICATION Spec
CONSTANTS
    n1 = n1
    n2 = n2
    n3 = n3
    Broker = broker
    Clients = {n1, n2, n3}
    ccp_stages = 3
    Width = 4
    UIDOf <- MCUIDOf
    Lag = 0
    MaxDropOuts = 2
CHECK_DEADLOCK FALSE
INVARIANTS TypeOK NumbersAreUnique
PROPERTY ConfiguredUnlessDropOut
