SPECIFICATION Spec
CONSTANTS
    n1 = n1
    n2 = n2
    s1 = s1
    s2 = s2
    Nodes = {n1, n2}
    Subjects = {s1, s2}
    interval = 2
    maxAge = 3
    PerPacket = 1
    CLOCKS_PER_SEC = 2
    IntBound = 11
    Configs <- MCConfigs
    MaxFaults = 1
    MaxLeaves = 1
INVARIANTS LeasesHold
PROPERTIES FlowsAreGood ServedAgain
