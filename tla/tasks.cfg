SPECIFICATION Spec
CONSTANTS
    p1 = p1
    s1 = s1
    s2 = s2
    b1 = b1
    Publishers = {p1}
    Subscribers = {s1, s2}
    Background = {b1}
    Period <- MCPeriod
    Starts = {0, 1}
    Lead = 2
    MaxLate = 3
    Usages <- MCUsages
INVARIANTS TypeOK QueueIntact NoTaskLost
PROPERTIES EveryTaskRuns NeverEarly
