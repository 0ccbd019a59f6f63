SPECIFICATION Spec
CONSTANTS
    a = a
    b = b
    c = c
    g = g
    h = h
    A = A
    B = B
    C = C
    S1 = S1
    S2 = S2
    e1 = e1
    e2 = e2
    f1 = f1
    Nodes = {a, b, c, g, h}
    Gateways = {g, h}
    Networks = {A, B, C}
    Subjects = {S1, S2}
    Events = {e1, e2, f1}
    SubjectOf <- MCSubjectOf
    SUBSCRIBE = SUBSCRIBE
    Configs <- MCConfigs
    None = None
INVARIANTS OneProxy
PROPERTIES ImplementsBus SubscriptionsSpread ServedGetEvents
CHECK_DEADLOCK FALSE
