SPECIFICATION Spec
CONSTANTS
    k1 = k1
    k2 = k2
    c1 = c1
    c2 = c2
    p = p
    S1 = S1
    e1 = e1
    e2 = e2
    e3 = e3
    n1 = n1
    Clients = {k1, k2}
    Subscribers = {c1, c2}
    Publishers = {p}
    Events = {e1, e2, e3, n1}
    Subjects = {S1}
    ClientOf <- MCClientOf
    SubjectOf <- MCSubjectOf
    Length <- MCLength
    Limit = 3
    Room = 1
    Configs <- MCConfigs
    None = None
INVARIANTS TypeOK WritesCounted NothingLeft
PROPERTIES ImplementsFeed EverythingArrives CallsReturn ConnectionsEnd
CHECK_DEADLOCK FALSE
