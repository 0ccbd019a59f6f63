SPECIFICATION Spec
CONSTANTS
    Clients = {a, b}
    Subjects <- MCSubjects
    reserved = 1
    count = 3
    Contexts = 1
    LocalPreempted = FALSE
    MaxBinds = 4
    MaxLost = 0
CHECK_DEADLOCK FALSE
INVARIANTS TypeOK EtagsNameSubjects
PROPERTIES ImplementsDirectory BindsReturn
