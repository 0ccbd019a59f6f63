SPECIFICATION FirewallSpec
CONSTANTS
    Platform = "posix"
    WriterPreempts = FALSE
    Paced = FALSE
    MaxEvents = 3
INVARIANT NoTornRead
