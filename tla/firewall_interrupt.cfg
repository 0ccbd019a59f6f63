SPECIFICATION FirewallSpec
CONSTANTS
    Platform = "posix"
    WriterPreempts = TRUE
    Paced = FALSE
    MaxEvents = 5
INVARIANTS FirewallTypeOK NoTornRead
PROPERTIES ReaderSeesLatest SwapBringsNewer
