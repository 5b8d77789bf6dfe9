\* An admin that may overrun and a watcher that looks.
SPECIFICATION FairSpec
CONSTANTS
    Admins      = {a1}
    Watchers    = {w1}
    Timeout    <- CodeTimeouts
    Faults      = {"overrun"}
    None        = None
PROPERTIES WatcherCallsReturn
