\* A client of each implementation over a bus that may lose any access: each with
\* the page to itself, before, after and during a call of the other; the module may
\* hold on to a command for ever.
SPECIFICATION FairSpec
CONSTANTS
    Clients    = {a1, h1}
    ApiClients = {a1}
    Msgs      <- MCMsgs
    HeaderSum <- MCHeaderSum
    MaxPolls   = 3
    Lossy      = TRUE
    None       = None
INVARIANTS TypeOK HandlerVerdictSound HandlerToldAfterEnd
PROPERTIES CallReturns
