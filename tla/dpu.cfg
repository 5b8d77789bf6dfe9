\* Two admins and a watcher under every combination of faults, with the order of
\* the allowances of the code.
SPECIFICATION FairSpec
CONSTANTS
    Admins      = {a1, a2}
    Watchers    = {w1}
    Timeout    <- CodeTimeouts
    Faults      = {"overrun", "db", "death"}
    None        = None
INVARIANTS TypeOK TransitionExclusive FlagWhileInTransition HaltFlagIsOwned
PROPERTIES AdminCallsReturn
