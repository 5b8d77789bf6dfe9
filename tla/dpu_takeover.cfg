\* The allowance of a shutdown is shorter than that of a startup; both are kept.
SPECIFICATION Spec
CONSTANTS
    Admins      = {a1, a2}
    Watchers    = {}
    Timeout    <- CodeTimeouts
    Faults      = {"long"}
    None        = None
INVARIANTS OwnAllowanceExcludes
