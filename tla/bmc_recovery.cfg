\* Reading calls only.
SPECIFICATION Spec
CONSTANTS
    Sessions  = {s1, s2}
    Apis      = {"read"}
    MaxFaults = 1
    None      = None
INVARIANTS RecoveredCommandSucceeds
