\* All calls, three entries in the table, faults without end of which four are counted.
SPECIFICATION FairSpec
CONSTANTS
    Sessions  = {s1, s2, s3}
    Apis      = {"read", "close", "reset", "open"}
    MaxFaults = 4
    None      = None
INVARIANTS TypeOK LoggedOutWhenDone SessionsAccounted ResetOkMeansReset
PROPERTIES CallsReturn
