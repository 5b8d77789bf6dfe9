SPECIFICATION Spec
CONSTANTS
    Threads   = {t1, t2}
    Upgraders = {t1}
    MaxPolls  = 1
    Packets   = 2
    MaxCalls  = 2
    Nobody = Nobody
    Stale = Stale
    Off = Off
INVARIANTS
    TypeOK
    OneCallRepairs
    LastToggleWins
    ToldTruly
    CreatedAsAsked
    FecKeepsTheRest
    AnswerOfRequest
PROPERTIES
    IsCommandChannel
    DirectionSeen
    UpgradesAsTold
    HitlessKeepsMux
    AlignedNeverBlank
    ResetTrueMeansReset
CHECK_DEADLOCK FALSE
