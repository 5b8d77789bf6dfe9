SPECIFICATION Spec
CONSTANTS
    Threads    = {t1, t2}
    Ends       = {0, 1}
    Lanes      = {1, 2}
    Masks      = {{1}, {1, 2}}
    Sides      = {0, 1}
    Chunks     = 2
    Installers = {t1}
    Retries    = 1
    Cycles     = 1
    MaxLost    = 1
    MaxCalls   = 2
    Nobody = Nobody
    Absent = Absent
INVARIANT TypeOK
PROPERTIES
    IsCommandChannel
    AsTold
    LoopbacksExclude
    AnswerOfTarget
    FirmwareTold
    ResetKeepsImage
CHECK_DEADLOCK FALSE
