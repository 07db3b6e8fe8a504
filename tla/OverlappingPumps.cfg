SPECIFICATION Spec
CONSTANTS
    Worker = {w1, w2}
    ExitStats = {TRUE, FALSE}
    MaxFile = 2
    MaxEpoch = 1
    MaxFault = 1
    MaxLoss = 1
CHECK_DEADLOCK FALSE
INVARIANTS
    AckedIsPersisted
