SPECIFICATION Spec
CONSTANTS
    Worker = {w1}
    ExitStats = {TRUE}
    MaxFile = 3
    MaxEpoch = 2
    MaxFault = 2
    MaxLoss = 1
CHECK_DEADLOCK FALSE
INVARIANTS
    TypeOK
    EvidenceSomewhere
    DurableEpochIsComplete
PROPERTIES
    AckedOneWay
    Drains
