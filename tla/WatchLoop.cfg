SPECIFICATION FairSpec
CONSTANTS
    Engines = {"ring", "v2"}
    MaxCycle = 3
    MaxFiles = 1
    MaxFault = 1
CHECK_DEADLOCK FALSE
INVARIANTS
    TypeOK
    EndAnchorFresh
PROPERTIES
    CallEvidenceKept
    
    RecordsAgain
