SPECIFICATION Spec
CONSTANTS
    Engines = {"ring"}
    MaxCycle = 1
    MaxFiles = 1
    MaxFault = 0
CHECK_DEADLOCK FALSE
INVARIANT InvalidHadNoCall
