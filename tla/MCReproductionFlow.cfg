SPECIFICATION Spec
CONSTANTS
    Session = {s1, s2}
    MaxStart = 0
    MaxUpset = 2
    MaxRetry = 1
SYMMETRY Symmetry
CHECK_DEADLOCK FALSE
INVARIANTS
    TypeOK
    TerminalIsVerified
    LiveLockIsUsed
PROPERTIES
    LeaseGivenUp
    
