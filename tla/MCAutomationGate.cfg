SPECIFICATION Spec
CONSTANTS
    Run = {r1, r2, r3}
    MaxFault = 2
SYMMETRY Symmetry
CHECK_DEADLOCK FALSE
INVARIANTS
    TypeOK
    ChangedIsMarked
    EndsClean
