SPECIFICATION Spec
CONSTANTS
    Controller = {c1, c2}
    Session = {s1, s2}
    MaxLease = 2
    MaxEpoch = 2
    MaxFault = 1
SYMMETRY Symmetry
CHECK_DEADLOCK FALSE
INVARIANTS
    TypeOK
    OneProducer
    
PROPERTIES
    ImplementsAuthority
    
