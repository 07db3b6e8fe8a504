SPECIFICATION Spec
CONSTANTS
    a1 = a1
    a2 = a2
    b = b
    A = A
    B = B
    Controller <- MCController
    Owner <- MCOwner
    OwnerOf <- MCOwnerOf
    TTL = 2
    MaxSkew = 1
    MaxTime = 3
    MaxEpoch = 2
INVARIANTS
    TypeOK
    EpochNamesOneOwner
    LiveTokenIsAuthority
PROPERTY ImplementsAuthority
