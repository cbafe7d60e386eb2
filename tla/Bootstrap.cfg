CONSTANTS
    a = a
    b = b
    a1 = a1
    a2 = a2
    b1 = b1
    Host = {a1, b1}
    ProxyID = {a, b}
    IdOf <- MCIdOf
    MaxSlot = 3
    None = None
SPECIFICATION FairSpec
INVARIANTS
    TypeOK
    SubnetsDisjoint
    ServesRegisteredSubnet
    HealthyIsComplete
PROPERTY
    ComesUp
CHECK_DEADLOCK FALSE
